----------------------- MODULE CommandExchange_proofs -----------------------
(***************************************************************************)
(* What CommandExchange's runs check of the 28 commands, proved for every  *)
(* number of entries a caller can put into a list.                         *)
(*                                                                         *)
(* First the tables: Legible says that a parser's branches copy each text  *)
(* to the field it was printed from, but for the fields in Missing, which  *)
(* another text overwrites or none reaches; WellMade(c) that the two       *)
(* formats of command c are legible, list by list.  Then the documents:    *)
(* Describes.  Then the inductive invariant IInv of the parser's walk,     *)
(* which says of every field read so far which text it holds: that of the  *)
(* last node, among those behind the pointers, that is copied to it.       *)
(***************************************************************************)
EXTENDS CommandExchange, SequenceTheorems, TLAPS

-----------------------------------------------------------------------------
(* The formats of one kind of entry: its nodes, and their reader.          *)

\* The tags and the fields of all commands.
Tags == {"Action", "action", "alarmHisRecord", "camId", "cmd", "cuId", "cuLevel",
         "curPacketNum", "curUserId", "description", "endTime", "flag", "fromDate", "id",
         "information", "level", "linkMode", "location", "locationFlag", "manufacturerId",
         "manufacturerName", "manufacturerld", "mediaType", "muId", "muIp",
         "muKeepAlivePeriod", "muName", "muPassword", "muPort", "name", "num", "param",
         "pktNum", "productVersion", "purpose", "resId", "rtUrl.resId", "rtUrl.time",
         "schduleCreatTime", "sessioinId", "sessionId", "softwareVersion", "speed",
         "startTime", "state", "stopFlag", "targetInfo", "targetIpAddr", "targetPort",
         "toDate", "totalPacketNum", "totalPkt", "type", "url", "userId", "userLevel"}
Nodes == Tags \X Seq(Tags)

\* The counter is not the name of a node's field.
LEMMA NotATag == "urlNum" \notin Tags
BY DEF Tags

\* The fields the nodes' texts are printed from.
Carried(pairs) == UNION {Range(pairs[i][2]) : i \in DOMAIN pairs}

\* But for the fields in gaps, a node's text is copied to the one field it was
\* printed from, and to no other.
Fit(pair, reader, gaps) ==
  /\ \A g \in Targets(reader, pair[1]) \ gaps : pair[2] = <<g>>
  /\ \A g \in Range(pair[2]) \ gaps : g \in Targets(reader, pair[1])
Fits(pairs, reader, gaps) ==
  pairs \in Seq(Nodes) /\ \A i \in DOMAIN pairs : Fit(pairs[i], reader, gaps)

\* A field of the sender's that no text of its own reaches, or that another
\* node overwrites, before or after.
Spoilt(pairs, reader, g) ==
  /\ g \in Carried(pairs)
  /\ \A i \in DOMAIN pairs : g \in Targets(reader, pairs[i][1]) /\ pairs[i][2] = <<g>> =>
       /\ \E j \in DOMAIN pairs : j < i /\ g \in Targets(reader, pairs[j][1])
       /\ \E j \in DOMAIN pairs : j > i /\ g \in Targets(reader, pairs[j][1])

Legible(pairs, reader, gaps) ==
  /\ Fits(pairs, reader, gaps)
  /\ \A g \in gaps : Spoilt(pairs, reader, g)

\* A sequence of one.
LEMMA Single ==
  ASSUME NEW S, NEW x \in S
  PROVE  /\ <<x>> \in Seq(S) /\ DOMAIN <<x>> = {1} /\ <<x>>[1] = x /\ Len(<<x>>) = 1
         /\ Range(<<x>>) = {x}
<1>1. <<x>> \in Seq(S) /\ DOMAIN <<x>> = {1} /\ <<x>>[1] = x /\ Len(<<x>>) = 1
  OBVIOUS
<1>2. ASSUME NEW s, DOMAIN s = {1}
      PROVE  Range(s) = {s[1]}
  BY <1>2 DEF Range
<1> QED
  BY <1>1, <1>2

\* Nodes named after their fields fit a reader that copies each tag to its field.
LEMMA OwnFits ==
  ASSUME NEW names \in Seq(Tags), NEW reader, NEW gaps,
         \A i \in DOMAIN names : /\ Targets(reader, names[i]) \subseteq {names[i]} \cup gaps
                                 /\ names[i] \in Targets(reader, names[i]) \cup gaps
  PROVE  Fits(Own(names), reader, gaps)
<1>1. Own(names) \in Seq(Nodes)
  <2>1. Len(names) \in Nat /\ DOMAIN names = 1..Len(names)
    BY LenProperties
  <2>2. \A x \in Tags : <<x, <<x>> >> \in Nodes
    BY Single DEF Nodes
  <2>3. \A i \in DOMAIN names : names[i] \in Tags
    BY ElementOfSeq
  <2>4. Own(names) \in [1..Len(names) -> Nodes]
    BY <2>1, <2>2, <2>3 DEF Own
  <2> QED
    BY <2>1, <2>4, SeqDef
<1>2. \A i \in DOMAIN names : Own(names)[i] = <<names[i], <<names[i]>> >>
  BY DEF Own
<1>3. DOMAIN Own(names) = DOMAIN names
  BY DEF Own
<1> QED
  BY <1>1, <1>2, <1>3 DEF Fits, Fit, Range

\* One node fits a reader that copies its tag to its field.
LEMMA NamedFits ==
  ASSUME NEW tag \in Tags, NEW field \in Tags, NEW reader, NEW gaps,
         Targets(reader, tag) \subseteq {field} \cup gaps,
         field \in gaps \cup Targets(reader, tag)
  PROVE  Fits(Named(tag, field), reader, gaps)
<1>1. <<field>> \in Seq(Tags) /\ Range(<<field>>) = {field}
  BY Single
<1>2. <<tag, <<field>> >> \in Nodes
  BY <1>1 DEF Nodes
<1>3. Fit(<<tag, <<field>> >>, reader, gaps)
  BY <1>1 DEF Fit
<1>4. /\ Named(tag, field) \in Seq(Nodes) /\ DOMAIN Named(tag, field) = {1}
      /\ Named(tag, field)[1] = <<tag, <<field>> >>
  BY <1>2, Single DEF Named
<1> QED
  BY <1>4, <1>3 DEF Fits

\* Nodes that fit, one after the other.
LEMMA ConcatFits ==
  ASSUME NEW p, NEW q, NEW reader, NEW gaps, Fits(p, reader, gaps), Fits(q, reader, gaps)
  PROVE  Fits(p \o q, reader, gaps)
<1>1. p \in Seq(Nodes) /\ q \in Seq(Nodes)
  BY DEF Fits
<1>2. p \o q \in Seq(Nodes)
  BY <1>1, ConcatProperties
<1>3. \A i \in DOMAIN (p \o q) : \/ i \in DOMAIN p /\ (p \o q)[i] = p[i]
                                 \/ i - Len(p) \in DOMAIN q /\ (p \o q)[i] = q[i - Len(p)]
  BY <1>1, ConcatProperties
<1> QED
  BY <1>2, <1>3 DEF Fits

\* Reversed nodes.
LEMMA ReverseAt ==
  ASSUME NEW S, NEW s \in Seq(S)
  PROVE  /\ Reverse(s) \in Seq(S) /\ Len(Reverse(s)) = Len(s) /\ DOMAIN Reverse(s) = DOMAIN s
         /\ \A i \in DOMAIN s : /\ Len(s) - i + 1 \in DOMAIN s
                                /\ Reverse(s)[i] = s[Len(s) - i + 1]
                                /\ Reverse(s)[Len(s) - i + 1] = s[i]
BY DEF Reverse

\* A reader does not mind the order: what is spoilt is spoilt from both sides.
LEMMA ReverseLegible ==
  ASSUME NEW pairs, NEW reader, NEW gaps, Legible(pairs, reader, gaps)
  PROVE  Legible(Reverse(pairs), reader, gaps) /\ Carried(Reverse(pairs)) = Carried(pairs)
<1> DEFINE r == Reverse(pairs)
<1>1. pairs \in Seq(Nodes)
  BY DEF Legible, Fits
<1>2. /\ r \in Seq(Nodes) /\ DOMAIN r = DOMAIN pairs
      /\ \A i \in DOMAIN pairs : \E j \in DOMAIN pairs : r[i] = pairs[j]
      /\ \A i \in DOMAIN pairs : \E j \in DOMAIN pairs : r[j] = pairs[i]
  BY <1>1, ReverseAt
<1> HIDE DEF r
<1>3. Carried(r) = Carried(pairs)
  BY <1>2 DEF Carried
<1>4. Fits(r, reader, gaps)
  <2>1. Fits(pairs, reader, gaps)
    BY DEF Legible
  <2> QED
    BY <1>2, <2>1 DEF Fits
<1>5. ASSUME NEW g \in gaps
      PROVE  Spoilt(r, reader, g)
  <2>1. Spoilt(pairs, reader, g)
    BY <1>5 DEF Legible
  <2>2. SUFFICES ASSUME NEW i \in DOMAIN r, g \in Targets(reader, r[i][1]), r[i][2] = <<g>>
                 PROVE  /\ \E j \in DOMAIN r : j < i /\ g \in Targets(reader, r[j][1])
                        /\ \E j \in DOMAIN r : j > i /\ g \in Targets(reader, r[j][1])
    BY <1>3, <2>1 DEF Spoilt
  <2> DEFINE m(x) == Len(pairs) - x + 1
  <2>3. /\ m(i) \in DOMAIN pairs /\ r[i] = pairs[m(i)]
        /\ \A j \in DOMAIN pairs : m(j) \in DOMAIN r /\ r[m(j)] = pairs[j]
        /\ \A j \in DOMAIN pairs : (j < m(i) => m(j) > i) /\ (j > m(i) => m(j) < i)
    <3>1. DOMAIN pairs = 1..Len(pairs) /\ Len(pairs) \in Nat /\ i \in 1..Len(pairs)
      BY <1>1, <1>2, LenProperties
    <3>2. \A j \in 1..Len(pairs) : (j < m(i) => m(j) > i) /\ (j > m(i) => m(j) < i)
      BY <3>1
    <3> QED
      BY <1>1, <1>2, <3>1, <3>2, ReverseAt DEF r
  <2> HIDE DEF m
  <2>4. PICK j \in DOMAIN pairs, k \in DOMAIN pairs :
          /\ j < m(i) /\ g \in Targets(reader, pairs[j][1])
          /\ k > m(i) /\ g \in Targets(reader, pairs[k][1])
    BY <2>1, <2>2, <2>3 DEF Spoilt
  <2> QED
    BY <2>3, <2>4
<1> QED
  BY <1>3, <1>4, <1>5 DEF Legible, r

\* In the sender's order or the reverse of it.
LEMMA OrderedLegible ==
  ASSUME NEW pairs, NEW reader, NEW gaps, Legible(pairs, reader, gaps), NEW order
  PROVE  /\ Legible(Ordered(pairs, order), reader, gaps)
         /\ Carried(Ordered(pairs, order)) = Carried(pairs)
BY ReverseLegible DEF Ordered

\* The nodes carry the same in either order.
LEMMA OrderedNodes ==
  ASSUME NEW pairs \in Seq(Nodes), NEW order
  PROVE  /\ Ordered(pairs, order) \in Seq(Nodes)
         /\ Carried(Ordered(pairs, order)) = Carried(pairs)
<1> DEFINE r == Reverse(pairs)
<1>1. /\ r \in Seq(Nodes) /\ DOMAIN r = DOMAIN pairs
      /\ \A i \in DOMAIN pairs : \E j \in DOMAIN pairs : r[i] = pairs[j]
      /\ \A i \in DOMAIN pairs : \E j \in DOMAIN pairs : r[j] = pairs[i]
  BY ReverseAt
<1> HIDE DEF r
<1>2. Carried(r) = Carried(pairs)
  BY <1>1 DEF Carried
<1> QED
  BY <1>1, <1>2 DEF Ordered, r
-----------------------------------------------------------------------------
(* The tables.                                                             *)

AreaNames == {"MURegister", "ResReport", "ResChange", "MUKeepAlive", "ReportCamResState",
              "UserResReport", "UserResChange", "AlarmResListReport", "AlarmResListChange",
              "ReportAlarmRes"}
CoreNames == {"QueryHistoryFiles", "StartMediaReq", "StopMediaReq", "StartPlayBack",
              "ControlFileBack", "StartHisLoad", "ReqCamResState", "GetUserCurState",
              "SetUserCamManage", "AlarmResSubscribe", "QueryAlarmRes", "ReportAlarmInfo",
              "ControlPTZ", "ResTransOrder", "ResChangeOrder", "INFO", "HisInfo",
              "HisLoadInfo"}

\* The commands of the two programs' tables.
LEMMA Domains ==
  /\ DOMAIN AreaSends = AreaNames /\ DOMAIN CoreHandlers = AreaNames
  /\ DOMAIN CoreSends = CoreNames /\ DOMAIN AreaHandlers = CoreNames
  /\ DOMAIN Sent = AreaNames \cup CoreNames
<1>1. DOMAIN AreaSends = AreaNames
  BY DEF AreaSends, AreaNames
<1>2. DOMAIN CoreHandlers = AreaNames
  BY DEF CoreHandlers, AreaNames
<1>3. DOMAIN CoreSends = CoreNames
  BY DEF CoreSends, CoreNames
<1>4. DOMAIN AreaHandlers = CoreNames
  BY DEF AreaHandlers, CoreNames
<1>5. DOMAIN Sent = AreaNames \cup CoreNames
  BY <1>1, <1>3 DEF Sent, Over
<1> QED
  BY <1>1, <1>2, <1>3, <1>4, <1>5

\* No command is sent by both programs.
LEMMA Disjoint == AreaNames \cap CoreNames = {}
BY DEF AreaNames, CoreNames

\* What the lookups of a command find.
LEMMA Tables ==
  /\ \A c \in AreaNames : /\ Sent[c] = AreaSends[c]
                          /\ Handlers(c) = CoreHandlers /\ Callbacks(c) = AreaNames
  /\ \A c \in CoreNames : /\ Sent[c] = CoreSends[c]
                          /\ Handlers(c) = AreaHandlers
                          /\ Callbacks(c) = CoreNames \ {"StartHisLoad"}
BY Domains, Disjoint DEF Sent, Over, Handlers, Callbacks, CoreCallbacks, AreaCallbacks

\* The reader of a list's entries, or of the other nodes, and the counter the
\* list's method sets.
RowOf(c, list) ==
  IF list = "flat" THEN Handlers(c)[c].flat ELSE ListReader(Handlers(c)[c], list).row
CounterOf(c, list) == ListReader(Handlers(c)[c], list).counter

\* The leaves of a section, each with the text that is copied for it.
Seen(c, list, leaves) == Taken(ListReader(Handlers(c)[c], list), leaves)

\* The fields of each list that Gaps names, but for SetUserCamManage.
Missing(c, list) ==
  CASE c = "MURegister" /\ list = "flat"         -> {"manufacturerld"}
    [] c = "ControlFileBack" /\ list = "flat"    -> {"sessionId", "param"}
    [] c = "ReportAlarmInfo" /\ list = "group" -> {"type"}
    [] c = "ReportAlarmRes" /\ list = "group" -> {"description", "rtUrl.resId", "rtUrl.time"}
    [] c \in {"ResTransOrder", "ResChangeOrder"} /\ list = "resources" -> Resource
    [] OTHER -> {}

Loops == {"one", "urlNum", "camurl_Num", "idurl_Num"}
ListFormat == [node : Lists, loops : Loops, holds : Loops, row : Seq(Nodes)]

\* In either order, the nodes of a section can be read from the texts copied.
Readable(c, list, pairs) ==
  /\ pairs \in Seq(Nodes)
  /\ \A order : LET seen == Seen(c, list, Ordered(pairs, order)) IN
       /\ Legible(seen, RowOf(c, list), Missing(c, list))
       /\ Carried(seen) = Carried(pairs)

\* What the proofs use of a command's two formats: of a list, and of them all.
WellListed(c, l) ==
  /\ Readable(c, l.node, l.row)
  /\ CounterOf(c, l.node) \in {Uncounted, "urlNum"}
  /\ CounterOf(c, l.node) = "urlNum" => l.node = "group" /\ l.loops = "urlNum"
  /\ l.node = "group" /\ c \notin Uncounting => CounterOf(c, l.node) = "urlNum"
  /\ c # "SetUserCamManage" => l.loops = l.holds

WellMade(c) ==
  /\ Readable(c, "flat", Sent[c].flat)
  /\ \A t : "urlNum" \notin Targets(RowOf(c, "flat"), t)
  /\ CounterOf(c, "flat") = Uncounted
  /\ Sent[c].lists \in Seq(ListFormat)
  /\ \A i \in DOMAIN Sent[c].lists : WellListed(c, Sent[c].lists[i])
  /\ \A i, j \in DOMAIN Sent[c].lists : Sent[c].lists[i].node = Sent[c].lists[j].node => i = j
  /\ \A l : Missing(c, l) # {} =>
       l = "flat" \/ \E i \in DOMAIN Sent[c].lists : Sent[c].lists[i].node = l

\* The parts of the formats.
LEMMA Parts ==
  /\ \A f, l : /\ Sends(f, l).flat = f /\ Sends(f, l).lists = l
               /\ Reads(f, l).flat = f /\ Reads(f, l).lists = l
  /\ \A k, r : Rows(k, r).counter = k /\ Rows(k, r).row = r /\ Rows(k, r).whole = FALSE
  /\ \A r : /\ WholeRows(r).counter = Uncounted /\ WholeRows(r).row = r
             /\ WholeRows(r).whole = TRUE
BY DEF Sends, Reads, Rows, WholeRows

\* Texts that are copied one by one.
LEMMA OneByOne ==
  ASSUME NEW c, NEW list, NEW pairs, ~ListReader(Handlers(c)[c], list).whole,
         Legible(pairs, RowOf(c, list), Missing(c, list))
  PROVE  Readable(c, list, pairs)
<1>1. \A leaves : Seen(c, list, leaves) = leaves
  BY DEF Seen, Taken
<1>2. pairs \in Seq(Nodes)
  BY DEF Legible, Fits
<1> QED
  BY <1>1, <1>2, OrderedLegible DEF Readable

\* A command without lists.
LEMMA FlatOnly ==
  ASSUME NEW c, NEW pairs, NEW reader,
         Sent[c] = Sends(pairs, << >>), Handlers(c)[c] = Reads(reader, NoLists),
         Legible(pairs, reader, Missing(c, "flat")), \A t : "urlNum" \notin Targets(reader, t),
         \A l : l # "flat" => Missing(c, l) = {}
  PROVE  WellMade(c)
<1>1. Sent[c].flat = pairs /\ Sent[c].lists = << >>
  BY Parts
<1>2. Handlers(c)[c].flat = reader
  BY Parts
<1>3. RowOf(c, "flat") = reader
  BY <1>2 DEF RowOf
<1>4. << >> \in Seq(ListFormat) /\ DOMAIN << >> = {}
  OBVIOUS
<1>5. CounterOf(c, "flat") = Uncounted /\ ~ListReader(Handlers(c)[c], "flat").whole
  <2>1. Handlers(c)[c].lists = NoLists
    BY Parts
  <2> QED
    BY <2>1, Parts DEF CounterOf, ListReader, NoLists
<1>6. Readable(c, "flat", Sent[c].flat)
  BY <1>1, <1>3, <1>5, OneByOne
<1> QED
  BY <1>1, <1>3, <1>4, <1>5, <1>6 DEF WellMade

\* A command with one list that can be read.
LEMMA ReadableList ==
  ASSUME NEW c, NEW pairs, NEW reader, NEW node \in Lists, NEW counter \in Loops, NEW row,
         NEW lists, NEW counts \in {Uncounted, "urlNum"},
         Sent[c] = Sends(pairs, << List(node, counter, counter, row) >>),
         Handlers(c)[c] = Reads(reader, lists),
         Legible(pairs, reader, Missing(c, "flat")), \A t : "urlNum" \notin Targets(reader, t),
         node \in DOMAIN lists, "flat" \notin DOMAIN lists, lists[node].counter = counts,
         Readable(c, node, row),
         counts = "urlNum" => node = "group" /\ counter = "urlNum",
         node = "group" /\ c \notin Uncounting => counts = "urlNum",
         \A l : l \notin {"flat", node} => Missing(c, l) = {}
  PROVE  WellMade(c)
<1> DEFINE l == List(node, counter, counter, row)
<1>1. node # "flat" /\ row \in Seq(Nodes)
  BY DEF Lists, Readable
<1>2. /\ Sent[c].flat = pairs /\ Sent[c].lists = << l >> /\ RowOf(c, "flat") = reader
      /\ CounterOf(c, node) = counts
  BY <1>1, Parts DEF RowOf, CounterOf, ListReader
<1>3. /\ l \in ListFormat /\ l.node = node /\ l.row = row
      /\ l.loops = counter /\ l.holds = counter
  BY <1>1 DEF List, ListFormat
<1> HIDE DEF l
<1>4. /\ Sent[c].lists \in Seq(ListFormat) /\ DOMAIN Sent[c].lists = {1}
      /\ Sent[c].lists[1] = l
  <2>1. << l >> \in Seq(ListFormat) /\ DOMAIN << l >> = {1} /\ << l >>[1] = l
    BY <1>3, Single
  <2>2. Sent[c].lists = << l >>
    BY <1>2
  <2> QED
    BY <2>1, <2>2, Zenon
<1>5. WellListed(c, l)
  BY <1>2, <1>3 DEF WellListed
<1>6. Sent[c].flat = pairs /\ RowOf(c, "flat") = reader
  BY <1>2
<1>7. CounterOf(c, "flat") = Uncounted /\ ~ListReader(Handlers(c)[c], "flat").whole
  BY Parts DEF CounterOf, ListReader
<1>8. Readable(c, "flat", Sent[c].flat)
  BY <1>6, <1>7, OneByOne
<1> QED
  BY <1>3, <1>4, <1>5, <1>6, <1>7, <1>8 DEF WellMade

\* A command with one list, whose nodes' own texts are copied.
LEMMA OneList ==
  ASSUME NEW c, NEW pairs, NEW reader, NEW node \in Lists, NEW counter \in Loops, NEW row,
         NEW lists, NEW rows, NEW counts \in {Uncounted, "urlNum"},
         Sent[c] = Sends(pairs, << List(node, counter, counter, row) >>),
         Handlers(c)[c] = Reads(reader, lists),
         Legible(pairs, reader, Missing(c, "flat")), \A t : "urlNum" \notin Targets(reader, t),
         node \in DOMAIN lists, "flat" \notin DOMAIN lists, lists[node] = Rows(counts, rows),
         Legible(row, rows, Missing(c, node)),
         counts = "urlNum" => node = "group" /\ counter = "urlNum",
         node = "group" /\ c \notin Uncounting => counts = "urlNum",
         \A l : l \notin {"flat", node} => Missing(c, l) = {}
  PROVE  WellMade(c)
<1>1. /\ RowOf(c, node) = rows /\ lists[node].counter = counts
      /\ ~ListReader(Handlers(c)[c], node).whole
  BY Parts DEF Lists, RowOf, ListReader
<1>2. Readable(c, node, row)
  BY <1>1, OneByOne
<1> QED
  BY <1>1, <1>2, ReadableList

\* Readers that copy a text to the field of the tag's name.
LEMMA SameTargets ==
  ASSUME NEW S, NEW t
  PROVE  Targets(Same(S), t) = IF t \in S THEN {t} ELSE {}
BY DEF Targets, Same

\* Nodes named after their fields, and a reader of the same tags.
LEMMA SameFits ==
  ASSUME NEW S, NEW T, T \subseteq Tags, NEW gaps, T \subseteq S \cup gaps,
         NEW names \in Seq(T)
  PROVE  Fits(Own(names), Same(S), gaps)
<1>1. names \in Seq(Tags)
  BY SeqMonotonic
<1>2. \A i \in DOMAIN names : names[i] \in T
  BY ElementOfSeq
<1> QED
  BY <1>1, <1>2, OwnFits, SameTargets

\* They are read without gaps.
LEMMA OwnSame ==
  ASSUME NEW S, S \subseteq Tags, NEW names \in Seq(S)
  PROVE  Legible(Own(names), Same(S), {})
BY SameFits DEF Legible

\* A command without lists, each of whose nodes is named after its field.
LEMMA FlatSame ==
  ASSUME NEW c, NEW S, S \subseteq Tags, NEW names \in Seq(S),
         Sent[c] = Sends(Own(names), << >>), Handlers(c)[c] = Reads(Same(S), NoLists),
         \A l : Missing(c, l) = {}
  PROVE  WellMade(c)
<1>1. Legible(Own(names), Same(S), Missing(c, "flat"))
  BY OwnSame
<1>2. \A t : "urlNum" \notin Targets(Same(S), t)
  BY SameTargets, NotATag
<1> QED
  BY <1>1, <1>2, FlatOnly
-----------------------------------------------------------------------------
(* The commands.                                                           *)

\* The formats of each command.
LEMMA Lookups ==
  /\ Sent["MURegister"] = Send_MURegister
     /\ Handlers("MURegister")["MURegister"] = Parse_MURegister
  /\ Sent["ResReport"] = Send_ResReport /\ Handlers("ResReport")["ResReport"] = Parse_ResReport
  /\ Sent["ResChange"] = Send_ResChange /\ Handlers("ResChange")["ResChange"] = Parse_ResChange
  /\ Sent["MUKeepAlive"] = Send_MUKeepAlive
     /\ Handlers("MUKeepAlive")["MUKeepAlive"] = Parse_MUKeepAlive
  /\ Sent["ReportCamResState"] = Send_ReportCamResState
     /\ Handlers("ReportCamResState")["ReportCamResState"] = Parse_ReportCamResState
  /\ Sent["UserResReport"] = Send_UserResReport
     /\ Handlers("UserResReport")["UserResReport"] = Parse_UserResReport
  /\ Sent["UserResChange"] = Send_UserResChange
     /\ Handlers("UserResChange")["UserResChange"] = Parse_UserResChange
  /\ Sent["AlarmResListReport"] = Send_AlarmResListReport
     /\ Handlers("AlarmResListReport")["AlarmResListReport"] = Parse_AlarmResListReport
  /\ Sent["AlarmResListChange"] = Send_AlarmResListChange
     /\ Handlers("AlarmResListChange")["AlarmResListChange"] = Parse_AlarmResListChange
  /\ Sent["ReportAlarmRes"] = Send_ReportAlarmRes
     /\ Handlers("ReportAlarmRes")["ReportAlarmRes"] = Parse_ReportAlarmRes
  /\ Sent["QueryHistoryFiles"] = Send_QueryHistoryFiles
     /\ Handlers("QueryHistoryFiles")["QueryHistoryFiles"] = Parse_QueryHistoryFiles
  /\ Sent["StartMediaReq"] = Send_StartMediaReq
     /\ Handlers("StartMediaReq")["StartMediaReq"] = Parse_StartMediaReq
  /\ Sent["StopMediaReq"] = Send_StopMediaReq
     /\ Handlers("StopMediaReq")["StopMediaReq"] = Parse_StopMediaReq
  /\ Sent["StartPlayBack"] = Send_StartPlayBack
     /\ Handlers("StartPlayBack")["StartPlayBack"] = Parse_StartPlayBack
  /\ Sent["ControlFileBack"] = Send_ControlFileBack
     /\ Handlers("ControlFileBack")["ControlFileBack"] = Parse_ControlFileBack
  /\ Sent["StartHisLoad"] = Send_StartHisLoad
     /\ Handlers("StartHisLoad")["StartHisLoad"] = Parse_StartHisLoad
  /\ Sent["ReqCamResState"] = Send_ReqCamResState
     /\ Handlers("ReqCamResState")["ReqCamResState"] = Parse_ReqCamResState
  /\ Sent["GetUserCurState"] = Send_GetUserCurState
     /\ Handlers("GetUserCurState")["GetUserCurState"] = Parse_GetUserCurState
  /\ Sent["SetUserCamManage"] = Send_SetUserCamManage
     /\ Handlers("SetUserCamManage")["SetUserCamManage"] = Parse_SetUserCamManage
  /\ Sent["AlarmResSubscribe"] = Send_AlarmResSubscribe
     /\ Handlers("AlarmResSubscribe")["AlarmResSubscribe"] = Parse_AlarmResSubscribe
  /\ Sent["QueryAlarmRes"] = Send_QueryAlarmRes
     /\ Handlers("QueryAlarmRes")["QueryAlarmRes"] = Parse_QueryAlarmRes
  /\ Sent["ReportAlarmInfo"] = Send_ReportAlarmInfo
     /\ Handlers("ReportAlarmInfo")["ReportAlarmInfo"] = Parse_ReportAlarmInfo
  /\ Sent["ControlPTZ"] = Send_ControlPTZ
     /\ Handlers("ControlPTZ")["ControlPTZ"] = Parse_ControlPTZ
  /\ Sent["ResTransOrder"] = Send_ResTransOrder
     /\ Handlers("ResTransOrder")["ResTransOrder"] = Parse_ResTransOrder
  /\ Sent["ResChangeOrder"] = Send_ResChangeOrder
     /\ Handlers("ResChangeOrder")["ResChangeOrder"] = Parse_ResChangeOrder
  /\ Sent["INFO"] = Send_INFO /\ Handlers("INFO")["INFO"] = Parse_INFO
  /\ Sent["HisInfo"] = Send_HisInfo /\ Handlers("HisInfo")["HisInfo"] = Parse_HisInfo
  /\ Sent["HisLoadInfo"] = Send_HisLoadInfo
     /\ Handlers("HisLoadInfo")["HisLoadInfo"] = Parse_HisLoadInfo
<1>1. \A c \in AreaNames : Sent[c] = AreaSends[c] /\ Handlers(c)[c] = CoreHandlers[c]
  BY Tables
<1>2. \A c \in CoreNames : Sent[c] = CoreSends[c] /\ Handlers(c)[c] = AreaHandlers[c]
  BY Tables
<1> QED
  BY <1>1, <1>2 DEF AreaNames, CoreNames, AreaSends, CoreSends, CoreHandlers, AreaHandlers

\* Only six commands have gaps in every message.
LEMMA NoneMissing ==
  /\ \A c, l : c \notin {"MURegister", "ControlFileBack", "ReportAlarmInfo",
                          "ReportAlarmRes", "ResTransOrder", "ResChangeOrder"} =>
       Missing(c, l) = {}
  /\ \A c, l : c \in {"MURegister", "ControlFileBack"} /\ l # "flat" => Missing(c, l) = {}
  /\ \A c, l : c \in {"ReportAlarmInfo", "ReportAlarmRes"} /\ l # "group" => Missing(c, l) = {}
  /\ \A c, l : c \in {"ResTransOrder", "ResChangeOrder"} /\ l # "resources" =>
       Missing(c, l) = {}
BY DEF Missing

\* What QueryHistoryFiles's sender and parser make of its nodes.
LEMMA MadeQueryHistoryFiles == WellMade("QueryHistoryFiles")
<1> DEFINE S == {"resId", "userId", "userLevel", "cuId", "fromDate", "toDate"}
           names == Media \o <<"cuId", "fromDate", "toDate">>
<1>1. names \in Seq(S)
  <2>1. Media \in Seq(S) /\ <<"cuId", "fromDate", "toDate">> \in Seq(S)
    BY DEF Media
  <2> QED
    BY <2>1, ConcatProperties
<1>2. S \subseteq Tags
  BY DEF Tags
<1>3. /\ Sent["QueryHistoryFiles"] = Sends(Own(names), << >>)
      /\ Handlers("QueryHistoryFiles")["QueryHistoryFiles"] = Reads(Same(S), NoLists)
  BY Lookups DEF Send_QueryHistoryFiles, Parse_QueryHistoryFiles
<1> HIDE DEF S, names
<1> QED
  BY <1>1, <1>2, <1>3, FlatSame, NoneMissing

\* What StartMediaReq's sender and parser make of its nodes.
LEMMA MadeStartMediaReq == WellMade("StartMediaReq")
<1> DEFINE S == {"resId", "userId", "userLevel", "mediaType", "linkMode", "targetIpAddr",
                 "targetPort", "flag"}
           names == Media \o <<"mediaType", "linkMode", "targetIpAddr", "targetPort", "flag">>
<1>1. names \in Seq(S)
  <2>1. Media \in Seq(S)
        /\ <<"mediaType", "linkMode", "targetIpAddr", "targetPort", "flag">> \in Seq(S)
    BY DEF Media
  <2> QED
    BY <2>1, ConcatProperties
<1>2. S \subseteq Tags
  BY DEF Tags
<1>3. /\ Sent["StartMediaReq"] = Sends(Own(names), << >>)
      /\ Handlers("StartMediaReq")["StartMediaReq"] = Reads(Same(S), NoLists)
  BY Lookups DEF Send_StartMediaReq, Parse_StartMediaReq
<1> HIDE DEF S, names
<1> QED
  BY <1>1, <1>2, <1>3, FlatSame, NoneMissing

\* What StopMediaReq's sender and parser make of its nodes.
LEMMA MadeStopMediaReq == WellMade("StopMediaReq")
<1> DEFINE S == {"sessionId", "resId", "stopFlag"}
           names == <<"sessionId", "resId", "stopFlag">>
<1>1. names \in Seq(S)
  OBVIOUS
<1>2. S \subseteq Tags
  BY DEF Tags
<1>3. /\ Sent["StopMediaReq"] = Sends(Own(names), << >>)
      /\ Handlers("StopMediaReq")["StopMediaReq"] = Reads(Same(S), NoLists)
  BY Lookups DEF Send_StopMediaReq, Parse_StopMediaReq
<1> HIDE DEF S, names
<1> QED
  BY <1>1, <1>2, <1>3, FlatSame, NoneMissing

\* What StartPlayBack's sender and parser make of its nodes.
LEMMA MadeStartPlayBack == WellMade("StartPlayBack")
<1> DEFINE S == {"resId", "userId", "userLevel", "startTime", "endTime", "linkMode",
                 "targetIpAddr", "targetPort", "flag", "locationFlag"}
           names == Back
<1>1. names \in Seq(S)
  <2>1. Media \in Seq(S)
    BY DEF Media
  <2>2. <<"startTime", "endTime", "linkMode", "targetIpAddr", "targetPort", "flag",
        "locationFlag">> \in Seq(S)
    OBVIOUS
  <2> QED
    BY <2>1, <2>2, ConcatProperties DEF Back
<1>2. S \subseteq Tags
  BY DEF Tags
<1>3. /\ Sent["StartPlayBack"] = Sends(Own(names), << >>)
      /\ Handlers("StartPlayBack")["StartPlayBack"] = Reads(Same(S), NoLists)
  BY Lookups DEF Send_StartPlayBack, Parse_StartPlayBack
<1> HIDE DEF S, names
<1> QED
  BY <1>1, <1>2, <1>3, FlatSame, NoneMissing

\* What StartHisLoad's sender and parser make of its nodes.
LEMMA MadeStartHisLoad == WellMade("StartHisLoad")
<1> DEFINE S == {"resId", "userId", "userLevel", "startTime", "endTime", "linkMode",
                 "targetIpAddr", "targetPort", "flag", "locationFlag"}
           names == Back
<1>1. names \in Seq(S)
  <2>1. Media \in Seq(S)
    BY DEF Media
  <2>2. <<"startTime", "endTime", "linkMode", "targetIpAddr", "targetPort", "flag",
        "locationFlag">> \in Seq(S)
    OBVIOUS
  <2> QED
    BY <2>1, <2>2, ConcatProperties DEF Back
<1>2. S \subseteq Tags
  BY DEF Tags
<1>3. /\ Sent["StartHisLoad"] = Sends(Own(names), << >>)
      /\ Handlers("StartHisLoad")["StartHisLoad"] = Reads(Same(S), NoLists)
  BY Lookups DEF Send_StartHisLoad, Parse_StartHisLoad
<1> HIDE DEF S, names
<1> QED
  BY <1>1, <1>2, <1>3, FlatSame, NoneMissing

\* What GetUserCurState's sender and parser make of its nodes.
LEMMA MadeGetUserCurState == WellMade("GetUserCurState")
<1> DEFINE S == {"muId", "curUserId"}
           names == <<"muId", "curUserId">>
<1>1. names \in Seq(S)
  OBVIOUS
<1>2. S \subseteq Tags
  BY DEF Tags
<1>3. /\ Sent["GetUserCurState"] = Sends(Own(names), << >>)
      /\ Handlers("GetUserCurState")["GetUserCurState"] = Reads(Same(S), NoLists)
  BY Lookups DEF Send_GetUserCurState, Parse_GetUserCurState
<1> HIDE DEF S, names
<1> QED
  BY <1>1, <1>2, <1>3, FlatSame, NoneMissing

\* What ControlPTZ's sender and parser make of its nodes.
LEMMA MadeControlPTZ == WellMade("ControlPTZ")
<1> DEFINE S == {"resId", "userId", "userLevel", "cmd", "param", "speed"}
           names == Media \o <<"cmd", "param", "speed">>
<1>1. names \in Seq(S)
  <2>1. Media \in Seq(S) /\ <<"cmd", "param", "speed">> \in Seq(S)
    BY DEF Media
  <2> QED
    BY <2>1, ConcatProperties
<1>2. S \subseteq Tags
  BY DEF Tags
<1>3. /\ Sent["ControlPTZ"] = Sends(Own(names), << >>)
      /\ Handlers("ControlPTZ")["ControlPTZ"] = Reads(Same(S), NoLists)
  BY Lookups DEF Send_ControlPTZ, Parse_ControlPTZ
<1> HIDE DEF S, names
<1> QED
  BY <1>1, <1>2, <1>3, FlatSame, NoneMissing

\* What MUKeepAlive's sender and parser make of its nodes.
LEMMA MadeMUKeepAlive == WellMade("MUKeepAlive")
<1> DEFINE S == {"muKeepAlivePeriod"}
           names == <<"muKeepAlivePeriod">>
<1>1. names \in Seq(S)
  OBVIOUS
<1>2. S \subseteq Tags
  BY DEF Tags
<1>3. /\ Sent["MUKeepAlive"] = Sends(Own(names), << >>)
      /\ Handlers("MUKeepAlive")["MUKeepAlive"] = Reads(Same(S), NoLists)
  BY Lookups DEF Send_MUKeepAlive, Parse_MUKeepAlive
<1> HIDE DEF S, names
<1> QED
  BY <1>1, <1>2, <1>3, FlatSame, NoneMissing

\* What INFO's sender and parser make of its nodes.
LEMMA MadeINFO == WellMade("INFO")
<1> DEFINE S == {"sessionId", "resId", "userId", "userLevel"}
           names == Info
<1>1. names \in Seq(S)
  BY DEF Info
<1>2. S \subseteq Tags
  BY DEF Tags
<1>3. /\ Sent["INFO"] = Sends(Own(names), << >>)
      /\ Handlers("INFO")["INFO"] = Reads(Same(S), NoLists)
  BY Lookups DEF Send_INFO, Parse_INFO, ReadsInfo
<1> HIDE DEF S, names
<1> QED
  BY <1>1, <1>2, <1>3, FlatSame, NoneMissing

\* What HisInfo's sender and parser make of its nodes.
LEMMA MadeHisInfo == WellMade("HisInfo")
<1> DEFINE S == {"sessionId", "resId", "userId", "userLevel"}
           names == Info
<1>1. names \in Seq(S)
  BY DEF Info
<1>2. S \subseteq Tags
  BY DEF Tags
<1>3. /\ Sent["HisInfo"] = Sends(Own(names), << >>)
      /\ Handlers("HisInfo")["HisInfo"] = Reads(Same(S), NoLists)
  BY Lookups DEF Send_HisInfo, Parse_HisInfo, ReadsInfo
<1> HIDE DEF S, names
<1> QED
  BY <1>1, <1>2, <1>3, FlatSame, NoneMissing

\* What HisLoadInfo's sender and parser make of its nodes.
LEMMA MadeHisLoadInfo == WellMade("HisLoadInfo")
<1> DEFINE S == {"sessionId", "resId", "userId", "userLevel"}
           names == Info
<1>1. names \in Seq(S)
  BY DEF Info
<1>2. S \subseteq Tags
  BY DEF Tags
<1>3. /\ Sent["HisLoadInfo"] = Sends(Own(names), << >>)
      /\ Handlers("HisLoadInfo")["HisLoadInfo"] = Reads(Same(S), NoLists)
  BY Lookups DEF Send_HisLoadInfo, Parse_HisLoadInfo, ReadsInfo
<1> HIDE DEF S, names
<1> QED
  BY <1>1, <1>2, <1>3, FlatSame, NoneMissing

\* A command with one list, of whose entries every node is named after its field.
LEMMA ListSame ==
  ASSUME NEW c, NEW S, S \subseteq Tags, NEW names \in Seq(S), NEW R, R \subseteq Tags,
         NEW rows \in Seq(R), NEW node \in Lists, NEW counter \in Loops, NEW lists,
         NEW counts \in {Uncounted, "urlNum"},
         Sent[c] = Sends(Own(names), << List(node, counter, counter, Own(rows)) >>),
         Handlers(c)[c] = Reads(Same(S), lists),
         node \in DOMAIN lists, "flat" \notin DOMAIN lists,
         lists[node] = Rows(counts, Same(R)),
         counts = "urlNum" => node = "group" /\ counter = "urlNum",
         node = "group" /\ c \notin Uncounting => counts = "urlNum",
         \A l : Missing(c, l) = {}
  PROVE  WellMade(c)
<1>1. Legible(Own(names), Same(S), Missing(c, "flat"))
  BY OwnSame
<1>2. Legible(Own(rows), Same(R), Missing(c, node))
  BY OwnSame
<1>3. \A t : "urlNum" \notin Targets(Same(S), t)
  BY SameTargets, NotATag
<1> QED
  BY <1>1, <1>2, <1>3, OneList

\* A command with a group whose nodes are named after their fields.
LEMMA GroupSame ==
  ASSUME NEW c, NEW S, S \subseteq Tags, NEW names \in Seq(S), NEW R, R \subseteq Tags,
         NEW rows \in Seq(R), NEW counts \in {Uncounted, "urlNum"},
         Sent[c] = Sends(Own(names), Group(Own(rows))),
         Handlers(c)[c] = Reads(Same(S), InGroup(counts, Same(R))),
         counts = "urlNum" \/ c \in Uncounting,
         \A l : Missing(c, l) = {}
  PROVE  WellMade(c)
<1>1. /\ Group(Own(rows)) = << List("group", "urlNum", "urlNum", Own(rows)) >>
      /\ "group" \in DOMAIN InGroup(counts, Same(R))
      /\ "flat" \notin DOMAIN InGroup(counts, Same(R))
      /\ InGroup(counts, Same(R))["group"] = Rows(counts, Same(R))
  BY DEF Group, InGroup
<1>2. "group" \in Lists /\ "urlNum" \in Loops
  BY DEF Lists, Loops
<1> QED
  BY <1>1, <1>2, ListSame

\* A command with a group of resources.
LEMMA ResourceSame ==
  ASSUME NEW c, NEW S, S \subseteq Tags, NEW names \in Seq(S),
         Sent[c] = Sends(Own(names), OneResource),
         Handlers(c)[c] = Reads(Same(S), ReadsResource),
         \A l : Missing(c, l) = {}
  PROVE  WellMade(c)
<1> DEFINE rows == <<"resId", "name", "location", "purpose", "information">>
<1>1. /\ OneResource = << List("resources", "one", "one", Own(rows)) >>
      /\ "resources" \in DOMAIN ReadsResource /\ "flat" \notin DOMAIN ReadsResource
      /\ ReadsResource["resources"] = Rows(Uncounted, Same(Resource))
  BY DEF OneResource, ResourceNodes, ReadsResource
<1>2. /\ rows \in Seq(Resource) /\ Resource \subseteq Tags
      /\ "resources" \in Lists /\ "one" \in Loops /\ "resources" # "group"
  BY DEF Resource, Tags, Lists, Loops
<1>3. Uncounted # "urlNum"
  BY DEF Uncounted
<1> HIDE DEF rows
<1> QED
  BY <1>1, <1>2, <1>3, ListSame

\* What ResReport's sender and parser make of its nodes.
LEMMA MadeResReport == WellMade("ResReport")
<1> DEFINE S == {"muId", "totalPacketNum", "curPacketNum"}
           names == <<"muId", "totalPacketNum", "curPacketNum">>
           R == Resource  rows == <<"resId", "name", "location", "purpose", "information">>
<1>1. names \in Seq(S) /\ rows \in Seq(R)
  BY DEF Resource
<1>2. S \subseteq Tags /\ R \subseteq Tags
  BY DEF Tags, Resource
<1>3. /\ Sent["ResReport"] = Sends(Own(names), Group(Own(rows)))
      /\ Handlers("ResReport")["ResReport"] = Reads(Same(S), InGroup(Uncounted, Same(R)))
  BY Lookups DEF Send_ResReport, Parse_ResReport, ResourceNodes
<1>4. "ResReport" \in Uncounting
  BY DEF Uncounting
<1> HIDE DEF S, names, R, rows
<1> QED
  BY <1>1, <1>2, <1>3, <1>4, GroupSame, NoneMissing

\* What ReportCamResState's sender and parser make of its nodes.
LEMMA MadeReportCamResState == WellMade("ReportCamResState")
<1> DEFINE S == {"muId"}  names == <<"muId">>
           R == {"resId", "state"}  rows == <<"resId", "state">>
<1>1. names \in Seq(S) /\ rows \in Seq(R)
  OBVIOUS
<1>2. S \subseteq Tags /\ R \subseteq Tags
  BY DEF Tags
<1>3. /\ Sent["ReportCamResState"] = Sends(Own(names), Group(Own(rows)))
      /\ Handlers("ReportCamResState")["ReportCamResState"] =
           Reads(Same(S), InGroup(Uncounted, Same(R)))
  BY Lookups DEF Send_ReportCamResState, Parse_ReportCamResState
<1>4. "ReportCamResState" \in Uncounting
  BY DEF Uncounting
<1> HIDE DEF S, names, R, rows
<1> QED
  BY <1>1, <1>2, <1>3, <1>4, GroupSame, NoneMissing

\* What UserResReport's sender and parser make of its nodes.
LEMMA MadeUserResReport == WellMade("UserResReport")
<1> DEFINE S == {"muId", "muName", "totalPkt", "pktNum"}
           names == <<"muId", "muName", "totalPkt", "pktNum">>
           R == {"id", "name"}  rows == <<"id", "name">>
<1>1. names \in Seq(S) /\ rows \in Seq(R)
  OBVIOUS
<1>2. S \subseteq Tags /\ R \subseteq Tags
  BY DEF Tags
<1>3. /\ Sent["UserResReport"] = Sends(Own(names), Group(Own(rows)))
      /\ Handlers("UserResReport")["UserResReport"] =
           Reads(Same(S), InGroup(Uncounted, Same(R)))
  BY Lookups DEF Send_UserResReport, Parse_UserResReport
<1>4. "UserResReport" \in Uncounting
  BY DEF Uncounting
<1> HIDE DEF S, names, R, rows
<1> QED
  BY <1>1, <1>2, <1>3, <1>4, GroupSame, NoneMissing

\* What UserResChange's sender and parser make of its nodes.
LEMMA MadeUserResChange == WellMade("UserResChange")
<1> DEFINE S == {"muId", "totalPkt", "pktNum", "cmd"}
           names == <<"muId", "totalPkt", "pktNum", "cmd">>
           R == {"id", "name"}  rows == <<"id", "name">>
<1>1. names \in Seq(S) /\ rows \in Seq(R)
  OBVIOUS
<1>2. S \subseteq Tags /\ R \subseteq Tags
  BY DEF Tags
<1>3. /\ Sent["UserResChange"] = Sends(Own(names), Group(Own(rows)))
      /\ Handlers("UserResChange")["UserResChange"] =
           Reads(Same(S), InGroup(Uncounted, Same(R)))
  BY Lookups DEF Send_UserResChange, Parse_UserResChange
<1>4. "UserResChange" \in Uncounting
  BY DEF Uncounting
<1> HIDE DEF S, names, R, rows
<1> QED
  BY <1>1, <1>2, <1>3, <1>4, GroupSame, NoneMissing

\* What AlarmResListReport's sender and parser make of its nodes.
LEMMA MadeAlarmResListReport == WellMade("AlarmResListReport")
<1> DEFINE S == {"muId", "muName", "totalPkt", "pktNum"}
           names == <<"muId", "muName", "totalPkt", "pktNum">>
           R == {"id", "name", "description"}  rows == <<"id", "name", "description">>
<1>1. names \in Seq(S) /\ rows \in Seq(R)
  OBVIOUS
<1>2. S \subseteq Tags /\ R \subseteq Tags
  BY DEF Tags
<1>3. /\ Sent["AlarmResListReport"] = Sends(Own(names), Group(Own(rows)))
      /\ Handlers("AlarmResListReport")["AlarmResListReport"] =
           Reads(Same(S), InGroup("urlNum", Same(R)))
  BY Lookups DEF Send_AlarmResListReport, Parse_AlarmResListReport
<1> HIDE DEF S, names, R, rows
<1> QED
  BY <1>1, <1>2, <1>3, GroupSame, NoneMissing

\* What ReqCamResState's sender and parser make of its nodes.
LEMMA MadeReqCamResState == WellMade("ReqCamResState")
<1> DEFINE S == {"muId"}  names == <<"muId">>
           R == {"resId", "state"}  rows == <<"resId">>
<1>1. names \in Seq(S) /\ rows \in Seq(R)
  OBVIOUS
<1>2. S \subseteq Tags /\ R \subseteq Tags
  BY DEF Tags
<1>3. /\ Sent["ReqCamResState"] = Sends(Own(names), Group(Own(rows)))
      /\ Handlers("ReqCamResState")["ReqCamResState"] =
           Reads(Same(S), InGroup(Uncounted, Same(R)))
  BY Lookups DEF Send_ReqCamResState, Parse_ReqCamResState
<1>4. "ReqCamResState" \in Uncounting
  BY DEF Uncounting
<1> HIDE DEF S, names, R, rows
<1> QED
  BY <1>1, <1>2, <1>3, <1>4, GroupSame, NoneMissing

\* What QueryAlarmRes's sender and parser make of its nodes.
LEMMA MadeQueryAlarmRes == WellMade("QueryAlarmRes")
<1> DEFINE S == {"muId", "muName"}  names == <<"muId", "muName">>
           R == {"id", "type"}  rows == <<"id", "type">>
<1>1. names \in Seq(S) /\ rows \in Seq(R)
  OBVIOUS
<1>2. S \subseteq Tags /\ R \subseteq Tags
  BY DEF Tags
<1>3. /\ Sent["QueryAlarmRes"] = Sends(Own(names), Group(Own(rows)))
      /\ Handlers("QueryAlarmRes")["QueryAlarmRes"] =
           Reads(Same(S), InGroup("urlNum", Same(R)))
  BY Lookups DEF Send_QueryAlarmRes, Parse_QueryAlarmRes
<1> HIDE DEF S, names, R, rows
<1> QED
  BY <1>1, <1>2, <1>3, GroupSame, NoneMissing

\* What ResChange's sender and parser make of its nodes.
LEMMA MadeResChange == WellMade("ResChange")
<1> DEFINE S == {"muId", "cmd"}  names == <<"muId", "cmd">>
<1>1. names \in Seq(S)
  OBVIOUS
<1>2. S \subseteq Tags
  BY DEF Tags
<1>3. /\ Sent["ResChange"] = Sends(Own(names), OneResource)
      /\ Handlers("ResChange")["ResChange"] = Reads(Same(S), ReadsResource)
  BY Lookups DEF Send_ResChange, Parse_ResChange
<1> HIDE DEF S, names
<1> QED
  BY <1>1, <1>2, <1>3, ResourceSame, NoneMissing

\* Five texts that are copied together are lost, each of them.
LEMMA JoinedResource ==
  ASSUME NEW leaves, NEW order, leaves = Ordered(ResourceNodes, order)
  PROVE  LET seen == [i \in DOMAIN leaves |-> <<leaves[i][1], Joined(leaves)>>] IN
         Legible(seen, Same(Resource), Resource) /\ Carried(seen) = Resource
<1> DEFINE sent == <<"resId", "name", "location", "purpose", "information">>
           names == [i \in 1..5 |-> leaves[i][1]]
           seen == [i \in DOMAIN leaves |-> <<leaves[i][1], Joined(leaves)>>]
<1>1. /\ DOMAIN sent = 1..5 /\ \A i \in 1..5 : sent[i] \in Resource
      /\ \A g \in Resource : \E i \in 1..5 : sent[i] = g
  BY DEF Resource
<1>2. /\ ResourceNodes \in Seq(Nodes) /\ Len(ResourceNodes) = 5
      /\ DOMAIN ResourceNodes = 1..5
      /\ \A i \in 1..5 : ResourceNodes[i] = <<sent[i], <<sent[i]>> >>
  <2>1. sent \in Seq(Tags)
    BY DEF Tags
  <2>2. Own(sent) \in Seq(Nodes)
    <3>1. \A x \in Tags : <<x, <<x>> >> \in Nodes
      BY Single DEF Nodes
    <3>2. \A i \in 1..5 : sent[i] \in Tags
      BY <1>1, <2>1, ElementOfSeq
    <3> HIDE DEF sent
    <3>3. Own(sent) \in [1..5 -> Nodes]
      BY <1>1, <3>1, <3>2 DEF Own
    <3> QED
      BY <3>3, SeqDef
  <2>3. DOMAIN Own(sent) = 1..5 /\ \A i \in 1..5 : Own(sent)[i] = <<sent[i], <<sent[i]>> >>
    BY <1>1 DEF Own
  <2>4. ResourceNodes = Own(sent)
    BY DEF ResourceNodes
  <2> HIDE DEF sent
  <2> QED
    BY <2>2, <2>3, <2>4, LenProperties
<1> HIDE DEF sent
<1>3. /\ DOMAIN leaves = 1..5
      /\ \A i \in 1..5 : \E j \in 1..5 : leaves[i] = ResourceNodes[j]
      /\ \A j \in 1..5 : \E i \in 1..5 : leaves[i] = ResourceNodes[j]
  <2>1. CASE order = "sent"
    BY <1>2, <2>1 DEF Ordered
  <2>2. CASE order # "sent"
    <3>1. leaves = Reverse(ResourceNodes)
      BY <2>2 DEF Ordered
    <3>2. \A i \in 1..5 : 5 - i + 1 \in 1..5
      OBVIOUS
    <3>3. /\ DOMAIN leaves = 1..5
          /\ \A i \in 1..5 : /\ leaves[i] = ResourceNodes[5 - i + 1]
                             /\ leaves[5 - i + 1] = ResourceNodes[i]
      <4> DEFINE n == Len(ResourceNodes)
      <4>1. ResourceNodes \in Seq(Nodes)
        BY <1>2
      <4>2. /\ DOMAIN Reverse(ResourceNodes) = DOMAIN ResourceNodes
            /\ \A i \in DOMAIN ResourceNodes :
                 /\ Reverse(ResourceNodes)[i] = ResourceNodes[n - i + 1]
                 /\ Reverse(ResourceNodes)[n - i + 1] = ResourceNodes[i]
        BY <4>1, ReverseAt, Zenon
      <4> QED
        BY <1>2, <3>1, <4>2
    <3> QED
      BY <3>2, <3>3
  <2> QED
    BY <2>1, <2>2
<1>4. /\ \A i \in 1..5 : names[i] \in Resource /\ leaves[i] = <<names[i], <<names[i]>> >>
      /\ \A g \in Resource : \E i \in 1..5 : names[i] = g
  BY <1>1, <1>2, <1>3
<1>5. Joined(leaves) = names
  <2>1. \A x : Head(<<x>>) = x
    OBVIOUS
  <2>2. \A i \in 1..5 : Head(leaves[i][2]) = names[i]
    BY <1>4, <2>1
  <2> HIDE DEF names
  <2>3. names = [i \in 1..5 |-> names[i]]
    BY DEF names
  <2> QED
    BY <1>3, <2>2, <2>3 DEF Joined
<1> HIDE DEF names
<1>6. /\ names \in Seq(Tags) /\ DOMAIN names = 1..5 /\ Range(names) = Resource
  <2>1. Resource \subseteq Tags
    BY DEF Resource, Tags
  <2>2. names \in [1..5 -> Tags]
    BY <1>4, <2>1 DEF names
  <2>3. names \in Seq(Tags)
    BY <2>2, SeqDef
  <2>4. DOMAIN names = 1..5
    BY <2>2
  <2>5. {names[i] : i \in 1..5} = Resource
    BY <1>4
  <2> QED
    BY <2>3, <2>4, <2>5 DEF Range
<1>7. \A g : names # <<g>>
  <2>1. \A g : DOMAIN <<g>> = {1}
    BY Single
  <2>2. 1..5 # {1}
    OBVIOUS
  <2> QED
    BY <1>6, <2>1, <2>2
<1>8. /\ DOMAIN seen = 1..5 /\ seen \in Seq(Nodes)
      /\ \A i \in 1..5 : seen[i][1] \in Resource /\ seen[i][2] = names
  <2>1. \A i \in 1..5 : seen[i] = <<names[i], names>>
    BY <1>3, <1>4, <1>5
  <2>2. Resource \subseteq Tags
    BY DEF Resource, Tags
  <2>3. seen \in [1..5 -> Nodes]
    BY <1>3, <1>4, <1>6, <2>1, <2>2 DEF Nodes
  <2> QED
    BY <1>3, <1>4, <2>1, <2>3, SeqDef
<1> HIDE DEF seen
<1>9. Carried(seen) = Resource
  BY <1>6, <1>8 DEF Carried
<1>10. \A t \in Resource : Targets(Same(Resource), t) = {t}
  BY SameTargets
<1>11. Fits(seen, Same(Resource), Resource)
  BY <1>6, <1>8, <1>10 DEF Fits, Fit
<1>12. \A g \in Resource : Spoilt(seen, Same(Resource), g)
  BY <1>7, <1>8, <1>9 DEF Spoilt
<1> QED
  BY <1>9, <1>11, <1>12 DEF Legible, seen

\* A command with a resource, whose whole text is copied for each of its nodes.
LEMMA WholeResource ==
  ASSUME NEW c \in {"ResTransOrder", "ResChangeOrder"},
         NEW S, S \subseteq Tags, NEW names \in Seq(S),
         Sent[c] = Sends(Own(names), OneResourceOrder),
         Handlers(c)[c] = Reads(Same(S), ReadsResourceOrder)
  PROVE  WellMade(c)
<1>1. /\ OneResourceOrder = << List("resources", "one", "one", ResourceNodes) >>
      /\ "resources" \in DOMAIN ReadsResourceOrder /\ "flat" \notin DOMAIN ReadsResourceOrder
      /\ ReadsResourceOrder["resources"] = WholeRows(Same(Resource))
  BY DEF OneResourceOrder, ReadsResourceOrder
<1>2. /\ "resources" \in Lists /\ "one" \in Loops /\ "resources" # "group"
      /\ "resources" # "flat" /\ Uncounted # "urlNum"
  BY DEF Lists, Loops, Uncounted
<1>3. /\ Missing(c, "resources") = Resource /\ \A l : l # "resources" => Missing(c, l) = {}
  BY NoneMissing DEF Missing
<1>4. /\ RowOf(c, "resources") = Same(Resource)
      /\ ListReader(Handlers(c)[c], "resources").whole = TRUE
      /\ ReadsResourceOrder["resources"].counter = Uncounted
  BY <1>1, <1>2, Parts DEF RowOf, ListReader
<1>5. ResourceNodes \in Seq(Nodes) /\ Carried(ResourceNodes) = Resource
  <2> DEFINE rows == <<"resId", "name", "location", "purpose", "information">>
  <2>1. rows \in Seq(Resource) /\ Resource \subseteq Tags
    BY DEF Resource, Tags
  <2>2. /\ DOMAIN rows = 1..5 /\ \A i \in 1..5 : rows[i] \in Resource
        /\ \A g \in Resource : \E i \in 1..5 : rows[i] = g
    BY DEF Resource
  <2>3. ResourceNodes = Own(rows)
    BY DEF ResourceNodes
  <2> HIDE DEF rows
  <2>4. ResourceNodes \in Seq(Nodes)
    BY <2>1, <2>3, OwnSame DEF Legible, Fits
  <2>5. /\ DOMAIN ResourceNodes = 1..5
        /\ \A i \in 1..5 : ResourceNodes[i][2] = <<rows[i]>>
    BY <2>2, <2>3 DEF Own
  <2>6. \A g : Range(<<g>>) = {g}
    BY Single
  <2>7. \A i \in DOMAIN ResourceNodes : Range(ResourceNodes[i][2]) = {rows[i]}
    BY <2>5, <2>6
  <2>8. UNION {Range(ResourceNodes[i][2]) : i \in DOMAIN ResourceNodes} = {rows[i] : i \in 1..5}
    BY <2>5, <2>7
  <2>9. {rows[i] : i \in 1..5} = Resource
    BY <2>2
  <2> QED
    BY <2>4, <2>8, <2>9 DEF Carried
<1>6. Readable(c, "resources", ResourceNodes)
  BY <1>3, <1>4, <1>5, JoinedResource DEF Readable, Seen, Taken
<1>7. Legible(Own(names), Same(S), {})
  BY OwnSame
<1>8. \A t : "urlNum" \notin Targets(Same(S), t)
  BY SameTargets, NotATag
<1> QED
  BY <1>1, <1>2, <1>3, <1>4, <1>6, <1>7, <1>8, ReadableList

\* What ResTransOrder's sender and parser make of its nodes.
LEMMA MadeResTransOrder == WellMade("ResTransOrder")
<1> DEFINE S == {"muId", "totalPacketNum", "curPacketNum"}
           names == <<"muId", "totalPacketNum", "curPacketNum">>
<1>1. names \in Seq(S)
  OBVIOUS
<1>2. S \subseteq Tags
  BY DEF Tags
<1>3. /\ Sent["ResTransOrder"] = Sends(Own(names), OneResourceOrder)
      /\ Handlers("ResTransOrder")["ResTransOrder"] = Reads(Same(S), ReadsResourceOrder)
  BY Lookups DEF Send_ResTransOrder, Parse_ResTransOrder
<1> HIDE DEF S, names
<1> QED
  BY <1>1, <1>2, <1>3, WholeResource

\* What ResChangeOrder's sender and parser make of its nodes.
LEMMA MadeResChangeOrder == WellMade("ResChangeOrder")
<1> DEFINE S == {"muId", "cmd"}  names == <<"muId", "cmd">>
<1>1. names \in Seq(S)
  OBVIOUS
<1>2. S \subseteq Tags
  BY DEF Tags
<1>3. /\ Sent["ResChangeOrder"] = Sends(Own(names), OneResourceOrder)
      /\ Handlers("ResChangeOrder")["ResChangeOrder"] = Reads(Same(S), ReadsResourceOrder)
  BY Lookups DEF Send_ResChangeOrder, Parse_ResChangeOrder
<1> HIDE DEF S, names
<1> QED
  BY <1>1, <1>2, <1>3, WholeResource

\* Nodes whose texts are never copied to field g.
Silent(pairs, reader, g) == \A i \in DOMAIN pairs : g \notin Targets(reader, pairs[i][1])

\* A field that the sender fills and the reader never copies is spoilt.
LEMMA SilentSpoils ==
  ASSUME NEW pairs, NEW reader, NEW g, Silent(pairs, reader, g), g \in Carried(pairs)
  PROVE  Spoilt(pairs, reader, g)
BY DEF Silent, Spoilt

\* No node of two lists of nodes is copied to a field that none of either is.
LEMMA ConcatSilent ==
  ASSUME NEW p \in Seq(Nodes), NEW q \in Seq(Nodes), NEW reader, NEW g,
         Silent(p, reader, g), Silent(q, reader, g)
  PROVE  Silent(p \o q, reader, g)
<1>1. \A i \in DOMAIN (p \o q) : \/ i \in DOMAIN p /\ (p \o q)[i] = p[i]
                                 \/ i - Len(p) \in DOMAIN q /\ (p \o q)[i] = q[i - Len(p)]
  BY ConcatProperties
<1> QED
  BY <1>1 DEF Silent

\* Two lists of nodes carry what each of them does.
LEMMA ConcatCarried ==
  ASSUME NEW p \in Seq(Nodes), NEW q \in Seq(Nodes)
  PROVE  Carried(p) \cup Carried(q) \subseteq Carried(p \o q)
<1>1. /\ \A i \in DOMAIN p : i \in DOMAIN (p \o q) /\ (p \o q)[i] = p[i]
      /\ \A i \in DOMAIN q : i + Len(p) \in DOMAIN (p \o q) /\ (p \o q)[i + Len(p)] = q[i]
  BY ConcatProperties, LenProperties
<1>2. Carried(p) \subseteq Carried(p \o q)
  BY <1>1 DEF Carried
<1>3. Carried(q) \subseteq Carried(p \o q)
  BY <1>1 DEF Carried
<1> QED
  BY <1>2, <1>3

\* The fields and the tags of nodes named after their fields.
LEMMA OwnCarries ==
  ASSUME NEW S, NEW names \in Seq(S)
  PROVE  /\ \A i \in DOMAIN names : names[i] \in Carried(Own(names))
         /\ \A T, g : g \notin S \cap T => Silent(Own(names), Same(T), g)
<1>1. DOMAIN Own(names) = DOMAIN names
  BY DEF Own
<1>2. \A i \in DOMAIN names : Own(names)[i] = <<names[i], <<names[i]>> >>
  BY DEF Own
<1>3. \A i \in DOMAIN names : names[i] \in S
  BY ElementOfSeq
<1>4. \A x \in S : Range(<<x>>) = {x}
  BY Single
<1>5. \A i \in DOMAIN names : names[i] \in Range(Own(names)[i][2])
  BY <1>2, <1>3, <1>4
<1> QED
  BY <1>1, <1>2, <1>3, <1>5, SameTargets DEF Carried, Silent

\* The field and the tag of one node.
LEMMA NamedCarries ==
  ASSUME NEW tag \in Tags, NEW field \in Tags
  PROVE  /\ field \in Carried(Named(tag, field))
         /\ \A reader, g : g \notin Targets(reader, tag) =>
               Silent(Named(tag, field), reader, g)
<1>1. Range(<<field>>) = {field}
  BY Single
<1>2. DOMAIN Named(tag, field) = {1} /\ Named(tag, field)[1] = <<tag, <<field>> >>
  BY DEF Named
<1> QED
  BY <1>1, <1>2 DEF Carried, Silent

\* What MURegister's sender and parser make of its nodes.
LEMMA MadeMURegister == WellMade("MURegister")
<1> DEFINE g == "manufacturerld"
           S == {"muId", "muIp", "muPort", "muName", "muPassword", "manufacturerld",
                 "manufacturerName", "productVersion", "softwareVersion"}
           T == S \ {g}
           first == <<"muId", "muIp", "muPort", "muName", "muPassword">>
           last  == <<"manufacturerName", "productVersion", "softwareVersion">>
           p == Own(first)  q == Named("manufacturerId", g)  r == Own(last)
<1>1. first \in Seq(T) /\ last \in Seq(T) /\ S \subseteq Tags /\ T \subseteq S
  BY DEF Tags
<1>2. "manufacturerId" \in Tags /\ g \in Tags /\ "manufacturerId" \notin S /\ g \notin T
  BY DEF Tags
<1>3. /\ Sent["MURegister"] = Sends(p \o q \o r, << >>)
      /\ Handlers("MURegister")["MURegister"] = Reads(Same(S), NoLists)
  BY Lookups DEF Send_MURegister, Parse_MURegister
<1>4. Missing("MURegister", "flat") = {g}
  BY DEF Missing
<1> HIDE DEF g, S, T, first, last
<1>5. Fits(p, Same(S), {g}) /\ Fits(r, Same(S), {g})
  BY <1>1, SameFits
<1>6. Fits(q, Same(S), {g})
  BY <1>2, NamedFits, SameTargets
<1>7. Silent(p, Same(S), g) /\ Silent(q, Same(S), g) /\ Silent(r, Same(S), g)
  BY <1>1, <1>2, OwnCarries, NamedCarries, SameTargets
<1>8. p \in Seq(Nodes) /\ q \in Seq(Nodes) /\ r \in Seq(Nodes) /\ p \o q \in Seq(Nodes)
  BY <1>5, <1>6, ConcatFits DEF Fits
<1>9. g \in Carried(q)
  BY <1>2, NamedCarries
<1> HIDE DEF p, q, r
<1>10. Fits(p \o q \o r, Same(S), {g}) /\ Silent(p \o q \o r, Same(S), g)
  BY <1>5, <1>6, <1>7, <1>8, ConcatFits, ConcatSilent
<1>11. g \in Carried(p \o q \o r)
  BY <1>8, <1>9, ConcatCarried
<1>12. Legible(p \o q \o r, Same(S), {g})
  BY <1>10, <1>11, SilentSpoils DEF Legible
<1>13. \A t : "urlNum" \notin Targets(Same(S), t)
  BY <1>1, SameTargets, NotATag
<1> QED
  BY <1>3, <1>4, <1>12, <1>13, FlatOnly, NoneMissing

\* What ControlFileBack's sender and parser make of its nodes.
LEMMA MadeControlFileBack == WellMade("ControlFileBack")
<1> DEFINE G == {"sessionId", "param"}
           S == {"sessionId", "resId", "cmd", "param"}
           T == {"resId", "cmd"}
           p == Named("sessioinId", "sessionId")  q == Own(<<"resId", "cmd">>)
           r == Named("linkMode", "param")
<1>1. <<"resId", "cmd">> \in Seq(T) /\ S \subseteq Tags /\ T \subseteq S
  BY DEF Tags
<1>2. /\ {"sessioinId", "linkMode", "sessionId", "param"} \subseteq Tags
      /\ "sessioinId" \notin S /\ "linkMode" \notin S /\ G \cap T = {}
  BY DEF Tags
<1>3. /\ Sent["ControlFileBack"] = Sends(p \o q \o r, << >>)
      /\ Handlers("ControlFileBack")["ControlFileBack"] = Reads(Same(S), NoLists)
  BY Lookups DEF Send_ControlFileBack, Parse_ControlFileBack
<1>4. Missing("ControlFileBack", "flat") = G
  BY DEF Missing
<1>5. "sessionId" \in G /\ "param" \in G /\ (\A g \in G : g = "sessionId" \/ g = "param")
  OBVIOUS
<1> HIDE DEF G, S, T
<1>6. Fits(q, Same(S), G)
  BY <1>1, SameFits
<1>7. Fits(p, Same(S), G) /\ Fits(r, Same(S), G)
  BY <1>2, <1>5, NamedFits, SameTargets
<1>8. \A g \in G : Silent(p, Same(S), g) /\ Silent(q, Same(S), g) /\ Silent(r, Same(S), g)
  BY <1>1, <1>2, OwnCarries, NamedCarries, SameTargets
<1>9. p \in Seq(Nodes) /\ q \in Seq(Nodes) /\ r \in Seq(Nodes) /\ p \o q \in Seq(Nodes)
  BY <1>6, <1>7, ConcatFits DEF Fits
<1>10. "sessionId" \in Carried(p) /\ "param" \in Carried(r)
  BY <1>2, NamedCarries
<1> HIDE DEF p, q, r
<1>11. Fits(p \o q \o r, Same(S), G) /\ \A g \in G : Silent(p \o q \o r, Same(S), g)
  BY <1>6, <1>7, <1>8, <1>9, ConcatFits, ConcatSilent
<1>12. \A g \in G : g \in Carried(p \o q \o r)
  BY <1>5, <1>9, <1>10, ConcatCarried
<1>13. Legible(p \o q \o r, Same(S), G)
  BY <1>11, <1>12, SilentSpoils DEF Legible
<1>14. \A t : "urlNum" \notin Targets(Same(S), t)
  BY <1>1, SameTargets, NotATag
<1> QED
  BY <1>3, <1>4, <1>13, <1>14, FlatOnly, NoneMissing

\* Where two readers copy a tag to.
LEMMA OverTargets ==
  ASSUME NEW f, NEW g, NEW t
  PROVE  Targets(Over(f, g), t) = IF t \in DOMAIN f THEN Targets(f, t) ELSE Targets(g, t)
BY DEF Targets, Over

\* Where a reader of one tag copies it to.
LEMMA IntoTargets ==
  ASSUME NEW tag, NEW fields, NEW t
  PROVE  /\ DOMAIN Into(tag, fields) = {tag}
         /\ Targets(Into(tag, fields), t) = IF t = tag THEN fields ELSE {}
BY DEF Targets, Into

\* A group whose entries' type is read as their description.
LEMMA Described ==
  ASSUME NEW S, NEW names \in Seq(S), S \subseteq Tags, "type" \notin S
  PROVE  Legible(Own(names) \o Named("type", "description"),
                 Over(Same(S), Into("type", {"description"})), {})
<1> DEFINE reader == Over(Same(S), Into("type", {"description"}))
<1>1. DOMAIN Same(S) = S
  BY DEF Same
<1>2. /\ \A t \in S : Targets(reader, t) = {t}
      /\ Targets(reader, "type") = {"description"}
  <2>1. \A t \in S : Targets(reader, t) = Targets(Same(S), t)
    BY <1>1, OverTargets
  <2>2. Targets(reader, "type") = Targets(Into("type", {"description"}), "type")
    BY <1>1, OverTargets
  <2> QED
    BY <2>1, <2>2, SameTargets, IntoTargets
<1> HIDE DEF reader
<1>3. names \in Seq(Tags) /\ \A i \in DOMAIN names : names[i] \in S
  BY SeqMonotonic, ElementOfSeq
<1>4. Fits(Own(names), reader, {})
  BY <1>2, <1>3, OwnFits
<1>5. "type" \in Tags /\ "description" \in Tags
  BY DEF Tags
<1>6. Fits(Named("type", "description"), reader, {})
  BY <1>2, <1>5, NamedFits
<1>7. Fits(Own(names) \o Named("type", "description"), reader, {})
  BY <1>4, <1>6, ConcatFits
<1> QED
  BY <1>7 DEF Legible, reader

\* A command with a group whose nodes include the description.
LEMMA GroupDescribed ==
  ASSUME NEW c, NEW S, S \subseteq Tags, NEW names \in Seq(S),
         NEW R, R \subseteq Tags, "type" \notin R, NEW rows \in Seq(R),
         Sent[c] = Sends(Own(names), Group(Own(rows) \o Named("type", "description"))),
         Handlers(c)[c] = Reads(Same(S),
           InGroup("urlNum", Over(Same(R), Into("type", {"description"})))),
         \A l : Missing(c, l) = {}
  PROVE  WellMade(c)
<1> DEFINE row == Own(rows) \o Named("type", "description")
           reader == Over(Same(R), Into("type", {"description"}))
<1>1. /\ Group(row) = << List("group", "urlNum", "urlNum", row) >>
      /\ "group" \in DOMAIN InGroup("urlNum", reader)
      /\ "flat" \notin DOMAIN InGroup("urlNum", reader)
      /\ InGroup("urlNum", reader)["group"] = Rows("urlNum", reader)
  BY DEF Group, InGroup
<1>2. "group" \in Lists /\ "urlNum" \in Loops
  BY DEF Lists, Loops
<1>3. Legible(Own(names), Same(S), Missing(c, "flat"))
      /\ Legible(row, reader, Missing(c, "group"))
  BY OwnSame, Described
<1>4. \A t : "urlNum" \notin Targets(Same(S), t)
  BY SameTargets, NotATag
<1> HIDE DEF row, reader
<1>5. /\ Sent[c] = Sends(Own(names), << List("group", "urlNum", "urlNum", row) >>)
      /\ Handlers(c)[c] = Reads(Same(S), InGroup("urlNum", reader))
  BY <1>1 DEF row, reader
<1> QED
  BY <1>1, <1>2, <1>3, <1>4, <1>5, OneList

\* What AlarmResListChange's sender and parser make of its nodes.
LEMMA MadeAlarmResListChange == WellMade("AlarmResListChange")
<1> DEFINE S == {"muId", "muName", "num", "totalPkt", "pktNum", "cmd"}
           names == <<"muId", "muName", "num", "totalPkt", "pktNum", "cmd">>
           R == {"id", "name"}  rows == <<"id", "name">>
<1>1. names \in Seq(S) /\ rows \in Seq(R) /\ "type" \notin R
  OBVIOUS
<1>2. S \subseteq Tags /\ R \subseteq Tags
  BY DEF Tags
<1>3. /\ Sent["AlarmResListChange"] =
           Sends(Own(names), Group(Own(rows) \o Named("type", "description")))
      /\ Handlers("AlarmResListChange")["AlarmResListChange"] =
           Reads(Same(S), InGroup("urlNum", Over(Same(R), Into("type", {"description"}))))
  BY Lookups DEF Send_AlarmResListChange, Parse_AlarmResListChange
<1> HIDE DEF S, names, R, rows
<1> QED
  BY <1>1, <1>2, <1>3, GroupDescribed, NoneMissing

\* What AlarmResSubscribe's sender and parser make of its nodes.
LEMMA MadeAlarmResSubscribe == WellMade("AlarmResSubscribe")
<1> DEFINE S == {"muId", "muName", "action"}  names == <<"muId", "muName", "action">>
           R == {"id"}  rows == <<"id">>
<1>1. names \in Seq(S) /\ rows \in Seq(R) /\ "type" \notin R
  OBVIOUS
<1>2. S \subseteq Tags /\ R \subseteq Tags
  BY DEF Tags
<1>3. /\ Sent["AlarmResSubscribe"] =
           Sends(Own(names), Group(Own(rows) \o Named("type", "description")))
      /\ Handlers("AlarmResSubscribe")["AlarmResSubscribe"] =
           Reads(Same(S), InGroup("urlNum", Over(Same(R), Into("type", {"description"}))))
  BY Lookups DEF Send_AlarmResSubscribe, Parse_AlarmResSubscribe
<1> HIDE DEF S, names, R, rows
<1> QED
  BY <1>1, <1>2, <1>3, GroupDescribed, NoneMissing

\* What ReportAlarmInfo's sender and parser make of its nodes.
LEMMA MadeReportAlarmInfo == WellMade("ReportAlarmInfo")
<1> DEFINE S == {"muId", "muName"}  names == <<"muId", "muName">>
           R == {"id", "startTime", "endTime"}
           rows == <<"id", "type", "startTime", "endTime">>
<1>1. /\ names \in Seq(S) /\ rows \in Seq(R \cup {"type"}) /\ "type" \notin R
      /\ 2 \in DOMAIN rows /\ rows[2] = "type"
  OBVIOUS
<1>2. S \subseteq Tags /\ R \cup {"type"} \subseteq Tags
  BY DEF Tags
<1>3. /\ Sent["ReportAlarmInfo"] =
           Sends(Own(names), << List("group", "urlNum", "urlNum", Own(rows)) >>)
      /\ Handlers("ReportAlarmInfo")["ReportAlarmInfo"] =
           Reads(Same(S), InGroup("urlNum", Same(R)))
  BY Lookups DEF Send_ReportAlarmInfo, Parse_ReportAlarmInfo, Group
<1>4. /\ "group" \in DOMAIN InGroup("urlNum", Same(R))
      /\ "flat" \notin DOMAIN InGroup("urlNum", Same(R))
      /\ InGroup("urlNum", Same(R))["group"] = Rows("urlNum", Same(R))
  BY DEF InGroup
<1>5. "group" \in Lists /\ "urlNum" \in Loops
  BY DEF Lists, Loops
<1>6. Missing("ReportAlarmInfo", "group") = {"type"} /\ Missing("ReportAlarmInfo", "flat") = {}
  BY DEF Missing
<1> HIDE DEF S, names, R, rows
<1>7. Fits(Own(rows), Same(R), {"type"})
  BY <1>1, <1>2, SameFits
<1>8. Silent(Own(rows), Same(R), "type") /\ "type" \in Carried(Own(rows))
  BY <1>1, OwnCarries
<1>9. Legible(Own(rows), Same(R), {"type"})
  BY <1>7, <1>8, SilentSpoils DEF Legible
<1>10. Legible(Own(names), Same(S), {})
  BY <1>1, <1>2, OwnSame
<1>11. \A t : "urlNum" \notin Targets(Same(S), t)
  BY <1>2, SameTargets, NotATag
<1>12. \A l : l \notin {"flat", "group"} => Missing("ReportAlarmInfo", l) = {}
  BY NoneMissing
<1>13. /\ Legible(Own(rows), Same(R), Missing("ReportAlarmInfo", "group"))
       /\ Legible(Own(names), Same(S), Missing("ReportAlarmInfo", "flat"))
  BY <1>6, <1>9, <1>10
<1> HIDE DEF Missing
<1> QED
  BY <1>3, <1>4, <1>5, <1>11, <1>12, <1>13, OneList

\* Two tags copied to other fields than their own.
LEMMA TwoInto ==
  ASSUME NEW s, NEW t, s # t, NEW A, NEW B
  PROVE  /\ Targets(Over(Into(s, A), Into(t, B)), s) = A
         /\ Targets(Over(Into(s, A), Into(t, B)), t) = B
BY DEF Targets, Over, Into

\* Tags copied to their own fields and one copied to others.
LEMMA IntoSame ==
  ASSUME NEW s, NEW A, NEW R, s \notin R
  PROVE  /\ Targets(Over(Into(s, A), Same(R)), s) = A
         /\ \A t \in R : Targets(Over(Into(s, A), Same(R)), t) = {t}
BY DEF Targets, Over, Into, Same

\* A sequence of two.
LEMMA Pair ==
  ASSUME NEW S, NEW x \in S, NEW y \in S
  PROVE  <<x, y>> \in Seq(S) /\ Range(<<x, y>>) = {x, y}
<1>1. \A s : DOMAIN s = {1, 2} => Range(s) = {s[1], s[2]}
  BY DEF Range
<1>2. <<x, y>> \in Seq(S) /\ DOMAIN <<x, y>> = {1, 2} /\ <<x, y>>[1] = x /\ <<x, y>>[2] = y
  OBVIOUS
<1> QED
  BY <1>1, <1>2

\* A sequence with one more element.
LEMMA AppendAt ==
  ASSUME NEW S, NEW p \in Seq(S), NEW x \in S
  PROVE  /\ DOMAIN (p \o << x >>) = 1..Len(p) + 1 /\ (p \o << x >>)[Len(p) + 1] = x
         /\ \A i \in 1..Len(p) : (p \o << x >>)[i] = p[i]
BY Single, ConcatProperties, LenProperties

\* What ReportAlarmRes's sender and parser make of its nodes.
LEMMA MadeReportAlarmRes == WellMade("ReportAlarmRes")
<1> DEFINE S == {"muId", "muName"}  names == <<"muId", "muName">>
           G == {"description", "rtUrl.resId", "rtUrl.time"}
           R == {"id", "type", "startTime", "endTime", "targetInfo", "state", "description"}
           rows == <<"id", "type", "startTime", "endTime", "targetInfo", "level", "state",
                     "description", "alarmHisRecord">>
           url == <<"url", <<"rtUrl.resId", "rtUrl.time">> >>
           levels == Over(Into("level", {"level", "description"}),
                          Into("alarmHisRecord", {"alarmHisRecord", "description"}))
           others == Over(Into("url", {"rtUrl.resId", "rtUrl.time"}), Same(R))
           reader == Over(levels, others)
           row == Own(rows) \o << url >>
<1>1. /\ names \in Seq(S) /\ S \subseteq Tags /\ rows \in Seq(Tags)
  BY DEF Tags
<1>2. /\ Group(row) = << List("group", "urlNum", "urlNum", row) >>
      /\ "group" \in DOMAIN InGroup("urlNum", reader)
      /\ "flat" \notin DOMAIN InGroup("urlNum", reader)
      /\ InGroup("urlNum", reader)["group"] = Rows("urlNum", reader)
  BY DEF Group, InGroup
<1>3. /\ Sent["ReportAlarmRes"] = Sends(Own(names), Group(row))
      /\ Handlers("ReportAlarmRes")["ReportAlarmRes"] =
           Reads(Same(S), InGroup("urlNum", reader))
  BY Lookups DEF Send_ReportAlarmRes, Parse_ReportAlarmRes
<1>4. "group" \in Lists /\ "urlNum" \in Loops
  BY DEF Lists, Loops
<1>5. Missing("ReportAlarmRes", "group") = G /\ Missing("ReportAlarmRes", "flat") = {}
  BY DEF Missing
<1>6. Legible(Own(names), Same(S), {})
  BY <1>1, OwnSame
<1>7. \A t : "urlNum" \notin Targets(Same(S), t)
  BY <1>1, SameTargets, NotATag
<1>8. /\ DOMAIN levels = {"level", "alarmHisRecord"} /\ DOMAIN others = {"url"} \cup R
  BY DEF Over, Into, Same
<1> HIDE DEF levels, others
<1>9. /\ Targets(levels, "level") = {"level", "description"}
      /\ Targets(levels, "alarmHisRecord") = {"alarmHisRecord", "description"}
  BY TwoInto DEF levels
<1>10. "url" \notin R
  OBVIOUS
<1> HIDE DEF R
<1>11. /\ Targets(others, "url") = {"rtUrl.resId", "rtUrl.time"}
       /\ \A t \in R : Targets(others, t) = {t}
  BY <1>10, IntoSame DEF others
<1>12. /\ Targets(reader, "level") = {"level", "description"}
       /\ Targets(reader, "alarmHisRecord") = {"alarmHisRecord", "description"}
       /\ Targets(reader, "url") = {"rtUrl.resId", "rtUrl.time"}
       /\ \A t \in R : Targets(reader, t) = {t}
  <2>1. /\ "level" \in DOMAIN levels /\ "alarmHisRecord" \in DOMAIN levels
        /\ "url" \notin DOMAIN levels
    BY <1>8
  <2>2. \A t \in R : t \notin DOMAIN levels
    BY <1>8 DEF R
  <2> HIDE DEF reader
  <2>3. \A t : Targets(reader, t) = IF t \in DOMAIN levels THEN Targets(levels, t)
                                                       ELSE Targets(others, t)
    BY OverTargets DEF reader
  <2> QED
    BY <1>9, <1>11, <2>1, <2>2, <2>3
<1>13. Len(rows) = 9 /\ DOMAIN rows = 1..9
  OBVIOUS
<1>14. \A i \in 1..9 : /\ Targets(reader, rows[i]) \subseteq {rows[i]} \cup G
                       /\ rows[i] \in Targets(reader, rows[i])
                       /\ rows[i] \notin {"rtUrl.resId", "rtUrl.time"}
                       /\ rows[i] = "description" => i = 8
  BY <1>12 DEF R
<1> HIDE DEF reader
<1>15. Fits(Own(rows), reader, G)
  BY <1>1, <1>13, <1>14, OwnFits
<1>16. url \in Nodes /\ Range(url[2]) = {"rtUrl.resId", "rtUrl.time"}
  <2>1. "url" \in Tags /\ "rtUrl.resId" \in Tags /\ "rtUrl.time" \in Tags
    BY DEF Tags
  <2>2. /\ <<"rtUrl.resId", "rtUrl.time">> \in Seq(Tags)
        /\ Range(<<"rtUrl.resId", "rtUrl.time">>) = {"rtUrl.resId", "rtUrl.time"}
    BY <2>1, Pair
  <2> QED
    BY <2>1, <2>2 DEF Nodes
<1>17. Fits(<< url >>, reader, G)
  <2>1. Fit(url, reader, G)
    BY <1>12, <1>16 DEF Fit
  <2> QED
    BY <1>16, <2>1, Single DEF Fits
<1> HIDE DEF url
<1>18. Fits(row, reader, G)
  BY <1>15, <1>17, ConcatFits
<1>19. /\ DOMAIN row = 1..10 /\ row[10] = url
       /\ \A i \in 1..9 : row[i] = <<rows[i], <<rows[i]>> >>
  <2>1. Own(rows) \in Seq(Nodes) /\ << url >> \in Seq(Nodes)
    BY <1>15, <1>17 DEF Fits
  <2>2. Len(Own(rows)) = 9 /\ \A i \in 1..9 : Own(rows)[i] = <<rows[i], <<rows[i]>> >>
    BY <1>13, <2>1, LenProperties DEF Own
  <2> HIDE DEF row, rows
  <2>3. row = Own(rows) \o << url >>
    BY DEF row
  <2>4. /\ DOMAIN row = 1..Len(Own(rows)) + 1 /\ row[Len(Own(rows)) + 1] = url
        /\ \A i \in 1..Len(Own(rows)) : row[i] = Own(rows)[i]
    BY <1>16, <2>1, <2>3, AppendAt
  <2> QED
    BY <2>2, <2>4
<1> HIDE DEF row, rows
<1>20. Spoilt(row, reader, "description")
  <2>1. rows[8] = "description" /\ rows[6] = "level" /\ rows[9] = "alarmHisRecord"
    BY DEF rows
  <2>2. row[8][2] = <<"description">> /\ row[6][1] = "level" /\ row[9][1] = "alarmHisRecord"
    BY <1>19, <2>1
  <2>3. "description" \in Carried(row)
    <3>1. Range(<<"description">>) = {"description"}
      BY Single
    <3> QED
      BY <1>19, <2>2, <3>1 DEF Carried
  <2>4. \A i \in 1..10 : row[i][2] = <<"description">> => i = 8
    BY <1>14, <1>16, <1>19 DEF url
  <2>5. /\ 6 \in DOMAIN row /\ 6 < 8 /\ "description" \in Targets(reader, row[6][1])
        /\ 9 \in DOMAIN row /\ 9 > 8 /\ "description" \in Targets(reader, row[9][1])
    BY <1>12, <1>19, <2>2
  <2> QED
    BY <1>19, <2>3, <2>4, <2>5 DEF Spoilt
<1>21. ASSUME NEW g \in {"rtUrl.resId", "rtUrl.time"}
       PROVE  Spoilt(row, reader, g)
  <2>1. g \in Carried(row)
    BY <1>16, <1>19 DEF Carried
  <2>2. \A i \in 1..10 : row[i][2] # <<g>>
    BY <1>14, <1>19 DEF url
  <2> QED
    BY <1>19, <2>1, <2>2 DEF Spoilt
<1>22. Legible(row, reader, G)
  BY <1>18, <1>20, <1>21 DEF Legible
<1> HIDE DEF S, names, G
<1> QED
  BY <1>2, <1>3, <1>4, <1>5, <1>6, <1>7, <1>22, OneList, NoneMissing

\* What SetUserCamManage's sender and parser make of its nodes.
LEMMA MadeSetUserCamManage == WellMade("SetUserCamManage")
<1> DEFINE c == "SetUserCamManage"
           S == {"cuId", "cuLevel", "Action", "startTime", "endTime", "schduleCreatTime"}
           names == <<"cuId", "cuLevel", "Action", "startTime", "endTime", "schduleCreatTime">>
           cams  == List("group", "camurl_Num", "camurl_Num", Own(<<"camId">>))
           users == List("whiteUser", "camurl_Num", "idurl_Num", Own(<<"id">>))
           white == [node \in {"whiteUser"} |-> Rows(Uncounted, Same({"id"}))]
           lists == Over(InGroup(Uncounted, Same({"camId"})), white)
<1>1. /\ Sent[c] = Sends(Own(names), << cams, users >>)
      /\ Handlers(c)[c] = Reads(Same(S), lists)
  BY Lookups DEF Send_SetUserCamManage, Parse_SetUserCamManage
<1>2. Sent[c].flat = Own(names) /\ Sent[c].lists = << cams, users >>
  BY <1>1, Parts
<1>3. Handlers(c)[c].flat = Same(S) /\ Handlers(c)[c].lists = lists
  BY <1>1, Parts
<1>4. /\ "group" \in DOMAIN lists /\ lists["group"] = Rows(Uncounted, Same({"camId"}))
      /\ "whiteUser" \in DOMAIN lists /\ lists["whiteUser"] = Rows(Uncounted, Same({"id"}))
      /\ "flat" \notin DOMAIN lists
  BY DEF Over, InGroup
<1> HIDE DEF lists
<1>5. /\ RowOf(c, "flat") = Same(S) /\ CounterOf(c, "flat") = Uncounted
      /\ RowOf(c, "group") = Same({"camId"}) /\ CounterOf(c, "group") = Uncounted
      /\ RowOf(c, "whiteUser") = Same({"id"}) /\ CounterOf(c, "whiteUser") = Uncounted
      /\ \A l \in {"flat", "group", "whiteUser"} : ~ListReader(Handlers(c)[c], l).whole
  BY <1>3, <1>4, Parts DEF RowOf, CounterOf, ListReader
<1>6. /\ S \subseteq Tags /\ {"camId"} \subseteq Tags /\ {"id"} \subseteq Tags
      /\ Uncounted # "urlNum" /\ c \in Uncounting
  BY DEF Tags, Uncounted, Uncounting
<1>7. names \in Seq(S) /\ <<"camId">> \in Seq({"camId"}) /\ <<"id">> \in Seq({"id"})
  OBVIOUS
<1> HIDE DEF S, names
<1>8. /\ Legible(Own(names), Same(S), {}) /\ Legible(Own(<<"camId">>), Same({"camId"}), {})
      /\ Legible(Own(<<"id">>), Same({"id"}), {})
  BY <1>6, <1>7, OwnSame
<1>9. \A t : "urlNum" \notin Targets(Same(S), t)
  BY <1>6, SameTargets, NotATag
<1>10. \A l : Missing(c, l) = {}
  BY NoneMissing
<1>11. /\ Readable(c, "flat", Own(names)) /\ Readable(c, "group", Own(<<"camId">>))
       /\ Readable(c, "whiteUser", Own(<<"id">>))
  BY <1>5, <1>8, <1>10, OneByOne
<1>12. /\ cams.node = "group" /\ cams.row = Own(<<"camId">>)
       /\ users.node = "whiteUser" /\ users.row = Own(<<"id">>)
  BY DEF List
<1>13. cams \in ListFormat /\ users \in ListFormat
  <2>1. Own(<<"camId">>) \in Seq(Nodes) /\ Own(<<"id">>) \in Seq(Nodes)
    BY <1>8 DEF Legible, Fits
  <2> QED
    BY <2>1 DEF List, ListFormat, Lists, Loops
<1> HIDE DEF cams, users
<1>14. WellListed(c, cams) /\ WellListed(c, users)
  BY <1>5, <1>6, <1>10, <1>11, <1>12 DEF WellListed
<1>15. /\ Sent[c].lists \in Seq(ListFormat) /\ DOMAIN Sent[c].lists = {1, 2}
       /\ Sent[c].lists[1] = cams /\ Sent[c].lists[2] = users
  <2>1. \A x, y : DOMAIN << x, y >> = {1, 2} /\ << x, y >>[1] = x /\ << x, y >>[2] = y
    OBVIOUS
  <2>2. << cams, users >> \in Seq(ListFormat)
    BY <1>13, Pair
  <2> QED
    BY <1>2, <2>1, <2>2
<1> QED
  BY <1>2, <1>5, <1>9, <1>10, <1>11, <1>12, <1>14, <1>15 DEF WellMade

\* Every command's formats are well made.
LEMMA Formats == \A c \in DOMAIN Sent : WellMade(c)
BY Domains, MadeMURegister, MadeResReport, MadeResChange, MadeMUKeepAlive,
   MadeReportCamResState,
   MadeUserResReport, MadeUserResChange, MadeAlarmResListReport, MadeAlarmResListChange,
   MadeReportAlarmRes, MadeQueryHistoryFiles, MadeStartMediaReq, MadeStopMediaReq,
   MadeStartPlayBack, MadeControlFileBack, MadeStartHisLoad, MadeReqCamResState,
   MadeGetUserCurState, MadeSetUserCamManage, MadeAlarmResSubscribe, MadeQueryAlarmRes,
   MadeReportAlarmInfo, MadeControlPTZ, MadeResTransOrder, MadeResChangeOrder, MadeINFO,
   MadeHisInfo, MadeHisLoadInfo
   DEF AreaNames, CoreNames

-----------------------------------------------------------------------------
(* The document of a command.                                              *)

SectionFormat == [list : Lists \cup {"flat"}, entries : 0..MaxRows, filled : 0..MaxRows,
                  leaves : Seq(Nodes)]

\* A section is that of one of the command's lists, or of its other nodes.
Matches(c, counts, section) ==
  IF section.list = "flat"
  THEN /\ section.entries = 1 /\ section.filled = 1
       /\ Carried(section.leaves) = Carried(Sent[c].flat)
  ELSE \E i \in DOMAIN Sent[c].lists :
         LET l == Sent[c].lists[i] IN
         /\ l.node = section.list
         /\ section.entries = counts[l.loops] /\ section.filled = counts[l.holds]
         /\ Carried(section.leaves) = Carried(l.row)

\* The leaves of section s, each with the text that is copied for it.
Read(c, d, s) == Seen(c, d[s].list, d[s].leaves)

\* In document order there is one section for each, and it can be read.
Describes(c, counts, d) ==
  /\ d \in Seq(SectionFormat)
  /\ \A s \in DOMAIN d : /\ Matches(c, counts, d[s])
                         /\ Legible(Read(c, d, s), RowOf(c, d[s].list), Missing(c, d[s].list))
                         /\ Carried(Read(c, d, s)) = Carried(d[s].leaves)
  /\ \A s, t \in DOMAIN d : d[s].list = d[t].list => s = t
  /\ \E s \in DOMAIN d : d[s].list = "flat"
  /\ \A i \in DOMAIN Sent[c].lists : \E s \in DOMAIN d : d[s].list = Sent[c].lists[i].node

\* The elements of p, and x, each at one place of d.
Comprises(d, x, p) ==
  /\ \E s \in DOMAIN d : d[s] = x
  /\ \A i \in DOMAIN p : \E s \in DOMAIN d : d[s] = p[i]
  /\ \A s \in DOMAIN d : d[s] = x \/ \E i \in DOMAIN p : d[s] = p[i]
  /\ \A s, t \in DOMAIN d : s # t =>
       \/ \E i \in DOMAIN p : \/ d[s] = x /\ d[t] = p[i]
                              \/ d[t] = x /\ d[s] = p[i]
       \/ \E i, j \in DOMAIN p : i # j /\ d[s] = p[i] /\ d[t] = p[j]

\* One section before or after the others.
LEMMA OneMore ==
  ASSUME NEW S, NEW x \in S, NEW p \in Seq(S), NEW d, d = << x >> \o p \/ d = p \o << x >>
  PROVE  d \in Seq(S) /\ Comprises(d, x, p)
<1> DEFINE n == Len(p)
<1>1. n \in Nat /\ DOMAIN p = 1..n
  BY LenProperties
<1>2. << x >> \in Seq(S) /\ Len(<< x >>) = 1 /\ << x >>[1] = x
  BY Single
<1>3. d \in Seq(S) /\ DOMAIN d = 1..n + 1
  <2>1. d \in Seq(S)
    BY <1>2, ConcatProperties
  <2>2. Len(d) = n + 1
    BY <1>1, <1>2, ConcatProperties
  <2> QED
    BY <2>1, <2>2, LenProperties
<1>4. CASE d = << x >> \o p
  <2>1. d[1] = x /\ \A s \in 2..n + 1 : s - 1 \in 1..n /\ d[s] = p[s - 1]
    BY <1>1, <1>2, <1>4, ConcatProperties
  <2> HIDE DEF n
  <2>2. \A i \in 1..n : i + 1 \in 1..n + 1 /\ d[i + 1] = p[i]
    BY <1>1, <2>1
  <2>3. 1 \in 1..n + 1 /\ \A s \in 1..n + 1 : s = 1 \/ s \in 2..n + 1
    BY <1>1
  <2>4. \A s, t \in 2..n + 1 : s # t => s - 1 # t - 1
    BY <1>1
  <2>5. \A s \in 2..n + 1 : \E i \in DOMAIN p : d[s] = p[i]
    BY <1>1, <2>1
  <2>6. \A s, t \in 2..n + 1 : s # t =>
          \E i, j \in DOMAIN p : i # j /\ d[s] = p[i] /\ d[t] = p[j]
    BY <1>1, <2>1, <2>4
  <2>7. \A s, t \in 1..n + 1 : s # t => s \in 2..n + 1 \/ t \in 2..n + 1
    BY <2>3
  <2>8. \A s, t \in 1..n + 1 : s # t =>
          \/ \E i \in DOMAIN p : \/ d[s] = x /\ d[t] = p[i]
                                 \/ d[t] = x /\ d[s] = p[i]
          \/ \E i, j \in DOMAIN p : i # j /\ d[s] = p[i] /\ d[t] = p[j]
    BY <2>1, <2>3, <2>5, <2>6, <2>7, Zenon
  <2>9. /\ \E s \in DOMAIN d : d[s] = x
        /\ \A i \in DOMAIN p : \E s \in DOMAIN d : d[s] = p[i]
    BY <1>1, <1>3, <2>1, <2>2, <2>3
  <2>10. \A s \in DOMAIN d : d[s] = x \/ \E i \in DOMAIN p : d[s] = p[i]
    BY <1>3, <2>1, <2>3, <2>5
  <2> QED
    BY <1>3, <2>8, <2>9, <2>10 DEF Comprises
<1>5. CASE d = p \o << x >>
  <2>1. d[n + 1] = x /\ \A s \in 1..n : d[s] = p[s]
    BY <1>1, <1>5, AppendAt
  <2> HIDE DEF n
  <2>2. /\ n + 1 \in 1..n + 1 /\ \A s \in 1..n + 1 : s = n + 1 \/ s \in 1..n
        /\ \A s \in 1..n : s \in 1..n + 1
    BY <1>1
  <2> QED
    BY <1>1, <1>3, <2>1, <2>2 DEF Comprises
<1> QED
  BY <1>4, <1>5

\* The document a sender builds describes its formats.
LEMMA DocumentDescribes ==
  ASSUME NEW c \in DOMAIN Sent, NEW counts \in Counts(Sent[c]), NEW order
  PROVE  Describes(c, counts, Document(Sent[c], counts, order))
<1> DEFINE send == Sent[c]
           F == Section("flat", 1, 1, send.flat, order)
           L(l) == Section(l.node, counts[l.loops], counts[l.holds], l.row, order)
           lists == [i \in DOMAIN send.lists |-> L(send.lists[i])]
           d == Document(send, counts, order)
<1>1. WellMade(c)
  BY Formats
<1>2. \A i \in DOMAIN send.lists :
        LET l == send.lists[i] IN
        /\ l \in ListFormat /\ l.node \in Lists /\ l.node # "flat"
        /\ counts[l.loops] \in 0..MaxRows /\ counts[l.holds] \in 0..MaxRows
  <2>1. send.lists \in Seq(ListFormat)
    BY <1>1 DEF WellMade
  <2>2. \A l \in ListFormat : l.node \in Lists /\ l.node # "flat"
    BY DEF ListFormat, Lists
  <2>3. counts \in [Counters(send) -> 0..MaxRows]
    BY DEF Counts
  <2>4. \A i \in DOMAIN send.lists : /\ send.lists[i].loops \in Counters(send)
                                     /\ send.lists[i].holds \in Counters(send)
    BY DEF Counters
  <2> QED
    BY <2>1, <2>2, <2>3, <2>4, ElementOfSeq
<1>3. \A list, pairs : Readable(c, list, pairs) =>
        LET leaves == Ordered(pairs, order) IN
        /\ leaves \in Seq(Nodes) /\ Carried(leaves) = Carried(pairs)
        /\ Legible(Seen(c, list, leaves), RowOf(c, list), Missing(c, list))
        /\ Carried(Seen(c, list, leaves)) = Carried(leaves)
  BY OrderedNodes DEF Readable
<1>4. /\ F.list = "flat" /\ F \in SectionFormat /\ Matches(c, counts, F)
      /\ Legible(Seen(c, "flat", F.leaves), RowOf(c, "flat"), Missing(c, "flat"))
      /\ Carried(Seen(c, "flat", F.leaves)) = Carried(F.leaves)
  <2>1. Readable(c, "flat", send.flat)
    BY <1>1 DEF WellMade
  <2>2. 1 \in 0..MaxRows
    BY MaxRowsAssumption
  <2>3. /\ F.list = "flat" /\ F.entries = 1 /\ F.filled = 1
        /\ F.leaves = Ordered(send.flat, order)
    BY DEF Section
  <2>4. F \in SectionFormat
    BY <1>3, <2>1, <2>2 DEF Section, SectionFormat
  <2> HIDE DEF F
  <2> QED
    BY <1>3, <2>1, <2>3, <2>4 DEF Matches
<1>5. \A i \in DOMAIN send.lists :
        /\ L(send.lists[i]).list = send.lists[i].node /\ L(send.lists[i]) \in SectionFormat
        /\ Matches(c, counts, L(send.lists[i]))
        /\ LET node == send.lists[i].node  leaves == L(send.lists[i]).leaves IN
           /\ Legible(Seen(c, node, leaves), RowOf(c, node), Missing(c, node))
           /\ Carried(Seen(c, node, leaves)) = Carried(leaves)
  <2> SUFFICES ASSUME NEW i \in DOMAIN send.lists
               PROVE  LET l == send.lists[i] IN
                      /\ L(l).list = l.node /\ L(l) \in SectionFormat
                      /\ Matches(c, counts, L(l))
                      /\ Legible(Seen(c, l.node, L(l).leaves), RowOf(c, l.node),
                                 Missing(c, l.node))
                      /\ Carried(Seen(c, l.node, L(l).leaves)) = Carried(L(l).leaves)
    OBVIOUS
  <2> DEFINE l == send.lists[i]
  <2>1. Readable(c, l.node, l.row)
    BY <1>1 DEF WellMade, WellListed
  <2>2. /\ L(l).list = l.node /\ L(l).entries = counts[l.loops]
        /\ L(l).filled = counts[l.holds]
        /\ L(l).leaves = Ordered(l.row, order)
    BY DEF Section
  <2>3. L(l) \in SectionFormat
    BY <1>2, <1>3, <2>1 DEF Section, SectionFormat
  <2> HIDE DEF L
  <2>4. Matches(c, counts, L(l))
    BY <1>2, <1>3, <2>1, <2>2 DEF Matches
  <2> QED
    BY <1>3, <2>1, <2>2, <2>3, <2>4
<1> HIDE DEF L, F
<1>6. /\ lists \in Seq(SectionFormat) /\ DOMAIN lists = DOMAIN send.lists
      /\ \A i \in DOMAIN send.lists : lists[i] = L(send.lists[i])
  <2>1. send.lists \in Seq(ListFormat)
    BY <1>1 DEF WellMade
  <2>2. DOMAIN send.lists = 1..Len(send.lists) /\ Len(send.lists) \in Nat
    BY <2>1, LenProperties
  <2>3. lists \in [1..Len(send.lists) -> SectionFormat]
    BY <1>5, <2>2
  <2> QED
    BY <2>2, <2>3, SeqDef
<1>7. d = << F >> \o lists \/ d = lists \o << F >>
  BY DEF Document, F, L
<1> HIDE DEF d, lists
<1>8. /\ d \in Seq(SectionFormat)
      /\ Comprises(d, F, lists)
  <2>1. F \in SectionFormat /\ lists \in Seq(SectionFormat)
    BY <1>4, <1>6
  <2> QED
    BY <1>7, <2>1, OneMore
<1>9. \A s \in DOMAIN d : /\ Matches(c, counts, d[s])
                          /\ Legible(Read(c, d, s), RowOf(c, d[s].list), Missing(c, d[s].list))
                          /\ Carried(Read(c, d, s)) = Carried(d[s].leaves)
  BY <1>4, <1>5, <1>6, <1>8 DEF Comprises, Read
<1>10. \A i, j \in DOMAIN lists : i # j => lists[i].list # lists[j].list
  BY <1>1, <1>5, <1>6 DEF WellMade
<1>11. \A i \in DOMAIN lists : lists[i].list # F.list
  BY <1>2, <1>4, <1>5, <1>6
<1>12. \A s, t \in DOMAIN d : d[s].list = d[t].list => s = t
  BY <1>8, <1>10, <1>11 DEF Comprises
<1>13. \A i \in DOMAIN send.lists : \E s \in DOMAIN d : d[s].list = send.lists[i].node
  <2>1. \A i \in DOMAIN send.lists : lists[i].list = send.lists[i].node
    BY <1>5, <1>6
  <2>2. \A i \in DOMAIN send.lists : \E s \in DOMAIN d : d[s] = lists[i]
    BY <1>6, <1>8 DEF Comprises
  <2> QED
    BY <2>1, <2>2
<1> QED
  BY <1>4, <1>8, <1>9, <1>12, <1>13 DEF Describes, Comprises, d

-----------------------------------------------------------------------------
(* The invariant of a parser at pointers p in document d of command c, with *)
(* index x and struct o.                                                    *)

\* How many leaves of entry e of section s it has copied, and how many entries
\* of section s it has left behind.
Past(d, p, s, e) ==
  IF s < p.section \/ (s = p.section /\ e < p.entry) THEN Len(d[s].leaves)
  ELSE IF s = p.section /\ e = p.entry THEN p.leaf - 1 ELSE 0
Passed(d, p, s) ==
  IF s < p.section THEN d[s].entries ELSE IF s = p.section THEN p.entry - 1 ELSE 0

\* The fields leaf i of section s is copied to; one of them, in entry e.
Touched(c, d, s, i) == Targets(RowOf(c, d[s].list), Read(c, d, s)[i][1])
Field(d, s, e, g) == <<d[s].list, Row(d[s].list, e), g>>
Number == <<"flat", 0, "urlNum">>

\* Of the first n leaves, the last that is copied to field g is the field's text.
Fresh(c, d, o, s, e, n, g) ==
  \E j \in 1..n :
    /\ g \in Touched(c, d, s, j) /\ \A m \in j + 1..n : g \notin Touched(c, d, s, m)
    /\ Field(d, s, e, g) \in DOMAIN o
    /\ o[Field(d, s, e, g)] = Text(d[s], e, Read(c, d, s)[j][2])

Pointing(d, p) ==
  /\ p \in [section : Nat, entry : Nat, leaf : Nat] /\ p.section \in 1..Len(d) + 1
  /\ p.section <= Len(d) =>
       /\ p.entry \in 1..d[p.section].entries + 1
       /\ p.leaf \in 1..Len(d[p.section].leaves) + 1
       /\ p.entry > d[p.section].entries => p.leaf = 1

Indexed(d, p, x) ==
  /\ DOMAIN x = {d[s].list : s \in DOMAIN d} \ {"flat"}
  /\ \A s \in DOMAIN d : d[s].list # "flat" => x[d[s].list] = Passed(d, p, s)

\* Every field copied to is up to date, nothing else is written, and the
\* counter is the number of the group's entries once they are all read.
Copied(c, d, p, o) ==
  \A s \in DOMAIN d : \A e \in 1..d[s].entries : \A i \in 1..Past(d, p, s, e) :
    \A g \in Touched(c, d, s, i) : Fresh(c, d, o, s, e, Past(d, p, s, e), g)
Only(c, d, p, o) ==
  \A f \in DOMAIN o :
    \/ f = Number
    \/ \E s \in DOMAIN d : \E e \in 1..d[s].entries : \E i \in 1..Past(d, p, s, e) :
         \E g \in Touched(c, d, s, i) : f = Field(d, s, e, g)
Told(c, d, p, o) ==
  \A s \in DOMAIN d : s < p.section /\ CounterOf(c, d[s].list) = "urlNum" =>
    Number \in DOMAIN o /\ o[Number] = <<d[s].entries>>

Sending(c, n, d) == c \in DOMAIN Sent /\ n \in Counts(Sent[c]) /\ Describes(c, n, d)
Reading(c, d, p, x, o) ==
  /\ Pointing(d, p) /\ Indexed(d, p, x)
  /\ Copied(c, d, p, o) /\ Only(c, d, p, o) /\ Told(c, d, p, o)

IInv ==
  /\ phase \in {"idle", "parsing", "called"}
  /\ phase = "idle" => cmd = "none" /\ DOMAIN index = {} /\ DOMAIN out = {}
  /\ phase # "idle" => Sending(cmd, args, doc) /\ Reading(cmd, doc, at, index, out)
  /\ phase = "called" => at.section > Len(doc)

\* The sections of a document: their bounds and their leaves.
LEMMA SectionFacts ==
  ASSUME NEW c, NEW n, NEW d, Sending(c, n, d)
  PROVE  /\ Len(d) \in Nat /\ DOMAIN d = 1..Len(d)
         /\ \A s \in DOMAIN d :
              /\ d[s].list \in Lists \cup {"flat"} /\ d[s].entries \in 0..MaxRows
              /\ Len(d[s].leaves) \in Nat /\ DOMAIN d[s].leaves = 1..Len(d[s].leaves)
              /\ DOMAIN Read(c, d, s) = DOMAIN d[s].leaves /\ Read(c, d, s) \in Seq(Nodes)
              /\ d[s].leaves \in Seq(Nodes) /\ d[s].filled \in 0..MaxRows
              /\ d[s].list = "flat" => d[s].entries = 1
<1>1. d \in Seq(SectionFormat)
  BY DEF Sending, Describes
<1>2. \A s \in DOMAIN d : d[s] \in SectionFormat
  BY <1>1, ElementOfSeq
<1>3. \A s \in DOMAIN d : d[s].list = "flat" => d[s].entries = 1
  BY DEF Sending, Describes, Matches
<1>4. \A x \in SectionFormat :
        /\ x.list \in Lists \cup {"flat"} /\ x.entries \in 0..MaxRows
        /\ x.filled \in 0..MaxRows
        /\ x.leaves \in Seq(Nodes) /\ Len(x.leaves) \in Nat
        /\ DOMAIN x.leaves = 1..Len(x.leaves)
  BY LenProperties DEF SectionFormat
<1>5. \A s \in DOMAIN d : DOMAIN Read(c, d, s) = DOMAIN d[s].leaves /\ Read(c, d, s) \in Seq(Nodes)
  BY DEF Sending, Describes, Legible, Fits, Read, Seen, Taken
<1> QED
  BY <1>1, <1>2, <1>3, <1>4, <1>5, LenProperties

\* The fields of a document are all different, and not the counter.
LEMMA FieldsDiffer ==
  ASSUME NEW c, NEW n, NEW d, Sending(c, n, d)
  PROVE  /\ \A s, t \in DOMAIN d : \A e \in 1..d[s].entries, h \in 1..d[t].entries : \A g, k :
              Field(d, s, e, g) = Field(d, t, h, k) => s = t /\ e = h /\ g = k
         /\ \A s \in DOMAIN d : \A i, e : \A g \in Touched(c, d, s, i) :
              Field(d, s, e, g) # Number
<1>1. /\ \A s, t \in DOMAIN d : d[s].list = d[t].list => s = t
      /\ \A s \in DOMAIN d : d[s].list = "flat" => d[s].entries = 1
  BY SectionFacts DEF Sending, Describes
<1>2. ASSUME NEW s \in DOMAIN d, NEW t \in DOMAIN d, NEW e \in 1..d[s].entries,
             NEW h \in 1..d[t].entries, NEW g, NEW k, Field(d, s, e, g) = Field(d, t, h, k)
      PROVE  s = t /\ e = h /\ g = k
  <2>1. d[s].list = d[t].list /\ Row(d[s].list, e) = Row(d[t].list, h) /\ g = k
    BY <1>2 DEF Field
  <2>2. s = t
    BY <1>1, <2>1
  <2>3. CASE d[s].list = "flat"
    <3>1. d[s].entries = 1 /\ d[t].entries = 1
      BY <1>1, <2>2, <2>3
    <3>2. e = 1 /\ h = 1
      BY <3>1
    <3> QED
      BY <2>1, <2>2, <3>2
  <2>4. CASE d[s].list # "flat"
    BY <2>1, <2>2, <2>4 DEF Row
  <2> QED
    BY <2>1, <2>2, <2>3, <2>4
<1>3. ASSUME NEW s \in DOMAIN d, NEW i, NEW e, NEW g \in Touched(c, d, s, i)
      PROVE  Field(d, s, e, g) # Number
  <2>1. CASE d[s].list = "flat"
    <3>1. \A t : "urlNum" \notin Targets(RowOf(c, "flat"), t)
      BY Formats DEF Sending, WellMade
    <3>2. g # "urlNum"
      BY <2>1, <3>1 DEF Touched
    <3> QED
      BY <3>2 DEF Field, Number
  <2>2. CASE d[s].list # "flat"
    BY <2>2 DEF Field, Number
  <2> QED
    BY <2>1, <2>2
<1> QED
  BY <1>2, <1>3

\* Moving the pointers over no leaf, and writing no field but the counter.
LEMMA MoveKeeps ==
  ASSUME NEW c, NEW n, NEW d, Sending(c, n, d), NEW p, NEW q, NEW o, NEW o2,
         \A s \in DOMAIN d : \A e \in 1..d[s].entries : Past(d, q, s, e) = Past(d, p, s, e),
         \A f \in DOMAIN o \ {Number} : f \in DOMAIN o2 /\ o2[f] = o[f],
         DOMAIN o2 \subseteq DOMAIN o \cup {Number},
         Copied(c, d, p, o), Only(c, d, p, o)
  PROVE  Copied(c, d, q, o2) /\ Only(c, d, q, o2)
<1>1. ASSUME NEW s \in DOMAIN d, NEW e \in 1..d[s].entries, NEW i \in 1..Past(d, q, s, e),
             NEW g \in Touched(c, d, s, i)
      PROVE  Fresh(c, d, o2, s, e, Past(d, q, s, e), g)
  <2>1. Past(d, q, s, e) = Past(d, p, s, e)
    OBVIOUS
  <2>2. Fresh(c, d, o, s, e, Past(d, q, s, e), g)
    BY <2>1 DEF Copied
  <2>3. Field(d, s, e, g) # Number
    BY FieldsDiffer
  <2> QED
    BY <2>2, <2>3 DEF Fresh
<1>2. Only(c, d, q, o2)
  BY DEF Only
<1> QED
  BY <1>1, <1>2 DEF Copied

\* Copying leaf l of entry e of section z: what it does to what lies behind the
\* pointers, and to the struct.
Forward(d, p, q, z, e, l) ==
  /\ Past(d, p, z, e) = l - 1 /\ Past(d, q, z, e) = l /\ q.section = p.section
  /\ \A s \in DOMAIN d : \A h \in 1..d[s].entries :
       (s # z \/ h # e) => Past(d, q, s, h) = Past(d, p, s, h)
Writes(c, d, o, o2, z, e, l) ==
  LET W == {Field(d, z, e, g) : g \in Touched(c, d, z, l)} IN
  /\ DOMAIN o2 = DOMAIN o \cup W
  /\ \A f \in W : o2[f] = Text(d[z], e, Read(c, d, z)[l][2])
  /\ \A f \in DOMAIN o : f \notin W => o2[f] = o[f]

\* The fields stay up to date.
LEMMA LeafKeeps ==
  ASSUME NEW c, NEW n, NEW d, Sending(c, n, d), NEW p, NEW q, NEW o, NEW o2,
         NEW z \in DOMAIN d, NEW e \in 1..d[z].entries, NEW l \in Nat \ {0},
         Forward(d, p, q, z, e, l), Writes(c, d, o, o2, z, e, l),
         Copied(c, d, p, o), Only(c, d, p, o), Told(c, d, p, o)
  PROVE  Copied(c, d, q, o2) /\ Only(c, d, q, o2) /\ Told(c, d, q, o2)
<1> USE DEF Forward, Writes
<1> DEFINE W == {Field(d, z, e, g) : g \in Touched(c, d, z, l)}
<1>1. ASSUME NEW s \in DOMAIN d, NEW h \in 1..d[s].entries, NEW i \in 1..Past(d, q, s, h),
             NEW g \in Touched(c, d, s, i), s # z \/ h # e
      PROVE  Fresh(c, d, o2, s, h, Past(d, q, s, h), g)
  <2>1. Past(d, q, s, h) = Past(d, p, s, h)
    BY <1>1
  <2>2. Fresh(c, d, o, s, h, Past(d, q, s, h), g)
    BY <2>1 DEF Copied
  <2>3. Field(d, s, h, g) \notin W
    BY <1>1, FieldsDiffer
  <2> QED
    BY <2>2, <2>3 DEF Fresh
<1>2. ASSUME NEW g \in Touched(c, d, z, l)
      PROVE  Fresh(c, d, o2, z, e, l, g)
  <2>1. l \in 1..l /\ \A m \in l + 1..l : FALSE
    OBVIOUS
  <2> QED
    BY <2>1 DEF Fresh
<1>3. ASSUME NEW i \in 1..l, NEW g \in Touched(c, d, z, i), g \notin Touched(c, d, z, l)
      PROVE  Fresh(c, d, o2, z, e, l, g)
  <2>1. i \in 1..l - 1
    BY <1>3
  <2>2. Fresh(c, d, o, z, e, l - 1, g)
    BY <2>1 DEF Copied
  <2>3. Field(d, z, e, g) \notin W
    BY <1>3, FieldsDiffer
  <2>4. \A j \in 1..l - 1 : j \in 1..l /\ \A m \in j + 1..l : m \in j + 1..l - 1 \/ m = l
    OBVIOUS
  <2> QED
    BY <1>3, <2>2, <2>3, <2>4 DEF Fresh
<1>4. Copied(c, d, q, o2)
  <2> SUFFICES ASSUME NEW s \in DOMAIN d, NEW h \in 1..d[s].entries,
                      NEW i \in 1..Past(d, q, s, h), NEW g \in Touched(c, d, s, i)
               PROVE  Fresh(c, d, o2, s, h, Past(d, q, s, h), g)
    BY DEF Copied
  <2>1. CASE s = z /\ h = e
    BY <1>2, <1>3, <2>1
  <2> QED
    BY <1>1, <2>1
<1>5. Only(c, d, q, o2)
  <2>1. ASSUME NEW f \in W
        PROVE  \E i \in 1..Past(d, q, z, e) : \E g \in Touched(c, d, z, i) :
                 f = Field(d, z, e, g)
    <3>1. l \in 1..l
      OBVIOUS
    <3> QED
      BY <3>1
  <2>2. \A s \in DOMAIN d : \A h \in 1..d[s].entries : \A i \in 1..Past(d, p, s, h) :
          i \in 1..Past(d, q, s, h)
    <3>1. \A i \in 1..l - 1 : i \in 1..l
      OBVIOUS
    <3> QED
      BY <3>1
  <2>3. \A f \in DOMAIN o : \/ f = Number
          \/ \E s \in DOMAIN d : \E h \in 1..d[s].entries : \E i \in 1..Past(d, q, s, h) :
               \E g \in Touched(c, d, s, i) : f = Field(d, s, h, g)
    BY <2>2 DEF Only
  <2> QED
    BY <2>1, <2>3 DEF Only
<1>6. Told(c, d, q, o2)
  <2>1. Number \notin W
    BY FieldsDiffer
  <2> QED
    BY <2>1 DEF Told
<1> QED
  BY <1>4, <1>5, <1>6

-----------------------------------------------------------------------------
(* The steps of the parser.                                                 *)

\* The leaf pointer moves on: what lies behind the pointers.
LEMMA LeafMoves ==
  ASSUME NEW c, NEW n, NEW d, Sending(c, n, d), NEW p, Pointing(d, p),
         NEW z \in DOMAIN d, z = p.section, p.entry <= d[z].entries,
         p.leaf <= Len(d[z].leaves),
         NEW q, q = [p EXCEPT !.leaf = @ + 1]
  PROVE  /\ Pointing(d, q) /\ q.section = p.section
         /\ Past(d, p, z, p.entry) = p.leaf - 1 /\ Past(d, q, z, p.entry) = p.leaf
         /\ \A s \in DOMAIN d : \A h \in 1..d[s].entries :
              (s # z \/ h # p.entry) => Past(d, q, s, h) = Past(d, p, s, h)
         /\ \A s \in DOMAIN d : Passed(d, q, s) = Passed(d, p, s)
<1>1. /\ Len(d) \in Nat /\ DOMAIN d = 1..Len(d)
      /\ \A s \in DOMAIN d : d[s].entries \in Nat /\ Len(d[s].leaves) \in Nat
  BY SectionFacts
<1>2. /\ p \in [section : Nat, entry : Nat, leaf : Nat] /\ p.section \in Nat
      /\ p.entry \in 1..d[z].entries + 1 /\ p.leaf \in 1..Len(d[z].leaves) + 1
      /\ p.entry > d[z].entries => p.leaf = 1
  BY <1>1 DEF Pointing
<1>3. /\ q \in [section : Nat, entry : Nat, leaf : Nat]
      /\ q.section = p.section /\ q.entry = p.entry /\ q.leaf = p.leaf + 1
  BY <1>2
<1>4. Pointing(d, q)
  BY <1>1, <1>2, <1>3 DEF Pointing
<1>5. Past(d, p, z, p.entry) = p.leaf - 1 /\ Past(d, q, z, p.entry) = p.leaf
  BY <1>2, <1>3 DEF Past
<1>6. \A s \in DOMAIN d : \A h \in 1..d[s].entries :
                 (s # z \/ h # p.entry) => Past(d, q, s, h) = Past(d, p, s, h)
  BY <1>3 DEF Past
<1>7. \A s \in DOMAIN d : Passed(d, q, s) = Passed(d, p, s)
  BY <1>3 DEF Passed
<1> QED
  BY <1>3, <1>4, <1>5, <1>6, <1>7

\* The entry pointer moves on, past an entry whose leaves are all copied.
PastEntry(p) == [p EXCEPT !.entry = @ + 1, !.leaf = 1]

\* Nothing more or less lies behind it than before.
LEMMA EntryMoves ==
  ASSUME NEW c, NEW n, NEW d, Sending(c, n, d), NEW p, Pointing(d, p),
         NEW z \in DOMAIN d, z = p.section, p.entry <= d[z].entries, p.leaf > Len(d[z].leaves),
         NEW q, q = PastEntry(p)
  PROVE  /\ Pointing(d, q) /\ q.section = p.section
         /\ \A s \in DOMAIN d : \A h \in 1..d[s].entries : Past(d, q, s, h) = Past(d, p, s, h)
         /\ \A s \in DOMAIN d :
              Passed(d, q, s) = IF s = z THEN Passed(d, p, s) + 1 ELSE Passed(d, p, s)
<1>1. /\ Len(d) \in Nat /\ DOMAIN d = 1..Len(d)
      /\ \A s \in DOMAIN d : d[s].entries \in Nat /\ Len(d[s].leaves) \in Nat
  BY SectionFacts
<1>2. /\ p \in [section : Nat, entry : Nat, leaf : Nat] /\ p.section \in Nat
      /\ p.entry \in 1..d[z].entries + 1 /\ p.leaf \in 1..Len(d[z].leaves) + 1
      /\ p.entry > d[z].entries => p.leaf = 1
  BY <1>1 DEF Pointing
<1>3. /\ q \in [section : Nat, entry : Nat, leaf : Nat]
      /\ q.section = p.section /\ q.entry = p.entry + 1 /\ q.leaf = 1
  <2>1. p.entry + 1 \in Nat /\ 1 \in Nat
    BY <1>2
  <2>2. \A x, y \in Nat : LET r == [p EXCEPT !.entry = x, !.leaf = y] IN
          /\ r \in [section : Nat, entry : Nat, leaf : Nat]
          /\ r.section = p.section /\ r.entry = x /\ r.leaf = y
    BY <1>2
  <2> QED
    BY <2>1, <2>2 DEF PastEntry
<1>4. Pointing(d, q)
  BY <1>1, <1>2, <1>3 DEF Pointing
<1>5. p.leaf = Len(d[z].leaves) + 1
  BY <1>1, <1>2
<1>6. ASSUME NEW s \in DOMAIN d, NEW h \in 1..d[s].entries
      PROVE  Past(d, q, s, h) = Past(d, p, s, h)
  <2>1. s \in Nat /\ h \in Nat /\ Len(d[s].leaves) \in Nat
    BY <1>1
  <2>2. CASE s = z
    BY <1>2, <1>3, <1>5, <2>1, <2>2 DEF Past
  <2>3. CASE s # z
    BY <1>3, <2>3 DEF Past
  <2> QED
    BY <2>2, <2>3
<1>7. \A s \in DOMAIN d : Passed(d, q, s) = IF s = z THEN Passed(d, p, s) + 1
                                                     ELSE Passed(d, p, s)
  BY <1>1, <1>2, <1>3 DEF Passed
<1> QED
  BY <1>3, <1>4, <1>6, <1>7

\* The section pointer moves on, past a list whose entries are all left behind.
LEMMA SectionMoves ==
  ASSUME NEW c, NEW n, NEW d, Sending(c, n, d), NEW p, Pointing(d, p),
         NEW z \in DOMAIN d, z = p.section, p.entry > d[z].entries,
         NEW q, q = [Start EXCEPT !.section = p.section + 1]
  PROVE  /\ Pointing(d, q) /\ q.section = p.section + 1
         /\ \A s \in DOMAIN d : \A h \in 1..d[s].entries : Past(d, q, s, h) = Past(d, p, s, h)
         /\ \A s \in DOMAIN d : Passed(d, q, s) = Passed(d, p, s)
         /\ Passed(d, p, z) = d[z].entries
<1>1. /\ Len(d) \in Nat /\ DOMAIN d = 1..Len(d)
      /\ \A s \in DOMAIN d : d[s].entries \in Nat /\ Len(d[s].leaves) \in Nat
  BY SectionFacts
<1>2. /\ p \in [section : Nat, entry : Nat, leaf : Nat] /\ p.section \in Nat
      /\ p.entry \in 1..d[z].entries + 1 /\ p.leaf \in 1..Len(d[z].leaves) + 1
      /\ p.entry > d[z].entries => p.leaf = 1
  BY <1>1 DEF Pointing
<1>3. /\ q \in [section : Nat, entry : Nat, leaf : Nat]
      /\ q.section = p.section + 1 /\ q.entry = 1 /\ q.leaf = 1
  BY <1>2 DEF Start
<1>4. p.entry = d[z].entries + 1 /\ p.leaf = 1
  <2>1. p.leaf = 1
    BY <1>2
  <2>2. \A k \in Nat : \A i \in 1..k + 1 : i > k => i = k + 1
    OBVIOUS
  <2>3. d[z].entries \in Nat
    BY <1>1
  <2> QED
    BY <1>2, <2>1, <2>2, <2>3
<1>5. Pointing(d, q)
  <2>1. z \in 1..Len(d)
    BY <1>1
  <2>2. q.section \in 1..Len(d) + 1
    BY <1>1, <1>3, <2>1
  <2>3. ASSUME q.section <= Len(d)
        PROVE  /\ q.entry \in 1..d[q.section].entries + 1
               /\ q.leaf \in 1..Len(d[q.section].leaves) + 1
    BY <1>1, <1>3, <2>2, <2>3
  <2> QED
    BY <1>3, <2>2, <2>3 DEF Pointing
<1>6. ASSUME NEW s \in DOMAIN d, NEW h \in 1..d[s].entries
      PROVE  Past(d, q, s, h) = Past(d, p, s, h)
  <2>1. s \in Nat /\ h \in Nat /\ Len(d[s].leaves) \in Nat /\ d[s].entries \in Nat
    BY <1>1
  <2>2. CASE s < z
    BY <1>2, <1>3, <2>1, <2>2 DEF Past
  <2>3. CASE s = z
    BY <1>2, <1>3, <1>4, <2>1, <2>3 DEF Past
  <2>4. CASE s > z
    BY <1>2, <1>3, <2>1, <2>4 DEF Past
  <2> QED
    BY <1>2, <2>1, <2>2, <2>3, <2>4
<1>7. ASSUME NEW s \in DOMAIN d
      PROVE  Passed(d, q, s) = Passed(d, p, s)
  BY <1>1, <1>2, <1>3, <1>4 DEF Passed
<1>8. Passed(d, p, z) = d[z].entries
  BY <1>1, <1>2, <1>4 DEF Passed
<1> QED
  BY <1>3, <1>5, <1>6, <1>7, <1>8

\* A parser's pointers, index and struct before it has read anything.
LEMMA StartReads ==
  ASSUME NEW c, NEW n, NEW d, Sending(c, n, d), NEW x, NEW o, DOMAIN o = {},
         DOMAIN x = {Sent[c].lists[i].node : i \in DOMAIN Sent[c].lists},
         \A l \in DOMAIN x : x[l] = 0
  PROVE  Reading(c, d, Start, x, o)
<1>1. /\ Len(d) \in Nat /\ DOMAIN d = 1..Len(d)
      /\ \A s \in DOMAIN d : d[s].entries \in Nat /\ Len(d[s].leaves) \in Nat
  BY SectionFacts
<1>2. /\ Start \in [section : Nat, entry : Nat, leaf : Nat]
      /\ Start.section = 1 /\ Start.entry = 1 /\ Start.leaf = 1
  BY DEF Start
<1>3. Pointing(d, Start)
  BY <1>1, <1>2 DEF Pointing
<1>4. \A s \in DOMAIN d : Passed(d, Start, s) = 0 /\ ~(s < Start.section)
  BY <1>1, <1>2 DEF Passed
<1>5. \A s \in DOMAIN d : \A e \in 1..d[s].entries : Past(d, Start, s, e) = 0
  BY <1>1, <1>2 DEF Past
<1>6. DOMAIN x = {d[s].list : s \in DOMAIN d} \ {"flat"}
  <2>1. \A i \in DOMAIN Sent[c].lists : Sent[c].lists[i].node # "flat"
    <3>1. Sent[c].lists \in Seq(ListFormat)
      BY Formats DEF Sending, WellMade
    <3>2. \A l \in ListFormat : l.node # "flat"
      BY DEF ListFormat, Lists
    <3> QED
      BY <3>1, <3>2, ElementOfSeq
  <2>2. \A i \in DOMAIN Sent[c].lists : \E s \in DOMAIN d : d[s].list = Sent[c].lists[i].node
    BY DEF Sending, Describes
  <2>3. \A s \in DOMAIN d : d[s].list # "flat" =>
          \E i \in DOMAIN Sent[c].lists : Sent[c].lists[i].node = d[s].list
    BY DEF Sending, Describes, Matches
  <2> QED
    BY <2>1, <2>2, <2>3
<1>7. Indexed(d, Start, x)
  BY <1>4, <1>6 DEF Indexed
<1>8. Copied(c, d, Start, o) /\ Only(c, d, Start, o)
  <2>1. \A i \in 1..0 : FALSE
    OBVIOUS
  <2> QED
    BY <1>5, <2>1 DEF Copied, Only
<1>9. Told(c, d, Start, o)
  BY <1>4 DEF Told
<1> QED
  BY <1>3, <1>7, <1>8, <1>9 DEF Reading

\* IInv holds initially.
LEMMA InitReads == Init => IInv
BY DEF Init, IInv, Nothing

\* A call starts a parser on a document its reader can read.
LEMMA CallReads ==
  ASSUME IInv, NEW c \in DOMAIN Sent, Call(c)
  PROVE  IInv'
<1>1. PICK counts \in Counts(Sent[c]), order \in Orders :
        cmd' = c /\ args' = counts /\ doc' = Document(Sent[c], counts, order)
  BY DEF Call
<1>2. Sending(cmd', args', doc')
  BY <1>1, DocumentDescribes DEF Sending
<1>3. phase' = "parsing"
  BY Domains, Tables DEF Call
<1>4. DOMAIN out' = {}
  BY DEF Call, Nothing
<1>5. /\ DOMAIN index' = {Sent[cmd'].lists[i].node : i \in DOMAIN Sent[cmd'].lists}
      /\ \A l \in DOMAIN index' : index'[l] = 0
  BY <1>1 DEF Call
<1>6. Reading(cmd', doc', Start, index', out')
  BY <1>2, <1>4, <1>5, StartReads
<1>7. at' = Start
  BY DEF Call
<1> QED
  BY <1>2, <1>3, <1>6, <1>7 DEF IInv

\* Reading a node keeps the struct up to date.
LEMMA ParseNodeReads ==
  ASSUME IInv, ParseNode
  PROVE  IInv'
<1> DEFINE z == at.section
           e == at.entry
           l == at.leaf
           W == {Field(doc, z, e, g) : g \in Touched(cmd, doc, z, l)}
<1>1. /\ phase = "parsing" /\ z \in Nat /\ z \in DOMAIN doc /\ e <= doc[z].entries
      /\ l <= Len(doc[z].leaves) /\ Sending(cmd, args, doc)
      /\ Reading(cmd, doc, at, index, out)
      /\ e \in 1..doc[z].entries /\ l \in Nat \ {0}
  <2>1. phase = "parsing" /\ z <= Len(doc) /\ e <= doc[z].entries /\ l <= Len(doc[z].leaves)
    BY DEF ParseNode, InEntry, InSection, Here
  <2>2. Sending(cmd, args, doc) /\ Reading(cmd, doc, at, index, out)
    BY <2>1 DEF IInv
  <2>3. /\ Len(doc) \in Nat /\ DOMAIN doc = 1..Len(doc)
        /\ \A s \in DOMAIN doc : doc[s].entries \in Nat /\ Len(doc[s].leaves) \in Nat
    BY <2>2, SectionFacts
  <2>4. Pointing(doc, at)
    BY <2>2 DEF Reading
  <2>5. z \in DOMAIN doc
    BY <2>1, <2>3, <2>4 DEF Pointing
  <2>6. e \in 1..doc[z].entries /\ l \in Nat \ {0}
    BY <2>1, <2>3, <2>4, <2>5 DEF Pointing
  <2> QED
    BY <2>1, <2>2, <2>3, <2>5, <2>6
<1>2. Pointing(doc, at)
  BY <1>1 DEF Reading
<1>3. /\ Pointing(doc, at') /\ at'.section = z
      /\ Past(doc, at, z, e) = l - 1 /\ Past(doc, at', z, e) = l
      /\ \A s \in DOMAIN doc : \A h \in 1..doc[s].entries :
           (s # z \/ h # e) => Past(doc, at', s, h) = Past(doc, at, s, h)
      /\ \A s \in DOMAIN doc : Passed(doc, at', s) = Passed(doc, at, s)
  <2>1. at' = [at EXCEPT !.leaf = @ + 1]
    BY DEF ParseNode
  <2> QED
    BY <1>1, <1>2, <2>1, LeafMoves
<1>4. Row(doc[z].list, e) = IF doc[z].list = "flat" THEN 0 ELSE index[doc[z].list] + 1
  <2>1. ASSUME doc[z].list # "flat"
        PROVE  index[doc[z].list] + 1 = e
    <3>1. index[doc[z].list] = Passed(doc, at, z)
      BY <1>1, <2>1 DEF Reading, Indexed
    <3>2. Passed(doc, at, z) = e - 1
      BY <1>1 DEF Passed
    <3> QED
      BY <1>1, <3>1, <3>2
  <2> QED
    BY <2>1 DEF Row
<1>5. \A list : RowReader(list) = RowOf(cmd, list)
  BY DEF RowReader, Reader, RowOf
<1>6. out' = Over([f \in W |-> Text(doc[z], e, Read(cmd, doc, z)[l][2])], out)
  <2>1. W = {<<doc[z].list, IF doc[z].list = "flat" THEN 0 ELSE index[doc[z].list] + 1, g>> :
              g \in Targets(RowReader(doc[z].list), Read(cmd, doc, z)[l][1])}
    BY <1>4, <1>5 DEF Field, Touched
  <2>2. Read(cmd, doc, z) = Taken(ListReader(Reader, Here.list), Here.leaves)
    BY DEF Read, Seen, Reader, Here
  <2> HIDE DEF W
  <2> QED
    BY <2>1, <2>2 DEF ParseNode, Here
<1>7. /\ DOMAIN out' = DOMAIN out \cup W
      /\ \A f \in W : out'[f] = Text(doc[z], e, Read(cmd, doc, z)[l][2])
      /\ \A f \in DOMAIN out : f \notin W => out'[f] = out[f]
  BY <1>6 DEF Over
<1>8. Copied(cmd, doc, at', out') /\ Only(cmd, doc, at', out') /\ Told(cmd, doc, at', out')
  <2>1. Copied(cmd, doc, at, out) /\ Only(cmd, doc, at, out) /\ Told(cmd, doc, at, out)
    BY <1>1 DEF Reading
  <2>2. Forward(doc, at, at', z, e, l)
    BY <1>3 DEF Forward
  <2>3. Writes(cmd, doc, out, out', z, e, l)
    BY <1>7 DEF Writes
  <2>4. z \in DOMAIN doc /\ e \in 1..doc[z].entries /\ l \in Nat \ {0}
        /\ Sending(cmd, args, doc)
    BY <1>1
  <2> HIDE DEF z, e, l
  <2> QED
    BY <2>1, <2>2, <2>3, <2>4, LeafKeeps
<1>9. Indexed(doc, at', index)
  BY <1>1, <1>3 DEF Reading, Indexed
<1>10. UNCHANGED <<cmd, args, doc, index, phase>>
  BY DEF ParseNode
<1> QED
  BY <1>1, <1>3, <1>8, <1>9, <1>10 DEF IInv, Reading

\* The index moves on with the pointers.
LEMMA NextEntryReads ==
  ASSUME IInv, NextEntry
  PROVE  IInv'
<1> DEFINE z == at.section
<1>1. /\ phase = "parsing" /\ z \in Nat /\ z \in DOMAIN doc /\ at.entry <= doc[z].entries
      /\ at.leaf > Len(doc[z].leaves) /\ Sending(cmd, args, doc) /\ Pointing(doc, at)
      /\ Reading(cmd, doc, at, index, out)
  <2>1. /\ phase = "parsing" /\ z <= Len(doc) /\ at.entry <= doc[z].entries
        /\ at.leaf > Len(doc[z].leaves)
    BY DEF NextEntry, InEntry, InSection, Here
  <2>2. Sending(cmd, args, doc) /\ Reading(cmd, doc, at, index, out) /\ Pointing(doc, at)
    BY <2>1 DEF IInv, Reading
  <2>3. Len(doc) \in Nat /\ DOMAIN doc = 1..Len(doc)
    BY <2>2, SectionFacts
  <2>4. z \in DOMAIN doc
    BY <2>1, <2>2, <2>3 DEF Pointing
  <2> QED
    BY <2>1, <2>2, <2>3, <2>4
<1>2. /\ Pointing(doc, at') /\ at'.section = z
      /\ \A s \in DOMAIN doc : \A h \in 1..doc[s].entries :
           Past(doc, at', s, h) = Past(doc, at, s, h)
      /\ \A s \in DOMAIN doc :
           Passed(doc, at', s) = IF s = z THEN Passed(doc, at, s) + 1 ELSE Passed(doc, at, s)
  <2>1. at' = [at EXCEPT !.entry = @ + 1, !.leaf = 1]
    BY DEF NextEntry
  <2>2. at' = PastEntry(at)
    BY <2>1 DEF PastEntry
  <2> QED
    BY <1>1, <2>2, EntryMoves
<1>3. UNCHANGED <<cmd, args, doc, out, phase>>
  BY DEF NextEntry
<1>4. Copied(cmd, doc, at', out') /\ Only(cmd, doc, at', out')
  <2>1. Copied(cmd, doc, at, out) /\ Only(cmd, doc, at, out)
    BY <1>1 DEF Reading
  <2>2. \A f \in DOMAIN out \ {Number} : f \in DOMAIN out' /\ out'[f] = out[f]
    BY <1>3
  <2>3. DOMAIN out' \subseteq DOMAIN out \cup {Number}
    BY <1>3
  <2> QED
    BY <1>1, <1>2, <2>1, <2>2, <2>3, MoveKeeps
<1>5. Told(cmd, doc, at', out')
  BY <1>1, <1>2, <1>3 DEF Reading, Told
<1>6. Indexed(doc, at', index')
  <2>1. /\ DOMAIN index = {doc[s].list : s \in DOMAIN doc} \ {"flat"}
        /\ \A s \in DOMAIN doc : doc[s].list # "flat" =>
              index[doc[s].list] = Passed(doc, at, s)
    BY <1>1 DEF Reading, Indexed
  <2>2. index' = Counting(doc[z].list)
    BY DEF NextEntry, Here
  <2>3. \A s, t \in DOMAIN doc : doc[s].list = doc[t].list => s = t
    BY <1>1 DEF Sending, Describes
  <2>4. CASE doc[z].list = "flat"
    BY <1>2, <2>1, <2>2, <2>4 DEF Counting, Indexed
  <2>5. CASE doc[z].list # "flat"
    <3>1. index' = [index EXCEPT ![doc[z].list] = @ + 1]
      BY <2>2, <2>5 DEF Counting
    <3>2. DOMAIN index' = DOMAIN index
      BY <3>1
    <3>3. ASSUME NEW s \in DOMAIN doc, doc[s].list # "flat"
          PROVE  index'[doc[s].list] = Passed(doc, at', s)
      <4>1. doc[s].list \in DOMAIN index
        BY <2>1, <3>3
      <4>2. CASE s = z
        BY <1>2, <2>1, <3>1, <3>3, <4>1, <4>2
      <4>3. CASE s # z
        BY <1>1, <1>2, <2>1, <2>3, <3>1, <3>3, <4>1, <4>3
      <4> QED
        BY <4>2, <4>3
    <3> QED
      BY <2>1, <3>2, <3>3 DEF Indexed
  <2> QED
    BY <2>4, <2>5
<1> QED
  BY <1>1, <1>2, <1>3, <1>4, <1>5, <1>6 DEF IInv, Reading

\* Only the group's entries are counted for the callback.
LEMMA OnlyGroupsCounted ==
  ASSUME NEW c, NEW n, NEW d, Sending(c, n, d), NEW s \in DOMAIN d
  PROVE  /\ CounterOf(c, d[s].list) \in {Uncounted, "urlNum"}
         /\ CounterOf(c, d[s].list) = "urlNum" => d[s].list = "group"
<1>1. WellMade(c)
  BY Formats DEF Sending
<1>2. CASE d[s].list = "flat"
  BY <1>1, <1>2 DEF WellMade, Uncounted
<1>3. CASE d[s].list # "flat"
  <2>1. PICK i \in DOMAIN Sent[c].lists : Sent[c].lists[i].node = d[s].list
    BY <1>3 DEF Sending, Describes, Matches
  <2>2. WellListed(c, Sent[c].lists[i])
    BY <1>1 DEF WellMade
  <2> QED
    BY <2>1, <2>2 DEF WellListed
<1> QED
  BY <1>2, <1>3

\* At the end of its list the group's counter is told.
LEMMA EndListReads ==
  ASSUME IInv, EndList
  PROVE  IInv'
<1> DEFINE z == at.section
           counter == CounterOf(cmd, doc[z].list)
<1>1. /\ phase = "parsing" /\ z \in Nat /\ z \in DOMAIN doc /\ at.entry > doc[z].entries
      /\ Sending(cmd, args, doc) /\ Pointing(doc, at) /\ Reading(cmd, doc, at, index, out)
  <2>1. phase = "parsing" /\ z <= Len(doc) /\ at.entry > doc[z].entries
    BY DEF EndList, InSection, Here
  <2>2. Sending(cmd, args, doc) /\ Reading(cmd, doc, at, index, out) /\ Pointing(doc, at)
    BY <2>1 DEF IInv, Reading
  <2>3. Len(doc) \in Nat /\ DOMAIN doc = 1..Len(doc)
    BY <2>2, SectionFacts
  <2>4. z \in DOMAIN doc
    BY <2>1, <2>2, <2>3 DEF Pointing
  <2> QED
    BY <2>1, <2>2, <2>3, <2>4
<1>2. /\ Pointing(doc, at') /\ at'.section = z + 1
      /\ \A s \in DOMAIN doc : \A h \in 1..doc[s].entries :
           Past(doc, at', s, h) = Past(doc, at, s, h)
      /\ \A s \in DOMAIN doc : Passed(doc, at', s) = Passed(doc, at, s)
      /\ Passed(doc, at, z) = doc[z].entries
  <2>1. at' = [Start EXCEPT !.section = at.section + 1]
    BY DEF EndList
  <2> QED
    BY <1>1, <2>1, SectionMoves
<1>3. UNCHANGED <<cmd, args, doc, index, phase>>
  BY DEF EndList
<1>4. counter \in {Uncounted, "urlNum"} /\ (counter = "urlNum" => doc[z].list = "group")
  BY <1>1, OnlyGroupsCounted
<1>5. out' = IF counter = Uncounted THEN out
             ELSE Over([f \in {<<"flat", 0, counter>>} |-> <<index[doc[z].list]>>], out)
  BY DEF EndList, Here, Reader, CounterOf
<1>6. /\ counter = Uncounted => out' = out
      /\ counter = "urlNum" =>
           /\ DOMAIN out' = DOMAIN out \cup {Number} /\ out'[Number] = <<doc[z].entries>>
           /\ \A f \in DOMAIN out \ {Number} : f \in DOMAIN out' /\ out'[f] = out[f]
  <2>1. ASSUME counter = "urlNum"
        PROVE  out' = Over([f \in {Number} |-> <<doc[z].entries>>], out)
    <3>1. index[doc[z].list] = doc[z].entries
      BY <1>1, <1>2, <1>4, <2>1 DEF Reading, Indexed
    <3> QED
      BY <1>5, <2>1, <3>1 DEF Uncounted, Number
  <2> HIDE DEF counter
  <2> QED
    BY <1>5, <2>1 DEF Over
<1> HIDE DEF counter
<1>7. Copied(cmd, doc, at', out') /\ Only(cmd, doc, at', out')
  <2>1. Copied(cmd, doc, at, out) /\ Only(cmd, doc, at, out)
    BY <1>1 DEF Reading
  <2>2. \A f \in DOMAIN out \ {Number} : f \in DOMAIN out' /\ out'[f] = out[f]
    BY <1>4, <1>6
  <2>3. DOMAIN out' \subseteq DOMAIN out \cup {Number}
    BY <1>4, <1>6
  <2> QED
    BY <1>1, <1>2, <2>1, <2>2, <2>3, MoveKeeps
<1>8. Told(cmd, doc, at', out')
  <2> SUFFICES ASSUME NEW s \in DOMAIN doc, s < z + 1, CounterOf(cmd, doc[s].list) = "urlNum"
               PROVE  Number \in DOMAIN out' /\ out'[Number] = <<doc[s].entries>>
    BY <1>2 DEF Told
  <2>1. CASE s = z
    BY <1>6, <2>1 DEF counter
  <2>2. CASE s # z
    <3>1. s < z
      <4>1. s \in Nat
        BY <1>1, SectionFacts
      <4> QED
        BY <1>1, <2>2, <4>1
    <3>2. Number \in DOMAIN out /\ out[Number] = <<doc[s].entries>>
      BY <1>1, <3>1 DEF Reading, Told
    <3>3. doc[s].list = "group" /\ \A r, t \in DOMAIN doc : doc[r].list = doc[t].list => r = t
      <4>1. doc[s].list = "group"
        BY <1>1, OnlyGroupsCounted
      <4>2. \A r, t \in DOMAIN doc : doc[r].list = doc[t].list => r = t
        BY <1>1 DEF Sending, Describes
      <4> QED
        BY <4>1, <4>2
    <3>4. counter = Uncounted
      BY <1>1, <1>4, <2>2, <3>3
    <3> QED
      BY <1>6, <3>2, <3>4
  <2> QED
    BY <2>1, <2>2
<1>9. Indexed(doc, at', index')
  BY <1>1, <1>2, <1>3 DEF Reading, Indexed
<1> QED
  BY <1>1, <1>2, <1>3, <1>7, <1>8, <1>9 DEF IInv, Reading

\* The callback that is looked up is registered.
LEMMA CallBackReads ==
  ASSUME IInv, CallBack
  PROVE  IInv'
<1>1. phase = "parsing" /\ at.section > Len(doc)
      /\ UNCHANGED <<cmd, args, doc, at, index, out>>
  BY DEF CallBack
<1>2. Sending(cmd, args, doc) /\ Reading(cmd, doc, at, index, out)
  BY <1>1 DEF IInv
<1>3. CallbackOf(cmd) \in Callbacks(cmd)
  <2>1. cmd \in AreaNames \cup CoreNames
    BY <1>2, Domains DEF Sending
  <2>2. CASE cmd \in AreaNames
    <3>1. cmd # "StartHisLoad"
      BY <2>2 DEF AreaNames
    <3> QED
      BY <2>2, <3>1, Tables DEF CallbackOf
  <2>3. CASE cmd \in CoreNames
    <3>1. "StartPlayBack" \in CoreNames \ {"StartHisLoad"}
      BY DEF CoreNames
    <3> QED
      BY <2>3, <3>1, Tables DEF CallbackOf
  <2> QED
    BY <2>1, <2>2, <2>3
<1>4. phase' = "called"
  BY <1>3 DEF CallBack
<1> QED
  BY <1>1, <1>2, <1>4 DEF IInv

\* After the reply nothing is left.
LEMMA RepliedReads ==
  ASSUME IInv, Replied
  PROVE  IInv'
BY DEF Replied, IInv, Nothing

\* Every step keeps the invariant.
LEMMA NextReads == IInv /\ [Next]_vars => IInv'
<1> SUFFICES ASSUME IInv, [Next]_vars
             PROVE  IInv'
  OBVIOUS
<1>1. ASSUME NEW c \in DOMAIN Sent, Call(c)
      PROVE  IInv'
  BY <1>1, CallReads
<1>2. CASE UNCHANGED vars
  BY <1>2 DEF IInv, vars
<1> QED
  BY <1>1, <1>2, ParseNodeReads, NextEntryReads, EndListReads, CallBackReads, RepliedReads
     DEF Next

\* The invariant of the parsers: IInv holds in every state.
THEOREM ReadersKeepTrack == Spec => []IInv
BY InitReads, NextReads, PTL DEF Spec

\* Every command a sender sends has a parser and a callback at the other node:
\* no lookup finds NULL (EveryCommandServed; TCP_Client.cpp, My_connec.cpp).
THEOREM CommandsServed == Spec => []EveryCommandServed
<1>1. IInv => EveryCommandServed
  BY DEF IInv, EveryCommandServed
<1> QED
  BY <1>1, ReadersKeepTrack, PTL

-----------------------------------------------------------------------------
(* A callback's struct.                                                     *)

\* One of the nodes of section s is copied to field g.
Copies(c, d, s, g) == \E i \in DOMAIN d[s].leaves : g \in Touched(c, d, s, i)

\* When the callback is called every node has been read.
LEMMA AllRead ==
  ASSUME IInv, phase = "called"
  PROVE  /\ Sending(cmd, args, doc)
         /\ \A s \in DOMAIN doc : \A e \in 1..doc[s].entries : \A g : Copies(cmd, doc, s, g) =>
              Fresh(cmd, doc, out, s, e, Len(doc[s].leaves), g)
         /\ \A f \in DOMAIN out : \/ f = Number
              \/ \E s \in DOMAIN doc : \E e \in 1..doc[s].entries : \E g :
                   Copies(cmd, doc, s, g) /\ f = Field(doc, s, e, g)
         /\ \A s \in DOMAIN doc : CounterOf(cmd, doc[s].list) = "urlNum" =>
              Number \in DOMAIN out /\ out[Number] = <<doc[s].entries>>
<1>1. Sending(cmd, args, doc) /\ Reading(cmd, doc, at, index, out) /\ at.section > Len(doc)
  BY DEF IInv
<1>2. \A s \in DOMAIN doc : s < at.section
  <2>1. Len(doc) \in Nat /\ DOMAIN doc = 1..Len(doc) /\ at.section \in Nat
    BY <1>1, SectionFacts DEF Reading, Pointing
  <2> QED
    BY <1>1, <2>1
<1>3. \A s \in DOMAIN doc : \A e : Past(doc, at, s, e) = Len(doc[s].leaves)
  BY <1>2 DEF Past
<1>4. \A s \in DOMAIN doc : DOMAIN doc[s].leaves = 1..Len(doc[s].leaves)
  BY <1>1, SectionFacts
<1>5. \A s \in DOMAIN doc : \A e \in 1..doc[s].entries : \A g : Copies(cmd, doc, s, g) =>
        Fresh(cmd, doc, out, s, e, Len(doc[s].leaves), g)
  BY <1>1, <1>3, <1>4 DEF Reading, Copied, Copies
<1>6. ASSUME NEW f \in DOMAIN out, f # Number
      PROVE  \E s \in DOMAIN doc : \E e \in 1..doc[s].entries : \E g :
               Copies(cmd, doc, s, g) /\ f = Field(doc, s, e, g)
  BY <1>1, <1>3, <1>4, <1>6 DEF Reading, Only, Copies
<1>7. \A s \in DOMAIN doc : CounterOf(cmd, doc[s].list) = "urlNum" =>
        Number \in DOMAIN out /\ out[Number] = <<doc[s].entries>>
  BY <1>1, <1>2 DEF Reading, Told
<1> QED
  BY <1>1, <1>5, <1>6, <1>7

\* A struct's index and fields are those of the command's reader.
LEMMA StructTouched ==
  ASSUME NEW s, NEW i, NEW g \in Touched(cmd, doc, s, i)
  PROVE  g \in Struct(doc[s].list)
<1>1. RowReader(doc[s].list) = RowOf(cmd, doc[s].list)
  BY DEF RowReader, Reader, RowOf
<1> QED
  BY <1>1 DEF Touched, Targets, Struct, Range

\* TypeOK from the invariant.
LEMMA TypeOKFollows == IInv => TypeOK
<1> SUFFICES ASSUME IInv
             PROVE  TypeOK
  OBVIOUS
<1>1. CASE phase = "idle"
  BY <1>1 DEF IInv, TypeOK
<1>2. CASE phase # "idle"
  <2>1. /\ Sending(cmd, args, doc) /\ Pointing(doc, at) /\ Indexed(doc, at, index)
        /\ Only(cmd, doc, at, out)
    BY <1>2 DEF IInv, Reading
  <2>2. DOMAIN index \subseteq Lists
    BY <2>1, SectionFacts DEF Indexed
  <2>3. ASSUME NEW s \in DOMAIN doc
        PROVE  Passed(doc, at, s) \in 0..MaxRows
    <3>1. /\ doc[s].entries \in 0..MaxRows /\ Len(doc) \in Nat /\ DOMAIN doc = 1..Len(doc)
          /\ MaxRows \in Nat
      BY <2>1, SectionFacts, MaxRowsAssumption
    <3>2. s = at.section => at.entry \in 1..doc[s].entries + 1
      BY <2>1, <3>1 DEF Pointing
    <3> QED
      BY <3>1, <3>2 DEF Passed
  <2>4. \A l \in DOMAIN index : index[l] \in 0..MaxRows
    BY <2>1, <2>3 DEF Indexed
  <2>5. ASSUME NEW f \in DOMAIN out
        PROVE  \/ f \in {"flat"} \X {0} \X (Struct("flat") \cup {"urlNum"})
               \/ \E l \in DOMAIN index : f \in {l} \X (1..MaxRows) \X Struct(l)
    <3>1. CASE f = Number
      BY <3>1 DEF Number
    <3>2. CASE f # Number
      <4>1. PICK s \in DOMAIN doc : \E e \in 1..doc[s].entries : \E i, g :
              g \in Touched(cmd, doc, s, i) /\ f = Field(doc, s, e, g)
        BY <2>1, <3>2 DEF Only
      <4>2. PICK e \in 1..doc[s].entries, g \in Struct(doc[s].list) : f = Field(doc, s, e, g)
        BY <4>1, StructTouched
      <4>3. CASE doc[s].list = "flat"
        BY <4>2, <4>3 DEF Field, Row
      <4>4. CASE doc[s].list # "flat"
        <5>1. doc[s].list \in DOMAIN index
          BY <2>1, <4>4 DEF Indexed
        <5>2. e \in 1..MaxRows
          BY <2>1, <4>2, SectionFacts, MaxRowsAssumption
        <5> QED
          BY <4>2, <4>4, <5>1, <5>2 DEF Field, Row
      <4> QED
        BY <4>3, <4>4
    <3> QED
      BY <3>1, <3>2
  <2> QED
    BY <2>1, <2>2, <2>4, <2>5 DEF TypeOK, Sending, IInv
<1> QED
  BY <1>1, <1>2

\* Every field a parsing method writes is one of the struct's, and no index passes
\* the entries a caller can have put into a list (TypeOK; the branches of the
\* parsing methods in the two XML_Parse.h).
THEOREM TypeCorrect == Spec => []TypeOK
BY ReadersKeepTrack, TypeOKFollows, PTL

\* CountsAgree from the invariant.
LEMMA CountsAgreeFollows == IInv => CountsAgree
<1> SUFFICES ASSUME IInv, phase = "called", "group" \in DOMAIN index, cmd \notin Uncounting
             PROVE  /\ Counted \subseteq DOMAIN out
                    /\ out[<<"flat", 0, "urlNum">>] = <<args["urlNum"]>>
  BY DEF CountsAgree
<1>1. Sending(cmd, args, doc) /\ Indexed(doc, at, index)
  BY DEF IInv, Reading
<1>2. PICK s \in DOMAIN doc : doc[s].list = "group"
  BY <1>1 DEF Indexed
<1>3. PICK i \in DOMAIN Sent[cmd].lists : /\ Sent[cmd].lists[i].node = "group"
                                          /\ doc[s].entries = args[Sent[cmd].lists[i].loops]
  BY <1>1, <1>2 DEF Sending, Describes, Matches
<1>4. WellListed(cmd, Sent[cmd].lists[i])
  BY <1>1, Formats DEF Sending, WellMade
<1>5. CounterOf(cmd, "group") = "urlNum" /\ Sent[cmd].lists[i].loops = "urlNum"
  BY <1>3, <1>4 DEF WellListed
<1>6. Number \in DOMAIN out /\ out[Number] = <<doc[s].entries>>
  BY <1>2, <1>5, AllRead
<1> QED
  BY <1>3, <1>5, <1>6 DEF Counted, Number

\* A callback is told as many entries as the caller filled (CountsAgree;
\* XML_Parse.h:236).
THEOREM CountsKept == Spec => []CountsAgree
BY ReadersKeepTrack, CountsAgreeFollows, PTL

-----------------------------------------------------------------------------
(* What arrives, and what does not.                                         *)

\* A text tells the fields it was printed from.
LEMMA Texts ==
  ASSUME NEW section, NEW e \in Nat, section.filled \in Nat, NEW fields \in Seq(Tags), NEW g
  PROVE  LET f == <<section.list, Row(section.list, e), g>> IN
         /\ e > section.filled => Text(section, e, fields) # <<f>>
         /\ Text(section, e, fields) = <<f>> => fields = <<g>>
         /\ e <= section.filled /\ fields = <<g>> => Text(section, e, fields) = <<f>>
<1> DEFINE r == Row(section.list, e)
           f == <<section.list, r, g>>
           t == [j \in DOMAIN fields |-> <<section.list, r, fields[j]>>]
<1>1. e > section.filled => Text(section, e, fields) = << >>
  BY DEF Text, Garbage
<1>2. e <= section.filled => Text(section, e, fields) = t
  BY DEF Text
<1> HIDE DEF r
<1>3. << >> # <<f>>
  OBVIOUS
<1>4. ASSUME t = <<f>>
      PROVE  fields = <<g>>
  <2>1. DOMAIN <<f>> = {1} /\ <<f>>[1] = f
    OBVIOUS
  <2>2. DOMAIN fields = {1} /\ t[1] = f
    <3>1. DOMAIN t = DOMAIN fields
      OBVIOUS
    <3> QED
      BY <1>4, <2>1, <3>1
  <2>3. fields[1] = g
    BY <2>2
  <2>4. Len(fields) = 1
    BY <2>2, LenProperties
  <2> QED
    BY <2>3, <2>4
<1>5. ASSUME fields = <<g>>
      PROVE  t = <<f>>
  <2>1. DOMAIN fields = {1} /\ fields[1] = g
    BY <1>5
  <2>2. t = [j \in {1} |-> f]
    BY <2>1
  <2>3. <<f>> = [j \in {1} |-> f]
    OBVIOUS
  <2> QED
    BY <2>2, <2>3
<1>6. e > section.filled \/ e <= section.filled
  OBVIOUS
<1> HIDE DEF t
<1>7. e > section.filled => Text(section, e, fields) # <<f>>
  BY <1>1, <1>3
<1>8. e <= section.filled => (Text(section, e, fields) = <<f>> <=> fields = <<g>>)
  BY <1>2, <1>4, <1>5
<1> QED
  BY <1>6, <1>7, <1>8 DEF r

\* The fields of section s that its own entries bring, and those that are lost.
LEMMA Arrival ==
  ASSUME IInv, phase = "called", NEW s \in DOMAIN doc, NEW e \in 1..doc[s].entries,
         NEW g \in Tags
  PROVE  LET f == Field(doc, s, e, g)  gaps == Missing(cmd, doc[s].list) IN
         /\ Copies(cmd, doc, s, g) /\ g \notin gaps /\ e <= doc[s].filled => Arrives(f)
         /\ g \in gaps => ~Arrives(f)
         /\ Copies(cmd, doc, s, g) => f \in DOMAIN out
         /\ e > doc[s].filled => ~Arrives(f)
         /\ ~Copies(cmd, doc, s, g) => ~Arrives(f)
<1> DEFINE f == Field(doc, s, e, g)
           gaps == Missing(cmd, doc[s].list)
           leaves == Read(cmd, doc, s)
           n == Len(doc[s].leaves)
           reader == RowOf(cmd, doc[s].list)
<1>1. Sending(cmd, args, doc) /\ Legible(leaves, reader, gaps)
  BY AllRead DEF Sending, Describes
<1>2. /\ leaves \in Seq(Nodes) /\ n \in Nat /\ DOMAIN leaves = 1..n
      /\ doc[s].filled \in Nat /\ e \in Nat
      /\ \A j \in DOMAIN leaves : leaves[j][2] \in Seq(Tags)
  <2>1. /\ leaves \in Seq(Nodes) /\ n \in Nat /\ DOMAIN leaves = 1..n
        /\ doc[s].filled \in Nat
    BY <1>1, SectionFacts
  <2>2. \A x \in Nodes : x[2] \in Seq(Tags)
    BY DEF Nodes
  <2> QED
    BY <2>1, <2>2, ElementOfSeq
<1>3. ASSUME Copies(cmd, doc, s, g)
      PROVE  \E j \in DOMAIN leaves :
               /\ g \in Targets(reader, leaves[j][1])
               /\ \A k \in DOMAIN leaves : k > j => g \notin Targets(reader, leaves[k][1])
               /\ f \in DOMAIN out /\ out[f] = Text(doc[s], e, leaves[j][2])
  <2>1. Fresh(cmd, doc, out, s, e, n, g)
    BY <1>3, AllRead
  <2>2. PICK j \in 1..n :
          /\ g \in Touched(cmd, doc, s, j)
          /\ \A m \in j + 1..n : g \notin Touched(cmd, doc, s, m)
          /\ f \in DOMAIN out /\ out[f] = Text(doc[s], e, leaves[j][2])
    BY <2>1 DEF Fresh
  <2>3. \A k \in DOMAIN leaves : k > j => k \in j + 1..n
    BY <1>2
  <2> QED
    BY <1>2, <2>2, <2>3 DEF Touched
<1>4. ~Copies(cmd, doc, s, g) => f \notin DOMAIN out
  <2> SUFFICES ASSUME f \in DOMAIN out
               PROVE  Copies(cmd, doc, s, g)
    OBVIOUS
  <2>1. f # Number
    BY NotATag DEF Field, Number
  <2> QED
    BY <1>1, <2>1, AllRead, FieldsDiffer
<1>5. \A i \in DOMAIN leaves :
        /\ e > doc[s].filled => Text(doc[s], e, leaves[i][2]) # <<f>>
        /\ Text(doc[s], e, leaves[i][2]) = <<f>> => leaves[i][2] = <<g>>
        /\ e <= doc[s].filled /\ leaves[i][2] = <<g>> => Text(doc[s], e, leaves[i][2]) = <<f>>
  <2> SUFFICES ASSUME NEW i \in DOMAIN leaves
               PROVE  LET fields == leaves[i][2] IN
                      /\ e > doc[s].filled => Text(doc[s], e, fields) # <<f>>
                      /\ Text(doc[s], e, fields) = <<f>> => fields = <<g>>
                      /\ e <= doc[s].filled /\ fields = <<g>> =>
                           Text(doc[s], e, fields) = <<f>>
    OBVIOUS
  <2>1. leaves[i][2] \in Seq(Tags) /\ e \in Nat /\ doc[s].filled \in Nat
    BY <1>2
  <2>2. f = <<doc[s].list, Row(doc[s].list, e), g>>
    BY DEF Field
  <2> QED
    BY <2>1, <2>2, Texts
<1>6. ASSUME Copies(cmd, doc, s, g), g \notin gaps, e <= doc[s].filled
      PROVE  Arrives(f)
  <2>1. PICK j \in DOMAIN leaves :
          /\ g \in Targets(reader, leaves[j][1])
          /\ f \in DOMAIN out /\ out[f] = Text(doc[s], e, leaves[j][2])
    BY <1>3, <1>6
  <2>2. leaves[j][2] = <<g>>
    BY <1>1, <1>6, <2>1 DEF Legible, Fits, Fit
  <2> QED
    BY <1>5, <1>6, <2>1, <2>2 DEF Arrives
<1>7. ASSUME g \in gaps
      PROVE  ~Arrives(f)
  <2>1. CASE ~Copies(cmd, doc, s, g)
    BY <1>4, <2>1 DEF Arrives
  <2>2. CASE Copies(cmd, doc, s, g)
    <3>1. PICK j \in DOMAIN leaves :
            /\ g \in Targets(reader, leaves[j][1])
            /\ \A k \in DOMAIN leaves : k > j => g \notin Targets(reader, leaves[k][1])
            /\ f \in DOMAIN out /\ out[f] = Text(doc[s], e, leaves[j][2])
      BY <1>3, <2>2
    <3>2. leaves[j][2] # <<g>>
      BY <1>1, <1>7, <3>1 DEF Legible, Spoilt
    <3> QED
      BY <1>5, <3>1, <3>2 DEF Arrives
  <2> QED
    BY <2>1, <2>2
<1>8. ASSUME e > doc[s].filled
      PROVE  ~Arrives(f)
  <2>1. CASE ~Copies(cmd, doc, s, g)
    BY <1>4, <2>1 DEF Arrives
  <2>2. CASE Copies(cmd, doc, s, g)
    BY <1>3, <1>5, <1>8, <2>2 DEF Arrives
  <2> QED
    BY <2>1, <2>2
<1>9. ~Copies(cmd, doc, s, g) => ~Arrives(f)
  BY <1>4 DEF Arrives
<1>10. Copies(cmd, doc, s, g) => f \in DOMAIN out
  BY <1>3
<1> QED
  BY <1>6, <1>7, <1>8, <1>9, <1>10

\* No field of an entry that the document does not have arrives.
LEMMA NoSuchEntry ==
  ASSUME IInv, phase = "called", NEW s \in DOMAIN doc, doc[s].list # "flat",
         NEW e, e \notin 1..doc[s].entries, NEW g
  PROVE  ~Arrives(Field(doc, s, e, g))
<1> DEFINE f == Field(doc, s, e, g)
<1>1. f # Number
  BY DEF Field, Number
<1>2. ASSUME NEW t \in DOMAIN doc, NEW h \in 1..doc[t].entries, NEW k, f = Field(doc, t, h, k)
      PROVE  FALSE
  <2>1. doc[t].list = doc[s].list /\ h = e
    BY <1>2 DEF Field, Row
  <2>2. t = s
    BY <2>1, AllRead DEF Sending, Describes
  <2> QED
    BY <2>1, <2>2
<1> QED
  BY <1>1, <1>2, AllRead DEF Arrives

\* The sections' leaves carry tags, and all they carry is copied but for the gaps.
LEMMA Carrying ==
  ASSUME NEW c, NEW n, NEW d, Sending(c, n, d), NEW s \in DOMAIN d
  PROVE  /\ Carried(d[s].leaves) \subseteq Tags
         /\ \A g \in Carried(d[s].leaves) \ Missing(c, d[s].list) : Copies(c, d, s, g)
         /\ \A g : Copies(c, d, s, g) /\ g \notin Missing(c, d[s].list) =>
              g \in Carried(d[s].leaves)
         /\ Missing(c, d[s].list) \subseteq Carried(d[s].leaves)
<1> DEFINE leaves == Read(c, d, s)
           gaps == Missing(c, d[s].list)
           reader == RowOf(c, d[s].list)
<1>1. /\ Legible(leaves, reader, gaps) /\ Carried(leaves) = Carried(d[s].leaves)
      /\ DOMAIN leaves = DOMAIN d[s].leaves
  BY SectionFacts DEF Sending, Describes
<1>2. \A i \in DOMAIN leaves : Fit(leaves[i], reader, gaps) /\ leaves[i] \in Nodes
  BY <1>1, ElementOfSeq DEF Legible, Fits
<1>3. \A x \in Nodes : Range(x[2]) \subseteq Tags
  <2>1. \A x \in Nodes : x[2] \in Seq(Tags)
    BY DEF Nodes
  <2>2. \A x \in Seq(Tags) : Range(x) \subseteq Tags
    BY ElementOfSeq DEF Range
  <2> QED
    BY <2>1, <2>2
<1>4. \A g : Range(<<g>>) = {g}
  BY Single
<1>5. Carried(leaves) \subseteq Tags
  BY <1>2, <1>3 DEF Carried
<1>6. \A g \in Carried(leaves) \ gaps : Copies(c, d, s, g)
  BY <1>1, <1>2 DEF Carried, Copies, Touched, Fit
<1>7. ASSUME NEW g, Copies(c, d, s, g), g \notin gaps
      PROVE  g \in Carried(leaves)
  <2>1. PICK i \in DOMAIN leaves : leaves[i][2] = <<g>>
    BY <1>1, <1>2, <1>7 DEF Copies, Touched, Fit
  <2> QED
    BY <1>4, <2>1 DEF Carried
<1>8. gaps \subseteq Carried(leaves)
  BY <1>1 DEF Legible, Spoilt
<1> QED
  BY <1>1, <1>5, <1>6, <1>7, <1>8

\* The caller fills the fields that the sections carry, in their filled entries.
LEMMA FilledFields ==
  ASSUME NEW s \in DOMAIN doc, Sending(cmd, args, doc)
  PROVE  \A k \in 1..doc[s].filled : \A g \in Carried(doc[s].leaves) :
           Field(doc, s, k, g) \in Filled
<1> SUFFICES ASSUME NEW k \in 1..doc[s].filled, NEW g \in Carried(doc[s].leaves)
             PROVE  Field(doc, s, k, g) \in Filled
  OBVIOUS
<1>1. CASE doc[s].list = "flat"
  <2>1. g \in Carried(Sent[cmd].flat)
    BY <1>1 DEF Sending, Describes, Matches
  <2>2. Field(doc, s, k, g) = <<"flat", 0, g>>
    BY <1>1 DEF Field, Row
  <2> QED
    BY <2>1, <2>2 DEF Filled, Carried
<1>2. CASE doc[s].list # "flat"
  <2>1. PICK i \in DOMAIN Sent[cmd].lists :
          LET l == Sent[cmd].lists[i] IN
          /\ l.node = doc[s].list /\ doc[s].filled = args[l.holds]
          /\ Carried(doc[s].leaves) = Carried(l.row)
    BY <1>2 DEF Sending, Describes, Matches
  <2> DEFINE l == Sent[cmd].lists[i]
             F == {<<l.node, h, f>> : h \in 1..args[l.holds],
                                      f \in UNION {Range(l.row[j][2]) : j \in DOMAIN l.row}}
  <2>2. Field(doc, s, k, g) = <<l.node, k, g>>
    BY <1>2, <2>1 DEF Field, Row
  <2>3. k \in 1..args[l.holds] /\ g \in UNION {Range(l.row[j][2]) : j \in DOMAIN l.row}
    BY <2>1 DEF Carried
  <2>4. Field(doc, s, k, g) \in F
    BY <2>2, <2>3
  <2>5. F \subseteq Filled
    BY DEF Filled
  <2> QED
    BY <2>4, <2>5
<1> QED
  BY <1>1, <1>2

\* And it fills no others.
LEMMA FilledOnly ==
  ASSUME NEW f \in Filled, Sending(cmd, args, doc)
  PROVE  \E s \in DOMAIN doc : \E k \in 1..doc[s].filled : \E g \in Carried(doc[s].leaves) :
           f = Field(doc, s, k, g)
<1>1. CASE \E g \in Carried(Sent[cmd].flat) : f = <<"flat", 0, g>>
  <2>1. PICK g \in Carried(Sent[cmd].flat) : f = <<"flat", 0, g>>
    BY <1>1
  <2>2. PICK s \in DOMAIN doc : doc[s].list = "flat"
    BY DEF Sending, Describes
  <2>3. doc[s].filled = 1 /\ g \in Carried(doc[s].leaves)
    BY <2>1, <2>2 DEF Sending, Describes, Matches
  <2>4. 1 \in 1..doc[s].filled /\ f = Field(doc, s, 1, g)
    BY <2>1, <2>2, <2>3 DEF Field, Row
  <2> QED
    BY <2>3, <2>4
<1>2. CASE \E i \in DOMAIN Sent[cmd].lists : \E k \in 1..args[Sent[cmd].lists[i].holds] :
             \E g \in Carried(Sent[cmd].lists[i].row) : f = <<Sent[cmd].lists[i].node, k, g>>
  <2>1. PICK i \in DOMAIN Sent[cmd].lists : \E k \in 1..args[Sent[cmd].lists[i].holds] :
               \E g \in Carried(Sent[cmd].lists[i].row) : f = <<Sent[cmd].lists[i].node, k, g>>
    BY <1>2
  <2> DEFINE l == Sent[cmd].lists[i]
  <2>2. PICK s \in DOMAIN doc : doc[s].list = l.node
    BY DEF Sending, Describes
  <2>3. l.node # "flat"
    <3>1. Sent[cmd].lists \in Seq(ListFormat)
      BY Formats DEF Sending, WellMade
    <3>2. \A x \in ListFormat : x.node # "flat"
      BY DEF ListFormat, Lists
    <3> QED
      BY <3>1, <3>2, ElementOfSeq
  <2>4. doc[s].filled = args[l.holds] /\ Carried(doc[s].leaves) = Carried(l.row)
    <3>1. PICK j \in DOMAIN Sent[cmd].lists :
            LET m == Sent[cmd].lists[j] IN
            /\ m.node = l.node /\ doc[s].filled = args[m.holds]
            /\ Carried(doc[s].leaves) = Carried(m.row)
      BY <2>2, <2>3 DEF Sending, Describes, Matches
    <3>2. i = j
      BY <3>1, Formats DEF Sending, WellMade
    <3> QED
      BY <3>1, <3>2
  <2>5. \A k, g : Field(doc, s, k, g) = <<l.node, k, g>>
    BY <2>2, <2>3 DEF Field, Row
  <2> QED
    BY <2>1, <2>4, <2>5
<1> QED
  BY <1>1, <1>2 DEF Filled, Carried

\* The gaps by command and list.
LEMMA GapsMissing ==
  cmd # "SetUserCamManage" =>
    \A l, g : <<l, g>> \in Gaps <=> g \in Missing(cmd, l)
<1> SUFFICES ASSUME cmd # "SetUserCamManage", NEW l, NEW g
             PROVE  <<l, g>> \in Gaps <=> g \in Missing(cmd, l)
  OBVIOUS
<1>1. CASE cmd = "MURegister"
  BY <1>1 DEF Gaps, Missing
<1>2. CASE cmd = "ReportAlarmRes"
  BY <1>2 DEF Gaps, Missing
<1>3. CASE cmd = "ControlFileBack"
  BY <1>3 DEF Gaps, Missing
<1>4. CASE cmd = "ReportAlarmInfo"
  BY <1>4 DEF Gaps, Missing
<1>5. CASE cmd \in {"ResTransOrder", "ResChangeOrder"}
  BY <1>5 DEF Gaps, Missing
<1>6. CASE cmd \notin {"MURegister", "ReportAlarmRes", "ControlFileBack", "ReportAlarmInfo",
                       "ResTransOrder", "ResChangeOrder"}
  BY <1>6 DEF Gaps, Missing
<1> QED
  BY <1>1, <1>2, <1>3, <1>4, <1>5, <1>6

\* SetUserCamManage counts its users by its cameras; nothing else it sends is lost.
LEMMA WhiteUsers ==
  LET c == "SetUserCamManage" IN
  /\ \A i \in DOMAIN Sent[c].lists : LET l == Sent[c].lists[i] IN
       l.loops # l.holds => l.node = "whiteUser"
  /\ \E i \in DOMAIN Sent[c].lists : LET l == Sent[c].lists[i] IN
       /\ l.node = "whiteUser" /\ l.loops = "camurl_Num" /\ l.holds = "idurl_Num"
       /\ Carried(l.row) = {"id"}
<1> DEFINE c == "SetUserCamManage"
           cams  == List("group", "camurl_Num", "camurl_Num", Own(<<"camId">>))
           users == List("whiteUser", "camurl_Num", "idurl_Num", Own(<<"id">>))
<1>1. Sent[c].lists = << cams, users >>
  BY Lookups, Parts DEF Send_SetUserCamManage
<1>2. /\ DOMAIN Sent[c].lists = {1, 2} /\ Sent[c].lists[1] = cams /\ Sent[c].lists[2] = users
  <2>1. \A x, y : DOMAIN << x, y >> = {1, 2} /\ << x, y >>[1] = x /\ << x, y >>[2] = y
    OBVIOUS
  <2> QED
    BY <1>1, <2>1
<1>3. /\ cams.loops = cams.holds /\ users.node = "whiteUser" /\ users.loops = "camurl_Num"
      /\ users.holds = "idurl_Num" /\ users.row = Own(<<"id">>)
  BY DEF List
<1>4. Carried(Own(<<"id">>)) = {"id"}
  <2>1. DOMAIN <<"id">> = {1} /\ <<"id">>[1] = "id"
    OBVIOUS
  <2>2. DOMAIN Own(<<"id">>) = {1} /\ Own(<<"id">>)[1] = <<"id", <<"id">> >>
    BY <2>1 DEF Own
  <2>3. Range(<<"id">>) = {"id"}
    BY Single
  <2> QED
    BY <2>2, <2>3 DEF Carried
<1> HIDE DEF cams, users
<1> QED
  BY <1>2, <1>3, <1>4

\* A section whose loop is not counted by what the caller filled.
LEMMA Uneven ==
  ASSUME Sending(cmd, args, doc), NEW s \in DOMAIN doc, doc[s].entries # doc[s].filled
  PROVE  /\ cmd = "SetUserCamManage" /\ doc[s].list = "whiteUser"
         /\ doc[s].entries = args["camurl_Num"] /\ doc[s].filled = args["idurl_Num"]
         /\ Carried(doc[s].leaves) = {"id"}
<1>1. doc[s].list # "flat"
  BY DEF Sending, Describes, Matches
<1>2. PICK i \in DOMAIN Sent[cmd].lists :
        LET l == Sent[cmd].lists[i] IN
        /\ l.node = doc[s].list
        /\ doc[s].entries = args[l.loops] /\ doc[s].filled = args[l.holds]
        /\ Carried(doc[s].leaves) = Carried(l.row)
  BY <1>1 DEF Sending, Describes, Matches
<1>3. Sent[cmd].lists[i].loops # Sent[cmd].lists[i].holds
  BY <1>2
<1>4. cmd = "SetUserCamManage"
  BY <1>3, Formats DEF Sending, WellMade, WellListed
<1>5. PICK j \in DOMAIN Sent[cmd].lists : LET l == Sent[cmd].lists[j] IN
      /\ l.node = "whiteUser" /\ l.loops = "camurl_Num" /\ l.holds = "idurl_Num"
      /\ Carried(l.row) = {"id"}
  BY <1>4, WhiteUsers
<1>6. Sent[cmd].lists[i].node = "whiteUser"
  BY <1>3, <1>4, WhiteUsers
<1>7. i = j
  BY <1>5, <1>6, Formats DEF Sending, WellMade
<1> QED
  BY <1>2, <1>4, <1>5, <1>7

\* FieldsArrive from the invariant.
LEMMA FieldsArriveFollows == IInv => FieldsArrive
<1> SUFFICES ASSUME IInv, phase = "called"
             PROVE  /\ Lost \subseteq Gaps
                    /\ (\A c \in DOMAIN args : args[c] > 0) => Gaps \subseteq Lost
  BY DEF FieldsArrive
<1>1. /\ Sending(cmd, args, doc)
      /\ \A s \in DOMAIN doc : /\ doc[s].entries \in Nat /\ doc[s].filled \in Nat
                               /\ doc[s].list = "flat" => doc[s].filled = 1
  <2>1. Sending(cmd, args, doc)
    BY AllRead
  <2> QED
    BY <2>1, SectionFacts DEF Sending, Describes, Matches
<1>2. \A s, k, g : Field(doc, s, k, g)[1] = doc[s].list /\ Field(doc, s, k, g)[3] = g
  BY DEF Field
<1>3. cmd = "SetUserCamManage" =>
        Gaps = IF args["camurl_Num"] = args["idurl_Num"] THEN {} ELSE {<<"whiteUser", "id">>}
  BY DEF Gaps
<1>4. ASSUME NEW f \in Filled \cup Written, ~Arrives(f)
      PROVE  <<f[1], f[3]>> \in Gaps
  <2>1. \/ \E s \in DOMAIN doc : \E k \in 1..doc[s].filled : \E g \in Carried(doc[s].leaves) :
             f = Field(doc, s, k, g)
        \/ \E s \in DOMAIN doc : \E k \in 1..doc[s].entries : \E g :
             Copies(cmd, doc, s, g) /\ f = Field(doc, s, k, g)
    <3>1. CASE f \in Filled
      BY <1>1, <3>1, FilledOnly
    <3>2. CASE f \in Written
      BY <3>2, AllRead DEF Written, Counted, Number
    <3> QED
      BY <1>4, <3>1, <3>2
  <2>2. PICK s \in DOMAIN doc : \E k, g :
          /\ f = Field(doc, s, k, g) /\ g \in Carried(doc[s].leaves)
          /\ k \in 1..doc[s].filled \/ k \in 1..doc[s].entries
          /\ g \notin Missing(cmd, doc[s].list) => Copies(cmd, doc, s, g)
    <3>1. \A s \in DOMAIN doc : \A g : Copies(cmd, doc, s, g) =>
            g \in Missing(cmd, doc[s].list) \/ g \in Carried(doc[s].leaves)
      BY <1>1, Carrying
    <3>2. \A s \in DOMAIN doc : Missing(cmd, doc[s].list) \subseteq Carried(doc[s].leaves)
      BY <1>1, Carrying
    <3> QED
      BY <1>1, <2>1, <3>1, <3>2, Carrying
  <2>3. PICK k, g :
          /\ f = Field(doc, s, k, g) /\ g \in Carried(doc[s].leaves)
          /\ k \in 1..doc[s].filled \/ k \in 1..doc[s].entries
          /\ g \notin Missing(cmd, doc[s].list) => Copies(cmd, doc, s, g)
    BY <2>2
  <2>4. f[1] = doc[s].list /\ f[3] = g
    BY <1>2, <2>3
  <2>5. CASE doc[s].entries = doc[s].filled
    <3>1. g \in Missing(cmd, doc[s].list)
      <4> SUFFICES ASSUME g \notin Missing(cmd, doc[s].list)
                   PROVE  FALSE
        OBVIOUS
      <4>1. k \in 1..doc[s].entries /\ k <= doc[s].filled /\ g \in Tags
        BY <1>1, <2>3, <2>5, Carrying
      <4> QED
        BY <1>4, <2>3, <4>1, Arrival
    <3>2. cmd # "SetUserCamManage"
      BY <3>1, NoneMissing
    <3> QED
      BY <2>4, <3>1, <3>2, GapsMissing
  <2>6. CASE doc[s].entries # doc[s].filled
    BY <1>1, <1>3, <2>3, <2>4, <2>6, Uneven
  <2> QED
    BY <2>5, <2>6
<1>5. ASSUME \A c \in DOMAIN args : args[c] > 0, cmd # "SetUserCamManage", NEW x \in Gaps
      PROVE  x \in Lost
  <2>1. PICK l, g : x = <<l, g>>
    BY <1>5 DEF Gaps
  <2>2. g \in Missing(cmd, l)
    BY <1>5, <2>1, GapsMissing
  <2>3. PICK s \in DOMAIN doc : doc[s].list = l
    <3>1. l = "flat" \/ \E i \in DOMAIN Sent[cmd].lists : Sent[cmd].lists[i].node = l
      BY <1>1, <2>2, Formats DEF Sending, WellMade
    <3> QED
      BY <1>1, <3>1 DEF Sending, Describes
  <2>4. 1 \in 1..doc[s].filled /\ doc[s].entries = doc[s].filled
    <3>1. doc[s].entries = doc[s].filled
      BY <1>1, <1>5, Uneven
    <3>2. CASE l = "flat"
      BY <1>1, <2>3, <3>1, <3>2
    <3>3. CASE l # "flat"
      <4>1. PICK i \in DOMAIN Sent[cmd].lists : doc[s].filled = args[Sent[cmd].lists[i].holds]
        BY <1>1, <2>3, <3>3 DEF Sending, Describes, Matches
      <4>2. args \in [Counters(Sent[cmd]) -> 0..MaxRows]
        BY <1>1 DEF Sending, Counts
      <4>3. Sent[cmd].lists[i].holds \in DOMAIN args
        BY <4>2 DEF Counters
      <4>4. args[Sent[cmd].lists[i].holds] > 0
        BY <1>5, <4>3
      <4>5. doc[s].filled \in Nat /\ doc[s].filled > 0
        BY <1>1, <4>1, <4>4
      <4> QED
        BY <3>1, <4>5
    <3> QED
      BY <3>2, <3>3
  <2>5. g \in Carried(doc[s].leaves) /\ g \in Tags
    BY <1>1, <2>2, <2>3, Carrying
  <2>6. Field(doc, s, 1, g) \in Filled
    BY <1>1, <2>4, <2>5, FilledFields
  <2>7. ~Arrives(Field(doc, s, 1, g))
    BY <2>2, <2>3, <2>4, <2>5, Arrival
  <2> QED
    BY <1>2, <2>1, <2>3, <2>6, <2>7 DEF Lost
<1>6. ASSUME cmd = "SetUserCamManage", NEW x \in Gaps
      PROVE  x \in Lost
  <2>1. x = <<"whiteUser", "id">> /\ args["camurl_Num"] # args["idurl_Num"]
    BY <1>3, <1>6
  <2>2. PICK s \in DOMAIN doc : /\ doc[s].list = "whiteUser" /\ Carried(doc[s].leaves) = {"id"}
                                /\ doc[s].entries # doc[s].filled
    <3>1. PICK i \in DOMAIN Sent[cmd].lists : LET l == Sent[cmd].lists[i] IN
            l.node = "whiteUser" /\ l.loops = "camurl_Num" /\ l.holds = "idurl_Num"
      BY <1>6, WhiteUsers
    <3>2. PICK s \in DOMAIN doc : doc[s].list = "whiteUser"
      BY <1>1, <3>1 DEF Sending, Describes
    <3>3. doc[s].entries = args["camurl_Num"] /\ doc[s].filled = args["idurl_Num"]
      <4>1. PICK j \in DOMAIN Sent[cmd].lists :
              LET l == Sent[cmd].lists[j] IN
              /\ l.node = "whiteUser"
              /\ doc[s].entries = args[l.loops] /\ doc[s].filled = args[l.holds]
        BY <1>1, <3>2 DEF Sending, Describes, Matches
      <4>2. i = j
        BY <1>1, <3>1, <4>1, Formats DEF Sending, WellMade
      <4> QED
        BY <3>1, <4>1, <4>2
    <3>4. doc[s].entries # doc[s].filled
      BY <2>1, <3>3
    <3>5. Carried(doc[s].leaves) = {"id"}
      BY <1>1, <3>4, Uneven
    <3> QED
      BY <3>2, <3>4, <3>5
  <2>3. "id" \in Tags /\ Missing(cmd, doc[s].list) = {}
    BY <1>6, NoneMissing DEF Tags
  <2>4. Copies(cmd, doc, s, "id")
    BY <1>1, <2>2, <2>3, Carrying
  <2>5. CASE doc[s].entries < doc[s].filled
    <3> DEFINE k == doc[s].entries + 1
    <3>1. k \in 1..doc[s].filled /\ k \notin 1..doc[s].entries
      BY <1>1, <2>5
    <3> HIDE DEF k
    <3>2. Field(doc, s, k, "id") \in Filled
      BY <1>1, <2>2, <3>1, FilledFields
    <3>3. ~Arrives(Field(doc, s, k, "id"))
      BY <2>2, <3>1, NoSuchEntry
    <3> QED
      BY <1>2, <2>1, <2>2, <3>2, <3>3 DEF Lost
  <2>6. CASE doc[s].entries > doc[s].filled
    <3> DEFINE k == doc[s].entries
    <3>1. k \in 1..doc[s].entries /\ k > doc[s].filled
      BY <1>1, <2>6
    <3> HIDE DEF k
    <3>2. Field(doc, s, k, "id") \in DOMAIN out /\ ~Arrives(Field(doc, s, k, "id"))
      BY <2>3, <2>4, <3>1, Arrival
    <3>3. Field(doc, s, k, "id") \in Written
      BY <2>2, <3>2 DEF Written, Counted, Field
    <3> QED
      BY <1>2, <2>1, <2>2, <3>2, <3>3 DEF Lost
  <2> QED
    BY <1>1, <2>2, <2>5, <2>6
<1>7. Lost \subseteq Gaps
  BY <1>4 DEF Lost
<1>8. (\A c \in DOMAIN args : args[c] > 0) => Gaps \subseteq Lost
  BY <1>5, <1>6
<1> QED
  BY <1>7, <1>8

\* In either document order every field of the sender's struct is in the callback's,
\* at its index and with its own text, but for the fields Gaps names, which are lost
\* from every message whose lists have entries (FieldsArrive; XML_Parse.h:190-240).
THEOREM FieldsCarried == Spec => []FieldsArrive
BY ReadersKeepTrack, FieldsArriveFollows, PTL
=============================================================================
