-------------------------- MODULE CommandExchange --------------------------
(***************************************************************************)
(* One command's way from the struct its sender is called with to the      *)
(* struct the other node's callback is called with: the sender builds the  *)
(* XML body, DealMessage finds the parsing method, the method walks the    *)
(* nodes in document order and copies their texts, and the callback that   *)
(* main registered is called.  Each node, the end of each entry and the    *)
(* end of each list is one step.                                           *)
(*                                                                         *)
(* A value is the tuple of the fields its text was printed from; a field   *)
(* is <<list, index, name>>, with "flat" and 0 outside a list.  The        *)
(* parser's struct starts uninitialised: fields not in out hold garbage.   *)
(* A text printed from an entry the caller did not fill is Garbage.        *)
(***************************************************************************)
EXTENDS AreaCommands, CoreCommands

CONSTANTS
  MaxRows,  \* bound: entries a caller puts into a list (the arrays hold 101)
  Orders    \* document orders: the sender's, "sent", and "reversed"

ASSUME MaxRowsAssumption == MaxRows \in Nat \ {0}
ASSUME OrdersAssumption  == Orders \subseteq {"sent", "reversed"}

VARIABLES
  cmd,      \* the command under way
  args,     \* the counters of the caller's struct
  doc,      \* the message's body: its sections in document order
  at,       \* the parser's node, URL and leaf pointers, as positions in doc
  index,    \* the parser's i and j, per list node
  out,      \* the parser's struct
  phase,    \* "idle", "parsing", "called" or "dead"
  callback  \* the callback called

vars == <<cmd, args, doc, at, index, out, phase, callback>>

-----------------------------------------------------------------------------
(* The tables of the two programs.                                         *)

AreaSends == [
  MURegister |-> Send_MURegister, ResReport |-> Send_ResReport, ResChange |-> Send_ResChange,
  MUKeepAlive |-> Send_MUKeepAlive, ReportCamResState |-> Send_ReportCamResState,
  UserResReport |-> Send_UserResReport, UserResChange |-> Send_UserResChange,
  AlarmResListReport |-> Send_AlarmResListReport,
  AlarmResListChange |-> Send_AlarmResListChange, ReportAlarmRes |-> Send_ReportAlarmRes]

CoreSends == [
  QueryHistoryFiles |-> Send_QueryHistoryFiles, StartMediaReq |-> Send_StartMediaReq,
  StopMediaReq |-> Send_StopMediaReq, StartPlayBack |-> Send_StartPlayBack,
  ControlFileBack |-> Send_ControlFileBack, StartHisLoad |-> Send_StartHisLoad,
  ReqCamResState |-> Send_ReqCamResState, GetUserCurState |-> Send_GetUserCurState,
  SetUserCamManage |-> Send_SetUserCamManage, AlarmResSubscribe |-> Send_AlarmResSubscribe,
  QueryAlarmRes |-> Send_QueryAlarmRes, ReportAlarmInfo |-> Send_ReportAlarmInfo,
  ControlPTZ |-> Send_ControlPTZ, ResTransOrder |-> Send_ResTransOrder,
  ResChangeOrder |-> Send_ResChangeOrder,
  INFO |-> Send_INFO, HisInfo |-> Send_HisInfo, HisLoadInfo |-> Send_HisLoadInfo]

Sent == Over(AreaSends, CoreSends)

\* My_connec's table: the commands the Core Node can parse.
CoreHandlers == [
  MURegister |-> Parse_MURegister, ResReport |-> Parse_ResReport, ResChange |-> Parse_ResChange,
  MUKeepAlive |-> Parse_MUKeepAlive, ReportCamResState |-> Parse_ReportCamResState,
  UserResReport |-> Parse_UserResReport, UserResChange |-> Parse_UserResChange,
  AlarmResListReport |-> Parse_AlarmResListReport,
  AlarmResListChange |-> Parse_AlarmResListChange, ReportAlarmRes |-> Parse_ReportAlarmRes]

\* TCP_Client's table: the commands an Area Node can parse.
AreaHandlers == [
  QueryHistoryFiles |-> Parse_QueryHistoryFiles, StartMediaReq |-> Parse_StartMediaReq,
  StopMediaReq |-> Parse_StopMediaReq, StartPlayBack |-> Parse_StartPlayBack,
  ControlFileBack |-> Parse_ControlFileBack, StartHisLoad |-> Parse_StartHisLoad,
  ReqCamResState |-> Parse_ReqCamResState, GetUserCurState |-> Parse_GetUserCurState,
  SetUserCamManage |-> Parse_SetUserCamManage, AlarmResSubscribe |-> Parse_AlarmResSubscribe,
  QueryAlarmRes |-> Parse_QueryAlarmRes, ReportAlarmInfo |-> Parse_ReportAlarmInfo,
  ControlPTZ |-> Parse_ControlPTZ, ResTransOrder |-> Parse_ResTransOrder,
  ResChangeOrder |-> Parse_ResChangeOrder,
  INFO |-> Parse_INFO, HisInfo |-> Parse_HisInfo, HisLoadInfo |-> Parse_HisLoadInfo]

Handlers(c) == IF c \in DOMAIN AreaSends THEN CoreHandlers ELSE AreaHandlers

\* The callbacks the two mains register; StartHisLoad's entry stays NULL.
CoreCallbacks == DOMAIN CoreHandlers
AreaCallbacks == DOMAIN AreaHandlers \ {"StartHisLoad"}
Callbacks(c)  == IF c \in DOMAIN AreaSends THEN CoreCallbacks ELSE AreaCallbacks

\* The entry each parsing method calls: its own, but StartHisLoad's is that of
\* StartPlayBack.  Mutant: its own in every case.
CallbackOf_own(c) == c
CallbackOf(c) == IF c = "StartHisLoad" THEN "StartPlayBack" ELSE c

-----------------------------------------------------------------------------
(* The XML document.                                                       *)

Ordered(s, order) == IF order = "sent" THEN s ELSE Reverse(s)

\* A list's node with its entries, which all have the same leaves; or, with list
\* "flat", the leaves that are parameters of their own, as a single entry.
Section(list, entries, filled, pairs, order) ==
  [list |-> list, entries |-> entries, filled |-> filled, leaves |-> Ordered(pairs, order)]

\* The number a field of entry e is known by.
Row(list, e) == IF list = "flat" THEN 0 ELSE e

Garbage == << >>
Text(section, e, fields) ==
  IF e > section.filled THEN Garbage
  ELSE [j \in DOMAIN fields |-> <<section.list, Row(section.list, e), fields[j]>>]

Document(send, counts, order) ==
  LET flat  == << Section("flat", 1, 1, send.flat, order) >>
      lists == [i \in DOMAIN send.lists |->
                  LET l == send.lists[i]
                  IN  Section(l.node, counts[l.loops], counts[l.holds], l.row, order)]
  IN IF order = "sent" THEN flat \o lists ELSE lists \o flat

Counters(send) ==
  UNION {{send.lists[i].loops, send.lists[i].holds} : i \in DOMAIN send.lists}

Counts(send) ==
  {counts \in [Counters(send) -> 0..MaxRows] : "one" \in Counters(send) => counts["one"] = 1}

-----------------------------------------------------------------------------
Nothing == [k \in {} |-> << >>]
Start == [section |-> 1, entry |-> 1, leaf |-> 1]

Init ==
  /\ cmd = "none" /\ args = Nothing /\ doc = << >> /\ at = Start /\ index = Nothing /\ out = Nothing
  /\ phase = "idle" /\ callback = "none"

\* A sender is called and its message arrives; DealMessage looks the command
\* up, and dereferences NULL when it was not registered.
Call(c) ==
  /\ phase = "idle"
  /\ \E counts \in Counts(Sent[c]), order \in Orders :
       /\ cmd' = c
       /\ args' = counts
       /\ doc' = Document(Sent[c], counts, order)
  /\ index' = [l \in {Sent[c].lists[i].node : i \in DOMAIN Sent[c].lists} |-> 0]
  /\ at' = Start /\ out' = Nothing
  /\ phase' = IF c \in DOMAIN Handlers(c) THEN "parsing" ELSE "dead"
  /\ UNCHANGED callback

Reader == Handlers(cmd)[cmd]
RowReader(list) == IF list = "flat" THEN Reader.flat ELSE ListReader(Reader, list).row

Here      == doc[at.section]
InSection == phase = "parsing" /\ at.section <= Len(doc)
InEntry   == InSection /\ at.entry <= Here.entries

\* One node: strcpy or atoi of the text taken for it into every field its
\* branch names, which the text is taken to fit.
ParseNode ==
  /\ InEntry /\ at.leaf <= Len(Here.leaves)
  /\ LET leaf   == Taken(ListReader(Reader, Here.list), Here.leaves)[at.leaf]
         fields == Targets(RowReader(Here.list), leaf[1])
         k      == IF Here.list = "flat" THEN 0 ELSE index[Here.list] + 1
         copied == [f \in {<<Here.list, k, g>> : g \in fields} |-> Text(Here, at.entry, leaf[2])]
     IN out' = Over(copied, out)
  /\ at' = [at EXCEPT !.leaf = @ + 1]
  /\ UNCHANGED <<cmd, args, doc, index, phase, callback>>

\* The parser's i moves on with each entry of a list.  Mutants: it is not
\* incremented, or twice.
Counting_stuck(list) == index
Counting_twice(list) == IF list = "flat" THEN index ELSE [index EXCEPT ![list] = @ + 2]
Counting(list)       == IF list = "flat" THEN index ELSE [index EXCEPT ![list] = @ + 1]

NextEntry ==
  /\ InEntry /\ at.leaf > Len(Here.leaves)
  /\ index' = Counting(Here.list)
  /\ at' = [at EXCEPT !.entry = @ + 1, !.leaf = 1]
  /\ UNCHANGED <<cmd, args, doc, out, phase, callback>>

\* The list is finished: urlNum = i, in the methods that set it.
EndList ==
  /\ InSection /\ at.entry > Here.entries
  /\ LET list == Here.list  counter == ListReader(Reader, list).counter IN
       out' = IF counter = Uncounted THEN out
              ELSE Over([f \in {<<"flat", 0, counter>>} |-> <<index[list]>>], out)
  /\ at' = [Start EXCEPT !.section = at.section + 1]
  /\ UNCHANGED <<cmd, args, doc, index, phase, callback>>

\* pcb_FunMap's entry is called; an entry main did not set is NULL.
CallBack ==
  /\ phase = "parsing" /\ at.section > Len(doc)
  /\ callback' = CallbackOf(cmd)
  /\ phase' = IF callback' \in Callbacks(cmd) THEN "called" ELSE "dead"
  /\ UNCHANGED <<cmd, args, doc, at, index, out>>

\* The reply is built and sent, and the node waits for the next command.
Replied ==
  /\ phase = "called"
  /\ cmd' = "none" /\ args' = Nothing /\ doc' = << >> /\ at' = Start
  /\ index' = Nothing /\ out' = Nothing /\ phase' = "idle" /\ callback' = "none"

Next ==
  \/ \E c \in DOMAIN Sent : Call(c)
  \/ ParseNode \/ NextEntry \/ EndList \/ CallBack \/ Replied

Spec == Init /\ [][Next]_vars

-----------------------------------------------------------------------------
Lists == {"group", "whiteUser", "resources"}

\* The fields of its list's arrays, or of the struct, that the method copies to.
Struct(list) == UNION Range(RowReader(list))

\* Every field written is one of the struct's, or of an entry of one of its
\* lists' arrays; and an index stays within what a caller can have put into one.
TypeOK ==
  /\ cmd \in DOMAIN Sent \cup {"none"}
  /\ phase \in {"idle", "parsing", "called", "dead"}
  /\ DOMAIN index \subseteq Lists
  /\ \A l \in DOMAIN index : index[l] \in 0..MaxRows
  /\ \A f \in DOMAIN out :
       \/ f \in {"flat"} \X {0} \X (Struct("flat") \cup {"urlNum"})
       \/ \E l \in DOMAIN index : f \in {l} \X (1..MaxRows) \X Struct(l)

\* The fields the caller filled.
Filled ==
  {<<"flat", 0, f>> : f \in UNION {Range(Sent[cmd].flat[i][2]) : i \in DOMAIN Sent[cmd].flat}}
  \cup UNION {
    LET list == Sent[cmd].lists[i] IN
      {<<list.node, k, f>> :
         k \in 1..args[list.holds],
         f \in UNION {Range(list.row[j][2]) : j \in DOMAIN list.row}} :
    i \in DOMAIN Sent[cmd].lists}

\* What is known not to arrive: a tag the parser does not test, a field a
\* later branch overwrites, a list whose whole text is copied for each of its
\* nodes, and the second list of a sender that counts the first.  The pairs
\* are <<list, field>>.
Gaps ==
  CASE cmd = "MURegister"       -> {<<"flat", "manufacturerld">>}
    [] cmd = "ReportAlarmRes"   -> {<<"group", "description">>, <<"group", "rtUrl.resId">>,
                                    <<"group", "rtUrl.time">>}
    [] cmd = "ControlFileBack"  -> {<<"flat", "sessionId">>, <<"flat", "param">>}
    [] cmd = "ReportAlarmInfo"  -> {<<"group", "type">>}
    [] cmd \in {"ResTransOrder", "ResChangeOrder"} -> {"resources"} \X Resource
    [] cmd = "SetUserCamManage" -> IF args["camurl_Num"] = args["idurl_Num"] THEN {}
                                   ELSE {<<"whiteUser", "id">>}
    [] OTHER -> {}

Counted == {<<"flat", 0, "urlNum">>}
Written == DOMAIN out \ Counted
Arrives(f) == f \in DOMAIN out /\ out[f] = <<f>>
Lost == {<<f[1], f[3]>> : f \in {g \in Filled \cup Written : ~Arrives(g)}}

\* In whatever order the nodes come, a callback's struct holds every field the
\* sender's struct held, at its index, and no field of another's text; the
\* exceptions are those of Gaps, which do get lost once every list has entries.
FieldsArrive ==
  phase = "called" =>
    /\ Lost \subseteq Gaps
    /\ (\A c \in DOMAIN args : args[c] > 0) => Lost = Gaps

\* The methods that read a group's entries and never set the struct's counter.
Uncounting == {"ResReport", "ReportCamResState", "UserResReport", "UserResChange",
               "ReqCamResState", "SetUserCamManage"}

\* The callback of a command with a group is told how many entries there are,
\* as many as the caller filled, unless the method is one of Uncounting.
CountsAgree ==
  (phase = "called" /\ "group" \in DOMAIN index /\ cmd \notin Uncounting) =>
    /\ Counted \subseteq DOMAIN out
    /\ out[<<"flat", 0, "urlNum">>] = <<args["urlNum"]>>

\* No command a sender sends finds a NULL parser or a NULL callback.
EveryCommandServed == phase # "dead"

\* Area_Node's XML_Parse.h:570 and :605, "extract the request's parameters into
\* this struct", "get sessionId node": every field the sender put in arrives.
EveryFieldArrives == phase = "called" => \A f \in Filled : Arrives(f)

=============================================================================
