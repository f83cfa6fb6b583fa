---------------------------- MODULE RpcExchange ----------------------------
(***************************************************************************)
(* One call's way from the client that builds it to the handler that       *)
(* xmlrpcserver registered, and its answer's way back: the call is written *)
(* as XML, the server's parser reads the parameters, the dispatcher finds  *)
(* the method by name and signature, the handler's answer is written and   *)
(* the client's parser reads it.  A caller may leave parameters out, or    *)
(* fill them with empty strings.                                           *)
(*                                                                         *)
(* A form is a way of calling a command: ReportAlarmRes, ReportCamResState *)
(* and QueryAlarmRes have two, of interface A (a client's calls) and of    *)
(* interface B (an area node's), under one name.                           *)
(***************************************************************************)
EXTENDS RpcCalls

CONSTANTS
  MaxItems,  \* bound: items a caller puts into each list
  MaxGaps    \* bound: parameters a caller leaves out or empty

ASSUME MaxItemsAssumption == MaxItems \in Nat
ASSUME MaxGapsAssumption  == MaxGaps \in Nat

VARIABLES
  form,    \* the form of the call under way
  gaps,    \* its parameters that are missing, and those that are empty
  sent,    \* the values the caller built
  params,  \* the parameters the server's parser read
  handler, \* the method called
  answer,  \* the values of the handler's answer
  result,  \* what the client's parser made of it
  phase    \* "idle", "sent", "parsed", "answered", "faulted", "returned", "refused", "threw", "terminated"

vars == <<form, gaps, sent, params, handler, answer, result, phase>>

-----------------------------------------------------------------------------
(* The tables of the parsers, and of xmlrpcserver's main.                  *)

Required == [
  CuRegister |-> Parse_CuRegister, CuKeepAlive |-> Parse_CuKeepAlive,
  GetDepResList |-> Parse_GetDepResList, GetVideoResList |-> Parse_GetVideoResList,
  GetAlarmResList |-> Parse_GetAlarmResList, QueryAlarmInfo |-> Parse_QueryAlarmInfo,
  AlarmHisQuery |-> Parse_AlarmHisQuery, PTZCtrl |-> Parse_PTZCtrl,
  PlayQuery |-> Parse_PlayQuery, PlayOpen |-> Parse_PlayOpen, PlayStart |-> Parse_PlayStart,
  HisPlayOpen |-> Parse_HisPlayOpen, HisPlayStart |-> Parse_HisPlayStart,
  HisLoadOpen |-> Parse_HisLoadOpen, HisLoadStart |-> Parse_HisLoadStart,
  PlayClose |-> Parse_PlayClose, PlayCtrl |-> Parse_PlayCtrl, MUKeepAlive |-> Parse_MUKeepAlive]

Unserved == [
  MURegister |-> Parse_MURegister, ResReport |-> Parse_ResReport, ResChange |-> Parse_ResChange,
  UserResReport |-> Parse_UserResReport, UserResChange |-> Parse_UserResChange,
  AlarmResListReport |-> Parse_AlarmResListReport,
  AlarmResListChange |-> Parse_AlarmResListChange,
  QueryHistoryFiles |-> Parse_QueryHistoryFiles, StartMediaReq |-> Parse_StartMediaReq,
  INFO |-> Parse_INFO, StopMediaReq |-> Parse_StopMediaReq,
  StartPlayBack |-> Parse_StartPlayBack, HisInfo |-> Parse_HisInfo,
  ControlFileBack |-> Parse_ControlFileBack, StartHisLoad |-> Parse_StartHisLoad,
  HisLoadInfo |-> Parse_HisLoadInfo, ReqCamResState |-> Parse_ReqCamResState,
  GetUserCurState |-> Parse_GetUserCurState, SetUserCamManage |-> Parse_SetUserCamManage,
  AlarmResSubscribe |-> Parse_AlarmResSubscribe, ReportAlarmInfo |-> Parse_ReportAlarmInfo,
  ControlPTZ |-> Parse_ControlPTZ, ResTransOrder |-> Parse_ResTransOrder,
  ResChangeOrder |-> Parse_ResChangeOrder]

\* The parameters a command's parser reads; a command it does not know is taken
\* for the first.
Wanted(cmd, kids) ==
  CASE cmd = "ReportAlarmRes"    -> Parse_ReportAlarmRes(kids)
    [] cmd = "QueryAlarmRes"     -> Parse_QueryAlarmRes(kids)
    [] cmd \in {"ReportCamResState", "GetCamResState"} -> Parse_ReportCamResState(kids)
    [] cmd \in DOMAIN Required   -> Required[cmd]
    [] cmd \in DOMAIN Unserved   -> Unserved[cmd]
    [] OTHER                     -> Parse_CuRegister

Parse(cmd, kids) == All(ReadAll(kids, Wanted(cmd, kids)))

S(n) == [i \in 1..n |-> "string"]
N(n) == [i \in 1..n |-> "int"]
A == << "array" >>
Method(name, signature, h) == [name |-> name, signature |-> signature, handler |-> h]

\* The methods added to the dispatcher.
Methods == {
  Method("CuRegister", S(5), "CuRegister"), Method("CuKeepAlive", S(1), "CuKeepAlive"),
  Method("GetDepResList", S(2), "GetDepResList"),
  Method("GetVideoResList", S(3), "GetVideoResList"),
  Method("GetAlarmResList", S(2), "GetAlarmResList"),
  Method("QueryAlarmInfo", S(2) \o N(1) \o A, "QueryAlarmInfo"),
  Method("AlarmHisQuery", S(4) \o N(1) \o << "struct" >>, "AlarmHisQuery"),
  Method("PTZCtrl", S(5) \o N(1), "PTZCtrl"),
  Method("PlayQuery", S(3) \o N(1) \o << "struct" >>, "PlayQuery"),
  Method("PlayOpen", S(3) \o N(2) \o S(2), "PlayOpen"),
  Method("PlayStart", S(4), "PlayStart"),
  Method("HisPlayOpen", S(5) \o N(1) \o S(2) \o N(1), "HisPlayOpen"),
  Method("HisPlayStart", S(4), "HisPlayStart"),
  Method("HisLoadOpen", S(5) \o N(1) \o S(2) \o N(1), "HisLoadOpen"),
  Method("HisLoadStart", S(4), "HisLoadStart"),
  Method("PlayClose", S(3) \o N(1) \o S(1), "PlayClose"),
  Method("PlayCtrl", S(5) \o N(1), "PlayCtrl"),
  Method("ReportAlarmRes", A, "ReportAlarmRes_A"),
  Method("ReportCamResState", A, "ReportCamResState_A"),
  Method("ReportAlarmRes", S(2) \o A, "ReportAlarmRes_B"),
  Method("ReportCamResState", S(1) \o A, "ReportCamResState_B"),
  Method("QueryAlarmRes", S(2) \o A, "QueryAlarmRes_B"),
  Method("MUKeepAlive", S(1), "MUKeepAlive")}

Handlers == [
  CuRegister |-> Answer_CuRegister, CuKeepAlive |-> Answer_CuKeepAlive,
  GetDepResList |-> Answer_GetDepResList, GetVideoResList |-> Answer_GetVideoResList,
  GetAlarmResList |-> Answer_GetAlarmResList, QueryAlarmInfo |-> Answer_QueryAlarmInfo,
  AlarmHisQuery |-> Answer_AlarmHisQuery, PTZCtrl |-> Answer_PTZCtrl,
  PlayQuery |-> Answer_PlayQuery, PlayOpen |-> Answer_PlayOpen, PlayStart |-> Answer_PlayStart,
  HisPlayOpen |-> Answer_HisPlayOpen, HisPlayStart |-> Answer_HisPlayStart,
  HisLoadOpen |-> Answer_HisLoadOpen, HisLoadStart |-> Answer_HisLoadStart,
  PlayClose |-> Answer_PlayClose, PlayCtrl |-> Answer_PlayCtrl,
  ReportAlarmRes_A |-> Answer_ReportAlarmRes_A,
  ReportCamResState_A |-> Answer_ReportCamResState_A,
  ReportAlarmRes_B |-> Answer_ReportAlarmRes_B,
  ReportCamResState_B |-> Answer_ReportCamResState_B,
  QueryAlarmRes_B |-> Answer_QueryAlarmRes_B, MUKeepAlive |-> Answer_MUKeepAlive]

\* The method a call's name and signature find.  Mutant: its name alone does.
dispatchCallLoc_name(cmd, signature) ==
  LET found == {m \in Methods : m.name = cmd}
  IN IF found = {} THEN "none" ELSE (CHOOSE m \in found : TRUE).handler
dispatchCallLoc(cmd, signature) ==
  LET found == {m \in Methods : m.name = cmd /\ m.signature = signature}
  IN IF found = {} THEN "none" ELSE (CHOOSE m \in found : TRUE).handler

\* The client's table.  Two commands are read by the methods of others.
Results == [
  CuRegister |-> Result_CuRegister, CuKeepAlive |-> Result_CuKeepAlive,
  GetDepResList |-> Result_GetDepResList, GetVideoResList |-> Result_GetVideoResList,
  GetAlarmResList |-> Result_GetAlarmResList, QueryAlarmInfo |-> Result_QueryAlarmInfo,
  AlarmHisQuery |-> Result_AlarmHisQuery, PTZCtrl |-> Result_PTZCtrl,
  PlayQuery |-> Result_PlayQuery, PlayOpen |-> Result_PlayOpen, PlayStart |-> Result_PlayStart,
  HisPlayOpen |-> Result_HisPlayOpen, HisPlayStart |-> Result_HisPlayOpen,
  HisLoadOpen |-> Result_HisLoadOpen, HisLoadStart |-> Result_HisLoadStart,
  PlayClose |-> Result_PlayClose, PlayCtrl |-> Result_PlayClose,
  ReportAlarmRes |-> Result_ReportAlarmRes, ReportCamResState |-> Result_ReportCamResState]

ResultOf(cmd, kids) == IF cmd = "QueryAlarmRes" THEN Result_QueryAlarmRes(kids) ELSE Results[cmd]

-----------------------------------------------------------------------------
(* The callers.  The commands without a handler, which no program of the   *)
(* repository calls this way, are called with what their parsers look for; *)
(* and one call is of a command the parser does not know.                  *)

Clients == [
  CuRegister |-> Call_CuRegister, CuKeepAlive |-> Call_CuKeepAlive,
  GetDepResList |-> Call_GetDepResList, GetVideoResList |-> Call_GetVideoResList,
  GetAlarmResList |-> Call_GetAlarmResList, QueryAlarmInfo |-> Call_QueryAlarmInfo,
  AlarmHisQuery |-> Call_AlarmHisQuery, PTZCtrl |-> Call_PTZCtrl,
  PlayQuery |-> Call_PlayQuery, PlayOpen |-> Call_PlayOpen, PlayStart |-> Call_PlayStart,
  HisPlayOpen |-> Call_HisPlayOpen, HisPlayStart |-> Call_HisPlayStart,
  HisLoadOpen |-> Call_HisLoadOpen, HisLoadStart |-> Call_HisLoadStart,
  PlayClose |-> Call_PlayClose, PlayCtrl |-> Call_PlayCtrl,
  ReportAlarmRes_A |-> Call_ReportAlarmRes_A,
  ReportCamResState_A |-> Call_ReportCamResState_A, QueryAlarmRes_A |-> Call_QueryAlarmRes_A,
  ReportAlarmRes_B |-> Call_ReportAlarmRes_B,
  ReportCamResState_B |-> Call_ReportCamResState_B, QueryAlarmRes_B |-> Call_QueryAlarmRes_B,
  MUKeepAlive |-> Call_MUKeepAlive]

Calls ==
  [f \in DOMAIN Clients \cup DOMAIN Unserved \cup {"listMethods"} |->
     IF f \in DOMAIN Clients THEN Clients[f]
     ELSE IF f \in DOMAIN Unserved THEN Unserved[f] ELSE << >>]

NameOf(f) ==
  CASE f \in {"ReportAlarmRes_A", "ReportAlarmRes_B"}       -> "ReportAlarmRes"
    [] f \in {"ReportCamResState_A", "ReportCamResState_B"} -> "ReportCamResState"
    [] f \in {"QueryAlarmRes_A", "QueryAlarmRes_B"}         -> "QueryAlarmRes"
    [] OTHER -> f

NoGaps == [missing |-> {}, empty |-> {}]

\* Parameters left out, and strings left empty.
GapsOf(shapes) ==
  {[missing |-> m, empty |-> e] :
     m \in {x \in SUBSET DOMAIN shapes : Cardinality(x) <= MaxGaps},
     e \in {x \in SUBSET {i \in DOMAIN shapes : shapes[i].type = "string"} :
              Cardinality(x) <= MaxGaps}}

Allowed(g) == g.missing \cap g.empty = {} /\ Cardinality(g.missing \cup g.empty) <= MaxGaps

Emptied(v) == [v EXCEPT !.text = NoText]

Built(shapes, g, n) ==
  [i \in DOMAIN shapes |->
     IF i \in g.empty THEN Emptied(Fill(shapes[i], n)) ELSE Fill(shapes[i], n)]
Build(shapes, g, n) == Only(Built(shapes, g, n), DOMAIN shapes \ g.missing)

-----------------------------------------------------------------------------
Xml(values) == [i \in DOMAIN values |-> getXml(values[i])]
NoResult == [name |-> "none", values |-> << >>]

Init ==
  /\ form = "none" /\ gaps = NoGaps /\ sent = << >> /\ params = << >>
  /\ handler = "uncalled" /\ answer = << >> /\ result = NoResult /\ phase = "idle"

Call(f) ==
  /\ phase = "idle"
  /\ form' = f
  /\ \E g \in GapsOf(Calls[f]), n \in 0..MaxItems :
       /\ Allowed(g)
       /\ gaps' = g /\ sent' = Build(Calls[f], g, n)
  /\ phase' = "sent"
  /\ UNCHANGED <<params, handler, answer, result>>

\* waitForCall throws XmlException when the parser returns 0, and main does
\* not catch it.
waitForCall ==
  /\ phase = "sent"
  /\ LET read == Parse(NameOf(form), Xml(sent)) IN
       IF read = Rejected THEN phase' = "terminated" /\ UNCHANGED params
       ELSE phase' = "parsed" /\ params' = read
  /\ UNCHANGED <<form, gaps, sent, handler, answer, result>>

\* An unknown method is answered with a fault.
dispatchCall ==
  /\ phase = "parsed"
  /\ handler' = dispatchCallLoc(NameOf(form), getSignature(params))
  /\ LET a == IF handler' = "none" THEN Fault ELSE Handlers[handler'] IN
       /\ answer' = [i \in DOMAIN a.shapes |-> Fill(a.shapes[i], a.items)]
       /\ phase' = IF a.fault THEN "faulted" ELSE "answered"
  /\ UNCHANGED <<form, gaps, sent, params, result>>

\* A fault's XML lacks the end tag of its result.  The parser has no error
\* handler: it gives what it read so far, whose code and text refuse the call,
\* or it throws.
waitForFault ==
  /\ phase = "faulted"
  /\ phase' \in {"refused", "threw"}
  /\ UNCHANGED <<form, gaps, sent, params, handler, answer, result>>

\* Without a value there is no parameters node: ReportAlarmRes's parser, the
\* only one that is given none, makes nothing of it.
waitForResponse ==
  /\ phase = "answered"
  /\ LET kids == Xml(answer)
         to   == ResultOf(NameOf(form), kids)
     IN result' = [name |-> to.name,
                   values |-> IF kids = << >> THEN << >> ELSE ReadAll(kids, to.shapes)]
  /\ phase' = "returned"
  /\ UNCHANGED <<form, gaps, sent, params, handler, answer>>

\* The server closes the connection and waits for the next call.
CloseAndWait ==
  /\ phase \in {"returned", "refused", "threw"}
  /\ form' = "none" /\ gaps' = NoGaps /\ sent' = << >> /\ params' = << >>
  /\ handler' = "uncalled" /\ answer' = << >> /\ result' = NoResult /\ phase' = "idle"

Next ==
  \/ \E f \in DOMAIN Calls : Call(f)
  \/ waitForCall \/ dispatchCall \/ waitForFault \/ waitForResponse \/ CloseAndWait

Spec == Init /\ [][Next]_vars

-----------------------------------------------------------------------------
Phases == {"idle", "sent", "parsed", "answered", "faulted", "returned", "refused", "threw",
           "terminated"}

\* The parameters a handler is called with, and a signature is made of, are
\* values and never void, whatever the caller left out.
TypeOK ==
  /\ phase \in Phases
  /\ form \in DOMAIN Calls \cup {"none"}
  /\ \A i \in DOMAIN params : params[i].type \in {"string", "int", "array", "struct"}
  /\ handler \in DOMAIN Handlers \cup {"uncalled", "none"}

-----------------------------------------------------------------------------
Names(values) == [i \in DOMAIN values |-> values[i].name]
Filled(values) == {p[2] : p \in TextsOf(values)}
Lost(from, to) == {p[2] : p \in {q \in Filled(from) : <<q, q>> \notin TextsOf(to)}}
Astray(to) == {p \in TextsOf(to) : p[1] # p[2]}

\* Parameter i was left out or empty.
Void_at(i) == i \in gaps.missing \cup gaps.empty
Complete == gaps = NoGaps

\* A call of interface B that the parser takes for one of interface A.
TakenForA ==
  \/ form = "ReportAlarmRes_B" /\ Void_at(1) /\ Void_at(2)
  \/ form = "ReportCamResState_B" /\ Void_at(1)

\* Fields of a call that the server's parser does not look for.
Unread ==
  CASE form = "AlarmHisQuery"    -> {"startTime"}
    [] form = "ReportAlarmRes_A" -> {"endTime"}
    [] form = "QueryAlarmRes_A"  -> {"state"}
    [] form = "ReportAlarmRes_B" /\ TakenForA -> {"endTime", "alarmHisRecord", "resId", "time"}
    [] OTHER -> {}

HasItems == \A i \in DOMAIN sent : sent[i].type = "array" => sent[i].kids # << >>

\* A call that is parsed has lost no text the caller filled, at any index of
\* any list, nor put one in another's place, but for the fields of Unread, which
\* do get lost; and a complete call's parameters keep the order that their
\* signature is made of.
CallArrives ==
  phase = "parsed" =>
    /\ Astray(params) = {}
    /\ Lost(sent, params) \subseteq Unread
    /\ Complete /\ HasItems => Lost(sent, params) = Unread
    /\ Complete => Names(params) = Names(sent)

\* A call reaches the handler of its own form, or none when its command has
\* none.  The exceptions: the handler of QueryAlarmRes's interface A is compiled
\* out and interface B's has its signature; and calls taken for interface A.
OwnHandler ==
  handler # "uncalled" =>
    CASE form = "QueryAlarmRes_A" -> handler = "QueryAlarmRes_B"
      [] TakenForA                -> handler = (IF form = "ReportAlarmRes_B"
                                                THEN "ReportAlarmRes_A" ELSE "ReportCamResState_A")
      [] OTHER -> handler = (IF form \in DOMAIN Handlers THEN form ELSE "none")

\* Fields of an answer that the client's parser does not look for.
Unasked ==
  CASE form = "AlarmHisQuery" -> {"description"}
    [] form = "PlayQuery"     -> {"resId"}
    [] OTHER -> {}

\* The name a response has when it is not its command's.
Misnamed == [HisPlayStart |-> "HisPlayOpen", PlayCtrl |-> "PlayClose",
             CuKeepAlive |-> "keepAlivePeriod"]

\* What a handler answers reaches the caller: every text of it in its place,
\* but for those of Unasked, and under the command's name, but for Misnamed.
AnswerArrives ==
  phase = "returned" =>
    /\ Astray(result.values) = {}
    /\ Lost(answer, result.values) = Unasked
    /\ result.name = IF form \in DOMAIN Misnamed THEN Misnamed[form] ELSE NameOf(form)

\* No complete call of a command the parser knows terminates the server,
\* however many items its lists have, none included.
OnlyGapsTerminate == phase = "terminated" => ~Complete \/ form = "listMethods"

=============================================================================
