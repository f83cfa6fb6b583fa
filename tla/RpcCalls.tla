------------------------------ MODULE RpcCalls ------------------------------
(***************************************************************************)
(* The commands of libxmlrpc's parsers: the parameters a program puts into *)
(* a call (Call_X), those the server's parser looks for (Parse_X), what a  *)
(* handler answers (Answer_X) and what the client's parser looks for in it *)
(* (Result_X).                                                             *)
(***************************************************************************)
EXTENDS RpcValues

User == Strs(<<"cuId", "cuUserId">>)
Span == Strs(<<"startTime", "endTime">>)
Session == Strs(<<"sessionId">>)
Packets == Nums(<<"totalPkt", "pktNum">>)
Totals == Nums(<<"totalNumber", "currentNumber">>)
Opened == Strs(<<"cuId", "resId", "sessionId", "tcpIp", "tcpPort">>)
Target == Strs(<<"targetIpAddr", "targetPort">>)
Url == << Struct("url", Strs(<<"resId", "time">>)) >>
Group(fields) == << List("group", fields) >>

-----------------------------------------------------------------------------
(* xmlrpcclient.cpp.                                                       *)

Call_CuRegister      == Strs(<<"cuPassword", "cuUserId", "cuIp", "cuPort", "version">>)
Call_CuKeepAlive     == Strs(<<"keepAlivePeriod">>)
Call_GetDepResList   == User
Call_GetVideoResList == User \o Strs(<<"departId">>)
Call_GetAlarmResList == User
Call_QueryAlarmInfo  ==
  User \o Nums(<<"queryLocation">>) \o Group(Strs(<<"id", "type", "startTime", "endTime">>))
Call_AlarmHisQuery   ==
  User \o Strs(<<"alarmId", "type">>)
       \o Nums(<<"queryLocation">>) \o << Struct("queryURL", Span) >>
Call_PTZCtrl         == User \o Strs(<<"resId", "cmd", "param">>) \o Nums(<<"speed">>)
Call_PlayQuery       ==
  User \o Strs(<<"resId">>) \o Nums(<<"queryLocation">>) \o << Struct("queryURL", Span) >>
Call_PlayOpen        ==
  User \o Strs(<<"resId">>) \o Nums(<<"mediaType", "linkMode">>) \o Target
Call_PlayStart       == User \o Strs(<<"resId">>) \o Session
Call_HisPlayOpen     ==
  User \o Strs(<<"resId">>) \o Span
       \o Nums(<<"linkMode">>) \o Target \o Nums(<<"locationFlag">>)
Call_HisPlayStart    == User \o Strs(<<"resId">>) \o Session
Call_HisLoadOpen     ==
  User \o Strs(<<"resId">>) \o Span
       \o Nums(<<"linkMode">>) \o Target \o Nums(<<"locationFlag">>)
Call_HisLoadStart    == User \o Strs(<<"resId">>) \o Session
Call_PlayClose       == User \o Strs(<<"resId">>) \o Nums(<<"stopFlag">>) \o Session
Call_PlayCtrl        ==
  User \o Strs(<<"resId">>) \o Session \o Strs(<<"cmd">>) \o Nums(<<"param">>)

\* Interface A.
Call_ReportAlarmRes_A ==
  Group(Strs(<<"id", "type", "startTime", "endTime", "targetInfo">>)
        \o Nums(<<"level", "state">>) \o Strs(<<"description">>))
Call_ReportCamResState_A == Group(Strs(<<"resId", "state">>))
Call_QueryAlarmRes_A == User \o Group(Strs(<<"id", "type", "state">>))

\* Interface B.
Call_ReportAlarmRes_B ==
  Strs(<<"muId", "muName">>)
  \o Group(Strs(<<"id", "type", "startTime", "endTime", "targetInfo">>)
           \o Nums(<<"level">>) \o Strs(<<"state", "description", "alarmHisRecord">>) \o Url)
Call_ReportCamResState_B == Strs(<<"muId">>) \o Group(Strs(<<"resId", "state">>))
Call_QueryAlarmRes_B == Strs(<<"muId", "muName">>) \o Group(Strs(<<"id", "type">>))
Call_MUKeepAlive == Strs(<<"muKeepAlivePeriod">>)

-----------------------------------------------------------------------------
(* MethodCallParser: the parameters a method reads.  It gives up,          *)
(* returning 0, at the first that is void.                                 *)

Rejected == << Void("rejected") >>
\* Mutant: the values are not tested.
All_untested(values) == values
All(values) == IF \E i \in DOMAIN values : IsVoid(values[i]) THEN Rejected ELSE values

Resource == Strs(<<"resId", "name", "location", "purpose", "information">>)
Request(last) == Strs(<<"resId", "userId", "userLevel">>) \o last

Parse_CuRegister      == Strs(<<"cuPassword", "cuUserId", "cuIp", "cuPort", "version">>)
Parse_CuKeepAlive     == Strs(<<"keepAlivePeriod">>)
Parse_GetDepResList   == User
Parse_GetVideoResList == User \o Strs(<<"departId">>)
Parse_GetAlarmResList == User
Parse_QueryAlarmInfo  ==
  User \o Nums(<<"queryLocation">>) \o Group(Strs(<<"id", "type", "startTime", "endTime">>))
Parse_AlarmHisQuery   ==
  User \o Strs(<<"alarmId", "type">>)
       \o Nums(<<"queryLocation">>) \o << Struct("queryURL", Strs(<<"starTime", "endTime">>)) >>
Parse_PTZCtrl         == User \o Strs(<<"resId", "cmd", "param">>) \o Nums(<<"speed">>)
Parse_PlayQuery       ==
  User \o Strs(<<"resId">>) \o Nums(<<"queryLocation">>) \o << Struct("queryURL", Span) >>
Parse_PlayOpen        ==
  User \o Strs(<<"resId">>) \o Nums(<<"mediaType", "linkMode">>) \o Target
Parse_PlayStart       == User \o Strs(<<"resId">>) \o Session
Parse_HisPlayOpen     ==
  User \o Strs(<<"resId">>) \o Span
       \o Nums(<<"linkMode">>) \o Target \o Nums(<<"locationFlag">>)
Parse_HisPlayStart    == User \o Strs(<<"resId">>) \o Session
Parse_HisLoadOpen     ==
  User \o Strs(<<"resId">>) \o Span
       \o Nums(<<"linkMode">>) \o Target \o Nums(<<"locationFlag">>)
Parse_HisLoadStart    == User \o Strs(<<"resId">>) \o Session
Parse_PlayClose       == User \o Strs(<<"resId">>) \o Nums(<<"stopFlag">>) \o Session
Parse_PlayCtrl        ==
  User \o Strs(<<"resId">>) \o Session \o Strs(<<"cmd">>) \o Nums(<<"param">>)
Parse_MUKeepAlive     == Strs(<<"muKeepAlivePeriod">>)

\* Commands that the server parses and has no handler for.
Parse_MURegister ==
  Strs(<<"muId", "muIp", "muPort", "muName", "muPassword", "manufacturerld",
         "manufacturerName", "productVersion", "softwareVersion">>)
Parse_ResReport ==
  Strs(<<"muId">>) \o Nums(<<"totalPacketNum", "curPacketNum">>) \o Group(Resource)
Parse_ResChange          == Strs(<<"muId", "cmd">>) \o Group(Resource)
Parse_UserResReport      == Strs(<<"muId", "muName">>) \o Packets \o Group(Strs(<<"id", "name">>))
Parse_UserResChange      ==
  Strs(<<"muId">>) \o Packets \o Nums(<<"cmd">>) \o Group(Strs(<<"id", "name">>))
Parse_AlarmResListReport ==
  Strs(<<"muId", "muName">>) \o Packets \o Group(Strs(<<"id", "name", "description">>))
Parse_AlarmResListChange ==
  Strs(<<"muId", "muName", "num">>) \o Packets
  \o Nums(<<"cmd">>) \o Group(Strs(<<"id", "name", "type">>))
Parse_QueryHistoryFiles  == Request(Nums(<<"cuId">>) \o Strs(<<"fromDate">>) \o Nums(<<"toDate">>))
Parse_StartMediaReq      ==
  Request(Nums(<<"mediaType">>) \o Strs(<<"linkMode">>) \o Nums(<<"targetIpAddr">>)
          \o Strs(<<"targetPort">>) \o Nums(<<"flag">>))
Parse_INFO               == Session \o Request(<< >>)
Parse_StopMediaReq       == Session \o Strs(<<"resId">>) \o Nums(<<"stopFlag">>)
Parse_StartPlayBack      ==
  Request(Span) \o Nums(<<"linkMode">>) \o Target \o Nums(<<"flag", "locationFlag">>)
Parse_HisInfo            == Session \o Request(<< >>)
Parse_ControlFileBack    == Session \o Strs(<<"resId", "cmd">>) \o Nums(<<"param">>)
Parse_StartHisLoad       ==
  Request(Span) \o Nums(<<"linkMode">>) \o Target \o Nums(<<"flag", "locationFlag">>)
Parse_HisLoadInfo        == Session \o Request(<< >>)
Parse_ReqCamResState     == Strs(<<"muId">>) \o Group(Strs(<<"resId">>))
Parse_GetUserCurState    == Strs(<<"muId", "curUserId">>)
Parse_SetUserCamManage   ==
  Strs(<<"cuId", "cuLevel">>) \o Nums(<<"action">>) \o Span \o Strs(<<"schduleCreatTime">>)
  \o Group(Strs(<<"camId">>)) \o << List("whiteUser", Strs(<<"id">>)) >>
Parse_AlarmResSubscribe  ==
  Strs(<<"muId", "muName">>) \o Nums(<<"action">>) \o Group(Strs(<<"id", "type">>))
Parse_ReportAlarmInfo    ==
  Strs(<<"muId", "muName">>) \o Group(Strs(<<"id", "type", "startTime", "endTime">>))
Parse_ControlPTZ         == Request(Strs(<<"cmd", "param">>)) \o Nums(<<"speed">>)
Parse_ResTransOrder      ==
  Strs(<<"muId", "totalPacketNum", "curPacketNum">>) \o << Struct("resources", Resource) >>
Parse_ResChangeOrder     == Strs(<<"muId", "cmd">>) \o << Struct("resources", Resource) >>

\* Whether a parameter is there.
Has(kids, name) == ~IsVoid(getSimpleValue(kids, Str(name)))

\* Without muId and muName it is a call of interface A.
Parse_ReportAlarmRes(kids) ==
  IF ~Has(kids, "muId") /\ ~Has(kids, "muName")
  THEN Group(Strs(<<"id", "type", "startTime", "targetInfo">>)
             \o Nums(<<"level", "state">>) \o Strs(<<"description">>))
  ELSE Strs(<<"muId", "muName">>)
       \o Group(Strs(<<"id", "type", "startTime", "endTime", "targetInfo">>)
                \o Nums(<<"level">>) \o Strs(<<"state", "description", "alarmHisRecord">>) \o Url)

\* Without muId or muName it is a call of interface A.
Parse_QueryAlarmRes(kids) ==
  (IF Has(kids, "muId") /\ Has(kids, "muName") THEN Strs(<<"muId", "muName">>) ELSE User)
  \o Group(Strs(<<"id", "type">>))

\* Without muId it is a call of interface A.
Parse_ReportCamResState(kids) ==
  (IF Has(kids, "muId") THEN Strs(<<"muId">>) ELSE << >>) \o Group(Strs(<<"resId", "state">>))

-----------------------------------------------------------------------------
(* xmlrpcserver.cpp: a handler's answer is a value, nothing, or a fault,   *)
(* and its lists have as many items as it says.                            *)

Answer(shapes, items) == [fault |-> FALSE, shapes |-> shapes, items |-> items]
Fault == [fault |-> TRUE, shapes |-> << >>, items |-> 0]

Answer_CuRegister      ==
  Answer(Strs(<<"cuId">>) \o Nums(<<"keepAlivePeriod">>) \o Strs(<<"currentTime">>), 0)
Answer_CuKeepAlive     == Answer(Strs(<<"keepAlivePeriod">>), 0)
Answer_GetDepResList   == Answer(Packets \o Group(Strs(<<"id", "name", "parentId">>)), 1)
Answer_GetVideoResList ==
  Answer(Packets \o Group(Strs(<<"id", "name", "depId", "pos", "target", "remark">>)), 1)
Answer_GetAlarmResList == Answer(Packets \o Group(Strs(<<"id", "name", "description">>)), 1)
Answer_QueryAlarmInfo  ==
  Answer(Group(Strs(<<"id", "type", "startTime", "endTime", "description">>)), 2)
Answer_AlarmHisQuery   ==
  Answer(Totals \o Group(Strs(<<"alarmId", "type", "description", "alarmStartTime",
                                "alarmEndTime", "resId", "startTime", "endTime", "size">>)), 1)
Answer_PTZCtrl         == Answer(Strs(<<"resId">>), 0)
Answer_PlayQuery       ==
  Answer(Strs(<<"resId">>) \o Totals
         \o << Struct("recoderURL", Strs(<<"startTime", "endTime", "size">>)) >>, 0)
Answer_PlayOpen        == Answer(Opened, 0)
Answer_PlayStart       == Answer(Session, 0)
Answer_HisPlayOpen     == Answer(Opened, 0)
Answer_HisPlayStart    == Answer(Session, 0)
Answer_HisLoadOpen     == Answer(Opened, 0)
Answer_HisLoadStart    == Answer(Session, 0)
Answer_PlayClose       == Answer(Session, 0)
Answer_PlayCtrl        == Answer(Session, 0)
Answer_ReportAlarmRes_A == Answer(<< >>, 0)
Answer_ReportCamResState_A == Fault
Answer_ReportAlarmRes_B  == Answer(Strs(<<"muId">>), 0)
Answer_ReportCamResState_B == Answer(Group(Strs(<<"resId">>)), 2)
Answer_QueryAlarmRes_B   ==
  Answer(Group(Strs(<<"id", "type", "time">>)
               \o Nums(<<"state", "alarmHisRecord">>) \o Url), 2)
\* The result it sets is overwritten by a fault.
Answer_MUKeepAlive     == Fault

-----------------------------------------------------------------------------
(* MethodResponseParser: the name a method gives the response, and what it *)
(* reads.  What is not there is void, and nothing is given up.             *)

Response(name, shapes) == [name |-> name, shapes |-> shapes]

Result_CuRegister ==
  Response("CuRegister", Strs(<<"cuId">>) \o Nums(<<"keepAlivePeriod">>) \o Strs(<<"currentTime">>))
Result_CuKeepAlive == Response("keepAlivePeriod", Strs(<<"keepAlivePeriod">>))
Result_GetDepResList ==
  Response("GetDepResList", Packets \o Group(Strs(<<"id", "name", "parentId">>)))
Result_GetVideoResList ==
  Response("GetVideoResList",
           Packets \o Group(Strs(<<"id", "name", "depId", "pos", "target", "remark">>)))
Result_GetAlarmResList ==
  Response("GetAlarmResList", Packets \o Group(Strs(<<"id", "name", "description">>)))
Result_QueryAlarmInfo ==
  Response("QueryAlarmInfo",
           Group(Strs(<<"id", "type", "startTime", "endTime", "description">>)))
Result_AlarmHisQuery ==
  Response("AlarmHisQuery",
           Totals \o Group(Strs(<<"alarmId", "type", "alarmStartTime", "alarmEndTime",
                                  "resId", "startTime", "endTime", "size">>)))
Result_PTZCtrl == Response("PTZCtrl", Strs(<<"resId">>))
Result_PlayQuery ==
  Response("PlayQuery",
           Totals \o << Struct("recoderURL", Strs(<<"startTime", "endTime", "size">>)) >>)
Result_PlayOpen     == Response("PlayOpen", Opened)
Result_PlayStart    == Response("PlayStart", Session)
Result_HisPlayOpen  == Response("HisPlayOpen", Opened)
Result_HisLoadOpen  == Response("HisLoadOpen", Opened)
Result_HisLoadStart == Response("HisLoadStart", Session)
Result_PlayClose    == Response("PlayClose", Session)

\* The caller has tested that there are parameters.
Result_ReportAlarmRes    == Response("ReportAlarmRes", Strs(<<"muId">>))
Result_ReportCamResState == Response("ReportCamResState", Group(Strs(<<"resId">>)))

\* By the number of members of the first item: three, in interface A.
\* Mutant: interface A's members in either.
Result_QueryAlarmRes_three(kids) ==
  Response("QueryAlarmRes", Group(Strs(<<"id", "type", "state">>)))
Result_QueryAlarmRes(kids) ==
  LET items == ChildrenNamed(kids, "group")[1].kids IN
  Response("QueryAlarmRes", Group(
    IF Len(items[1].kids) = 3 THEN Strs(<<"id", "type", "state">>)
    ELSE Strs(<<"alarmHisRecord", "state", "time", "id", "type">>)
         \o Url))

=============================================================================
