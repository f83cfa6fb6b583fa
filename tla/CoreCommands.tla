---------------------------- MODULE CoreCommands ----------------------------
(* The eighteen commands the Core Node sends (Core_node.cpp) and an Area     *)
(* Node parses (Area_Node/include/XML_Parse.h).                              *)
EXTENDS CommandFormat

Media == <<"resId", "userId", "userLevel">>
Back  == Media \o <<"startTime", "endTime", "linkMode", "targetIpAddr", "targetPort",
                    "flag", "locationFlag">>
OneResourceOrder == << List("resources", "one", "one", ResourceNodes) >>

\* Both methods test the inner node's tag and copy the text of "resources".
ReadsResourceOrder == [node \in {"resources"} |-> WholeRows(Same(Resource))]

Send_QueryHistoryFiles  == Sends(Own(Media \o <<"cuId", "fromDate", "toDate">>), << >>)
Parse_QueryHistoryFiles == Reads(
  Same({"resId", "userId", "userLevel", "cuId", "fromDate", "toDate"}), NoLists)

Send_StartMediaReq  == Sends(
  Own(Media \o <<"mediaType", "linkMode", "targetIpAddr", "targetPort", "flag">>), << >>)
Parse_StartMediaReq == Reads(
  Same({"resId", "userId", "userLevel", "mediaType", "linkMode", "targetIpAddr",
        "targetPort", "flag"}), NoLists)

Send_StopMediaReq  == Sends(Own(<<"sessionId", "resId", "stopFlag">>), << >>)
Parse_StopMediaReq == Reads(Same({"sessionId", "resId", "stopFlag"}), NoLists)

Send_StartPlayBack  == Sends(Own(Back), << >>)
Parse_StartPlayBack == Reads(
  Same({"resId", "userId", "userLevel", "startTime", "endTime", "linkMode",
        "targetIpAddr", "targetPort", "flag", "locationFlag"}), NoLists)

\* The sender's tags are not the parser's for the session and the parameter.
Send_ControlFileBack == Sends(
  Named("sessioinId", "sessionId") \o Own(<<"resId", "cmd">>) \o Named("linkMode", "param"), << >>)
Parse_ControlFileBack == Reads(Same({"sessionId", "resId", "cmd", "param"}), NoLists)

Send_StartHisLoad  == Sends(Own(Back), << >>)
Parse_StartHisLoad == Reads(
  Same({"resId", "userId", "userLevel", "startTime", "endTime", "linkMode",
        "targetIpAddr", "targetPort", "flag", "locationFlag"}), NoLists)

Send_ReqCamResState  == Sends(Own(<<"muId">>), Group(Own(<<"resId">>)))
Parse_ReqCamResState == Reads(Same({"muId"}), InGroup(Uncounted, Same({"resId", "state"})))

\* The parser tests "MuId", which equals "muId" here.
Send_GetUserCurState  == Sends(Own(<<"muId", "curUserId">>), << >>)
Parse_GetUserCurState == Reads(Same({"muId", "curUserId"}), NoLists)

\* Both loops of the sender run to camurl_Num, whatever idurl_Num is.
Send_SetUserCamManage == Sends(
  Own(<<"cuId", "cuLevel", "Action", "startTime", "endTime", "schduleCreatTime">>),
  << List("group", "camurl_Num", "camurl_Num", Own(<<"camId">>)),
     List("whiteUser", "camurl_Num", "idurl_Num", Own(<<"id">>)) >>)
Parse_SetUserCamManage == Reads(
  Same({"cuId", "cuLevel", "Action", "startTime", "endTime", "schduleCreatTime"}),
  Over(InGroup(Uncounted, Same({"camId"})),
       [node \in {"whiteUser"} |-> Rows(Uncounted, Same({"id"}))]))

Send_AlarmResSubscribe == Sends(
  Own(<<"muId", "muName", "action">>), Group(Own(<<"id">>) \o Named("type", "description")))
Parse_AlarmResSubscribe == Reads(
  Same({"muId", "muName", "action"}),
  InGroup("urlNum", Over(Same({"id"}), Into("type", {"description"}))))

Send_QueryAlarmRes  == Sends(Own(<<"muId", "muName">>), Group(Own(<<"id", "type">>)))
Parse_QueryAlarmRes == Reads(Same({"muId", "muName"}), InGroup("urlNum", Same({"id", "type"})))

Send_ReportAlarmInfo  == Sends(
  Own(<<"muId", "muName">>), Group(Own(<<"id", "type", "startTime", "endTime">>)))
Parse_ReportAlarmInfo == Reads(
  Same({"muId", "muName"}), InGroup("urlNum", Same({"id", "startTime", "endTime"})))

Send_ControlPTZ  == Sends(Own(Media \o <<"cmd", "param", "speed">>), << >>)
Parse_ControlPTZ == Reads(
  Same({"resId", "userId", "userLevel", "cmd", "param", "speed"}), NoLists)

Send_ResTransOrder  == Sends(Own(<<"muId", "totalPacketNum", "curPacketNum">>), OneResourceOrder)
Parse_ResTransOrder == Reads(
  Same({"muId", "totalPacketNum", "curPacketNum"}), ReadsResourceOrder)

Send_ResChangeOrder  == Sends(Own(<<"muId", "cmd">>), OneResourceOrder)
Parse_ResChangeOrder == Reads(Same({"muId", "cmd"}), ReadsResourceOrder)

Info == <<"sessionId", "resId", "userId", "userLevel">>
ReadsInfo == Reads(Same({"sessionId", "resId", "userId", "userLevel"}), NoLists)

Send_INFO  == Sends(Own(Info), << >>)
Parse_INFO == ReadsInfo

Send_HisInfo  == Sends(Own(Info), << >>)
Parse_HisInfo == ReadsInfo

Send_HisLoadInfo  == Sends(Own(Info), << >>)
Parse_HisLoadInfo == ReadsInfo

=============================================================================
