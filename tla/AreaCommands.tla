---------------------------- MODULE AreaCommands ----------------------------
(* The ten commands an Area Node sends (Area_node.cpp) and the Core Node     *)
(* parses (Core_Node/include/XML_Parse.h).  The single "resources" node of   *)
(* a change is a list of one entry, which no struct counter governs.         *)
EXTENDS CommandFormat

OneResource == << List("resources", "one", "one", ResourceNodes) >>
ReadsResource == [node \in {"resources"} |-> Rows(Uncounted, Same(Resource))]

Send_MURegister == Sends(
  Own(<<"muId", "muIp", "muPort", "muName", "muPassword">>)
    \o Named("manufacturerId", "manufacturerld")
    \o Own(<<"manufacturerName", "productVersion", "softwareVersion">>), << >>)
Parse_MURegister == Reads(
  Same({"muId", "muIp", "muPort", "muName", "muPassword", "manufacturerld",
        "manufacturerName", "productVersion", "softwareVersion"}), NoLists)

Send_ResReport == Sends(Own(<<"muId", "totalPacketNum", "curPacketNum">>), Group(ResourceNodes))

\* Mutant: a branch pasted without changing the field it copies to.
Parse_ResReport_pasted == Reads(
  Same({"muId", "totalPacketNum", "curPacketNum"}),
  InGroup(Uncounted, Over(Into("purpose", {"location"}), Same(Resource))))
Parse_ResReport == Reads(
  Same({"muId", "totalPacketNum", "curPacketNum"}), InGroup(Uncounted, Same(Resource)))

Send_ResChange  == Sends(Own(<<"muId", "cmd">>), OneResource)
Parse_ResChange == Reads(Same({"muId", "cmd"}), ReadsResource)

Send_MUKeepAlive  == Sends(Own(<<"muKeepAlivePeriod">>), << >>)
Parse_MUKeepAlive == Reads(Same({"muKeepAlivePeriod"}), NoLists)

Send_ReportCamResState  == Sends(Own(<<"muId">>), Group(Own(<<"resId", "state">>)))
Parse_ReportCamResState == Reads(Same({"muId"}), InGroup(Uncounted, Same({"resId", "state"})))

Send_UserResReport  == Sends(
  Own(<<"muId", "muName", "totalPkt", "pktNum">>), Group(Own(<<"id", "name">>)))
Parse_UserResReport == Reads(
  Same({"muId", "muName", "totalPkt", "pktNum"}), InGroup(Uncounted, Same({"id", "name"})))

Send_UserResChange  == Sends(
  Own(<<"muId", "totalPkt", "pktNum", "cmd">>), Group(Own(<<"id", "name">>)))
Parse_UserResChange == Reads(
  Same({"muId", "totalPkt", "pktNum", "cmd"}), InGroup(Uncounted, Same({"id", "name"})))

Send_AlarmResListReport == Sends(
  Own(<<"muId", "muName", "totalPkt", "pktNum">>), Group(Own(<<"id", "name", "description">>)))
Parse_AlarmResListReport == Reads(
  Same({"muId", "muName", "totalPkt", "pktNum"}),
  InGroup("urlNum", Same({"id", "name", "description"})))

Send_AlarmResListChange == Sends(
  Own(<<"muId", "muName", "num", "totalPkt", "pktNum", "cmd">>),
  Group(Own(<<"id", "name">>) \o Named("type", "description")))
Parse_AlarmResListChange == Reads(
  Same({"muId", "muName", "num", "totalPkt", "pktNum", "cmd"}),
  InGroup("urlNum", Over(Same({"id", "name"}), Into("type", {"description"}))))

\* The nested url's text is that of both its nodes, and both its fields get it;
\* level and alarmHisRecord are copied to description as well.
Send_ReportAlarmRes == Sends(
  Own(<<"muId", "muName">>),
  Group(Own(<<"id", "type", "startTime", "endTime", "targetInfo", "level", "state",
              "description", "alarmHisRecord">>)
        \o << <<"url", <<"rtUrl.resId", "rtUrl.time">> >> >>))
Parse_ReportAlarmRes == Reads(
  Same({"muId", "muName"}),
  InGroup("urlNum",
    Over(Over(Into("level", {"level", "description"}),
             Into("alarmHisRecord", {"alarmHisRecord", "description"})),
         Over(Into("url", {"rtUrl.resId", "rtUrl.time"}),
              Same({"id", "type", "startTime", "endTime", "targetInfo", "state",
                    "description"})))))

=============================================================================
