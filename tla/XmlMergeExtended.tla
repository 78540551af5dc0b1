-------------------------- MODULE XmlMergeExtended --------------------------
(*****************************************************************************)
(* What the merge functions of hmxml write of channels, pictures, wireless   *)
(* networks, decoders and analysis (xml-merge.c). A function takes the       *)
(* packet of a message, and the type of the message when several share it,   *)
(* and gives the elements of the message: what they are called, which field  *)
(* each one carries and whether it is written as a number, a string or a     *)
(* date.                                                                     *)
(*****************************************************************************)
EXTENDS XmlMergeProxy

merge_channel_info_xml(p, command) ==
  Message(command,
    Nums(p, [resultCode |-> "result.code", channelNo |-> "ch_no", channelType |-> "ch_type",
             channelStatus |-> "ch_status"])
    \cup Strs(p, [sessionId |-> "session_id", domainId |-> "domain_id", puId |-> "pu_id",
                  channelName |-> "ch_name"])
    \cup {Group("remoteChannelInfo",
            Nums(p, [channelNo |-> "rmt_ch_info.ch_no", protocol |-> "rmt_ch_info.protocol",
                     audioEnable |-> "rmt_ch_info.audio_enable",
                     winMode |-> "rmt_ch_info.win_mode",
                     winMaxStream |-> "rmt_ch_info.win_max_strm",
                     winMinStream |-> "rmt_ch_info.win_min_strm"])
            \cup Strs(p, [userName |-> "rmt_ch_info.user_name",
                          password |-> "rmt_ch_info.user_pwd"])),
          Group("remoteDeviceInfo",
            Nums(p, [port |-> "rmt_dev_info.port", deviceType |-> "rmt_dev_info.dev_type",
                     channelSum |-> "rmt_dev_info.ch_sum",
                     dnsEnable |-> "rmt_dev_info.dns_enable"])
            \cup Strs(p, [ip |-> "rmt_dev_info.ip", dns |-> "rmt_dev_info.dns"]))})

merge_picture_info_xml(p, command) ==
  Message(command,
    Nums(p, [resultCode |-> "result.code", mirror |-> "mirror", flip |-> "flip",
             hz |-> "hz", awbMode |-> "awb_mode", awbRed |-> "awb_red",
             awbBlue |-> "awb_blue", wdr |-> "wdr", irisType |-> "iris_type",
             expCompensation |-> "exp_compensation", aeMode |-> "ae_mode"])
    \cup Strs(p, [sessionId |-> "session_id", domainId |-> "domain_id", puId |-> "pu_id"]))

merge_wifi_config_xml(p, command) ==
  Message(command,
    Nums(p, [resultCode |-> "result.code", enable |-> "wifi_enable",
             encryptType |-> "encrypt_type", authMode |-> "auth_mode",
             secretKeyType |-> "secret_key_type", wifiStatus |-> "wifi_st"])
    \cup Strs(p, [sessionId |-> "session_id", domainId |-> "domain_id",
                  puId |-> "pu_id", essid |-> "essid", password |-> "pwd"]))

merge_wifi_search_xml(p, command) ==
  LET points == Rows("accessPoint", List(p, "wifi_ap"), LAMBDA a :
                  Strs(a, [essid |-> "essid"])
                  \cup Nums(a, [encryptType |-> "encrypt_type", authMode |-> "auth_mode",
                                secretKeyType |-> "secret_key_type",
                                signalQuality |-> "quality", bitRate |-> "bit_rate"]))
  IN Message(command,
       Nums(p, [resultCode |-> "result.code"])
       \cup Strs(p, [sessionId |-> "session_id", domainId |-> "domain_id",
                     puId |-> "pu_id"])
       \cup {create_attr(Group("wifiAPInfo", points), "count", Value(p, "count"))})

merge_network_status_xml(p, command) ==
  Message(command,
    Nums(p, [resultCode |-> "result.code", ethStatus |-> "eth_st",
             wifiStatus |-> "wifi_st", pppoeStatus |-> "pppoe_st"])
    \cup Strs(p, [sessionId |-> "session_id", domainId |-> "domain_id", puId |-> "pu_id"]))

merge_control_device_request_xml(p) ==
  Message("ControlDevice",
    Nums(p, [command |-> "command"])
    \cup Strs(p, [sessionId |-> "session_id", domainId |-> "domain_id", puId |-> "pu_id"]))

merge_ddns_config_xml(p, command) ==
  Message(command,
    Nums(p, [resultCode |-> "result.code", open |-> "ddns_open", type |-> "ddns_type",
             port |-> "ddns_port", times |-> "ddns_times"])
    \cup Strs(p, [sessionId |-> "session_id", domainId |-> "domain_id",
                  puId |-> "pu_id", account |-> "ddns_account", userName |-> "ddns_usr",
                  password |-> "ddns_pwd"]))

\* Every segment and every rule is sent, under its index in the array.
merge_avd_config_xml(p, command) ==
  LET numbered(node, i, name) == create_attr([node EXCEPT !.at = i], name, Num(i - 1))
      segments == List(p, "sched_time")
      rules == List(p, "avd_rule")
      segment(i) == Group("segment", Nums(segments[i], [open |-> "open",
                                           begin |-> "begin_sec", end |-> "end_sec"]))
      rule(i) == Group("rule", Nums(rules[i], [enable |-> "enable", level |-> "level",
                                               alarmTimes |-> "alarm_times"]))
  IN Message(command,
       Nums(p, [resultCode |-> "result.code", enable |-> "enable"])
       \cup Strs(p, [sessionId |-> "session_id", domainId |-> "domain_id",
                     puId |-> "pu_id"])
       \cup {Group("avdSegment",
                   {numbered(segment(i), i, "index") : i \in DOMAIN segments}),
             Group("avdRule", {numbered(rule(i), i, "type") : i \in DOMAIN rules})})

\* A type of -1 reports a failure: the result and nothing else.
merge_transparent_param_xml(p, command) ==
  LET failed == Value(p, "type") = "-1"
  IN Message(command,
       {create_child("resultCode", "num", IF failed THEN "-1" ELSE Zero)}
       \cup (IF failed THEN {}
             ELSE Strs(p, [sessionId |-> "session_id", domainId |-> "domain_id",
                           puId |-> "pu_id", data |-> "data"])
                  \cup Nums(p, [type |-> "type", channel |-> "channel",
                                length |-> "length"])))

merge_get_transparent_param_request_xml(p) == merge_transparent_param_xml(p, "GetTransparentParam")
merge_get_transparent_param_response_xml(p) == merge_transparent_param_xml(p, "GetTransparentParamResponse")
merge_set_transparent_param_request_xml(p) == merge_transparent_param_xml(p, "SetTransparentParam")
merge_set_transparent_param_response_xml(p) == merge_result_info_xml(p, "SetTransparentParamResponse")
merge_transparent_notify_enevt_xml(p) == merge_transparent_param_xml(p, "NotifyEvent")
merge_transparent_control_device_xml(p) == merge_transparent_param_xml(p, "ControlDevice")

merge_division_mode(p, command) ==
  LET modes == FirstOf(List(p, "div_mode.mode"), MaxRows)
  IN Message(command,
       Nums(p, [resultCode |-> "result.code", totalCount |-> "div_mode.total"])
       \cup {create_attr(
               Group("divisionInfo", Rows("divisionMode", modes, LAMBDA d :
                 Nums(d, [divisionId |-> "div_id"])
                 \cup Strs(d, [divisionName |-> "mode_name",
                               description |-> "description"]))),
               "count", Num(Len(modes)))})

merge_query_division_mode_request_xml(p) ==
  Message("QueryDivisionMode",
    Nums(p, [pageSize |-> "div_mode.page_size", startRow |-> "div_mode.start_row"])
    \cup Strs(p, [puId |-> "pu_id"]))

\* The full screen is described only when it is on.
merge_get_screen_state(p, command) ==
  LET divisions == FirstOf(List(p, "scr_state.division"), MaxRows)
      fullScreen ==
        IF Value(p, "scr_state.fs_mode") = Zero THEN {}
        ELSE Strs(p, [encoderName |-> "scr_state.full_screen.encoder"])
             \cup Nums(p, [encoderChannel |-> "scr_state.full_screen.enc_chn",
                           level |-> "scr_state.full_screen.level",
                           actionType |-> "scr_state.full_screen.action",
                           actionResult |-> "scr_state.full_screen.result"])
  IN Message(command,
       Nums(p, [resultCode |-> "result.code", divisionId |-> "scr_state.div_id"])
       \cup Strs(p, [sessionId |-> "session_id"])
       \cup {create_attr(
               Group("screenInfo", Rows("division", divisions, LAMBDA d :
                 Strs(d, [encoderName |-> "encoder"])
                 \cup Nums(d, [divisionNum |-> "div_no", encoderChannel |-> "enc_chn",
                               level |-> "level", actionType |-> "action",
                               actionResult |-> "result"]))),
               "count", Num(Len(divisions))),
             create_attr(Group("fullScreenState", fullScreen), "mode",
                         Value(p, "scr_state.fs_mode"))})

merge_get_screen_state_request_xml(p) ==
  Message("GetScreenState",
    Nums(p, [disChannel |-> "dis_channel"])
    \cup Strs(p, [sessionId |-> "session_id"]))

merge_set_division_mode_request_xml(p) ==
  Message("ChangeDivisionMode",
    Nums(p, [disChannel |-> "cd_mode.dis_chn", divisionId |-> "cd_mode.div_id"]))

merge_set_full_screen_request_xml(p) ==
  Message("FullScreen",
    Nums(p, [disChannel |-> "screen.dis_chn", divisionNum |-> "screen.div_no"]))

merge_exit_full_screen_request_xml(p) ==
  Message("ExitFullScreen", Nums(p, [disChannel |-> "int"]))

\* The request and the answer share the divisions and little else.
merge_tv_wall_play(p, command) ==
  LET request == command = "TwPlay"
      divisions == FirstOf(List(p, "tv_play.division"), MaxRows)
      division(d) ==
        Nums(d, [divisionNum |-> "div_no"])
        \cup Strs(d, [encoderName |-> "encoder"])
        \cup (IF request
                THEN Strs(d, [encoderUrl |-> "url"]) \cup Nums(d, [clearFlag |-> "flag"])
                ELSE Nums(d, [encoderChannel |-> "enc_chn", level |-> "level",
                              actionResult |-> "result"]))
  IN Message(command,
       Nums(p, [resultCode |-> "result.code", divisionId |-> "tv_play.div_id"])
       \cup (IF ~request THEN {}
             ELSE Nums(p, [actionType |-> "tv_play.action", stepNum |-> "tv_play.step",
                           disChannel |-> "tv_play.dis_chn",
                           keepOther |-> "tv_play.k_other"])
                  \cup Strs(p, [name |-> "tv_play.name"]))
       \cup {create_attr(Group("divisions", Rows("division", divisions, division)),
                         "count", Num(Len(divisions)))})

merge_clear_division_request_xml(p) ==
  Message("ClearDivision",
    Nums(p, [disChannel |-> "screen.dis_chn", divisionNum |-> "screen.div_no"]))

merge_log_info(p, command) ==
  Message(command,
    Nums(p, [resultCode |-> "result.code", totalCount |-> "opt_log.total_count"])
    \cup {create_attr(
            Group("logInfo", Rows("logItem", List(p, "opt_log.item"), LAMBDA item :
              Nums(item, [times |-> "times", major |-> "major_type",
                          minor |-> "minor_type", args |-> "args", addr |-> "ip"])
              \cup Strs(item, [userName |-> "user"]))),
            "count", Value(p, "opt_log.node_count"))})

\* The conditions are the siblings of condInfo, not its children.
merge_cond_info(p, command) ==
  Message(command,
    {Group("condInfo", {})}
    \cup Nums(p, [begTime |-> "beg_time", endTime |-> "end_time", logType |-> "type",
                  addr |-> "ip", begNode |-> "beg_node", endNode |-> "end_node",
                  sessId |-> "sess_id"])
    \cup Strs(p, [userName |-> "user"]))

\* The conditions of the query are a part of the packet.
merge_get_operation_log_request_xml(p) ==
  merge_cond_info(View("opt_log.cond.", p, {"beg_time", "end_time", "type", "user", "ip",
                                            "beg_node", "end_node", "sess_id"}),
                  "GetOperationLog")

merge_get_operation_log_response_xml(p) == merge_log_info(p, "GetOperationLogResponse")

merge_set_alarm_upload_config_request_xml(p) ==
  Message("SetAlarmUploadConfig",
    Nums(p, [enable |-> "enable", port |-> "port", type |-> "type"])
    \cup Strs(p, [host |-> "host"]))

merge_preset_point_set_xml(p, command) ==
  LET points == FirstOf(List(p, "pp_set.pp"), MaxRows)
  IN Message(command,
       Nums(p, [resultCode |-> "result.code"])
       \cup Strs(p, [sessionId |-> "session_id", domainId |-> "domain_id", guId |-> "gu_id"])
       \cup {create_attr(
               Group("preset", Rows("point", points, LAMBDA pp :
                 Strs(pp, [presetName |-> "name"])
                 \cup Nums(pp, [presetNo |-> "preset"]))),
               "count", Num(Len(points)))})

merge_preset_point_xml(p, command) ==
  Message(command,
    Nums(p, [presetAction |-> "pp_cfg.action", presetNo |-> "pp_cfg.pp.preset"])
    \cup Strs(p, [sessionId |-> "session_id", domainId |-> "domain_id",
                  guId |-> "gu_id", presetName |-> "pp_cfg.pp.name"]))

merge_cruise_way_set_xml(p, command) ==
  LET ways == FirstOf(List(p, "crz_set.crz_info"), MaxRows)
  IN Message(command,
       Nums(p, [resultCode |-> "result.code"])
       \cup Strs(p, [sessionId |-> "session_id", domainId |-> "domain_id", guId |-> "gu_id"])
       \cup {create_attr(
               Group("cruiseSet", Rows("cruiseWay", ways, LAMBDA way :
                 Strs(way, [cruiseName |-> "crz_name"])
                 \cup Nums(way, [cruiseNo |-> "crz_no"]))),
               "count", Num(Len(ways)))})

merge_get_cruise_way_set_request_xml(p) == merge_request_action_xml(p, "GetCruiseWaySet")
merge_get_cruise_way_set_response_xml(p) == merge_cruise_way_set_xml(p, "GetCruiseWaySetResponse")

\* Only the answer to a query has a result.
merge_cruise_way_xml(p, command) ==
  LET points == FirstOf(List(p, "crz_way.crz_pp"), MaxRows)
  IN Message(command,
       (IF command = "GetCruiseWayResponse"
          THEN Nums(p, [resultCode |-> "result.code"]) ELSE {})
       \cup Strs(p, [sessionId |-> "session_id", domainId |-> "domain_id", guId |-> "gu_id",
                     cruiseName |-> "crz_way.crz_info.crz_name"])
       \cup Nums(p, [cruiseNo |-> "crz_way.crz_info.crz_no"])
       \cup {create_attr(
               Group("cruiseWay", Rows("point", points, LAMBDA point :
                 Nums(point, [presetNo |-> "preset", speed |-> "speed",
                              dwellTime |-> "dwell"]))),
               "count", Num(Len(points)))})

merge_get_cruise_way_request_xml(p) == merge_request_action_xml(p, "GetCruiseWay")
merge_get_cruise_way_response_xml(p) == merge_cruise_way_xml(p, "GetCruiseWayResponse")

merge_cruise_config_xml(p, command) ==
  Message(command,
    Nums(p, [cruiseAction |-> "crz_cfg.action", cruiseNo |-> "crz_cfg.crz_no"])
    \cup Strs(p, [sessionId |-> "session_id", domainId |-> "domain_id", guId |-> "gu_id"]))

merge_3d_control_xml(p, command) ==
  Message(command,
    Nums(p, [xOffset |-> "_3d_ctr.x_offset", yOffset |-> "_3d_ctr.y_offset",
             amplify |-> "_3d_ctr.amplify"])
    \cup Strs(p, [sessionId |-> "session_id", domainId |-> "domain_id", guId |-> "gu_id"]))

merge_alarm_link_io_request_xml(p) ==
  Message("AlarmLinkIO",
    Nums(p, [timeLen |-> "link_io.time_len"])
    \cup Strs(p, [sessionId |-> "session_id", domainId |-> "domain_id",
                  guId |-> "gu_id", data |-> "link_io.data"]))

merge_alarm_link_preset_request_xml(p) ==
  Message("AlarmLinkPreset",
    Nums(p, [presetNo |-> "link_preset.preset"])
    \cup Strs(p, [sessionId |-> "session_id", domainId |-> "domain_id", guId |-> "gu_id"]))

merge_resolution_info_xml(p, command) ==
  Message(command,
    Nums(p, [resultCode |-> "result.code", resolution |-> "rsl_info.resolution"])
    \cup Strs(p, [sessionId |-> "session_id", domainId |-> "domain_id", guId |-> "gu_id"]))

merge_get_resolution_info_request_xml(p) == merge_request_action_xml(p, "GetResolutionInfo")
merge_get_resolution_info_response_xml(p) == merge_resolution_info_xml(p, "GetResolutionInfoResponse")

\* The mode of a channel chooses which part of its union is sent.
merge_ircut_control_info_xml(p, command) ==
  LET rows == List(p, "ircut_ctrl.ircut")
      numbered(node, i, name) == create_attr([node EXCEPT !.at = i], name, Num(i - 1))
      segments(d) == Rows("segment", d.seg_time, LAMBDA s :
                       Nums(s, [open |-> "open", begin |-> "begin_sec", end |-> "end_sec"]))
      days(r) == {numbered(Group("day", segments(r.timers[j])), j, "id")
                    : j \in DOMAIN r.timers}
      switch(r) ==
        CASE Value(r, "ircut_mode") = IRCUT_AUTO ->
               {Group("autoSwitch", Nums(r, [sensitive |-> "autos.sensitive"]))}
          [] Value(r, "ircut_mode") = IRCUT_RTC ->
               {Group("rtcSwitch", Nums(r, [rtc |-> "rtcs.rtc"]))}
          [] Value(r, "ircut_mode") = IRCUT_TIMER -> {Group("timerSwitch", days(r))}
          [] OTHER -> {}
      ircut(r) == Group("ircut", Nums(r, [switchMode |-> "ircut_mode",
                                          autoC2B |-> "auto_c2b"]) \cup switch(r))
  IN Message(command,
       Nums(p, [resultCode |-> "result.code"])
       \cup Strs(p, [sessionId |-> "session_id", domainId |-> "domain_id", guId |-> "gu_id"])
       \cup {create_attr(
               Group("ircutControl",
                     {numbered(ircut(rows[i]), i, "channel") : i \in DOMAIN rows}),
               "count", Value(p, "ircut_ctrl.count"))})

merge_get_ircut_control_info_request_xml(p) == merge_request_action_xml(p, "GetIrcutControlInfo")
merge_get_ircut_control_info_response_xml(p) == merge_ircut_control_info_xml(p, "GetIrcutControlInfoResponse")
merge_set_ircut_control_info_request_xml(p) == merge_ircut_control_info_xml(p, "SetIrcutControlInfo")
merge_get_extranet_port_request_xml(p) == merge_request_action_xml(p, "CssGetExtranetPort")

merge_get_extranet_port_response_xml(p) ==
  Message("CssGetExtranetPortResponse",
    Nums(p, [resultCode |-> "result.code", dataPort |-> "extranet.data_port"])
    \cup Strs(p, [sessionId |-> "session_id", domainId |-> "domain_id", guId |-> "gu_id"]))

Troughs(rows, Body(_)) ==
  {Group("troughParams", MarkedRows("troughParam", rows, "Id", "id", LAMBDA trough :
           Strs(trough, [name |-> "name"]) \cup Body(trough)))}

merge_herd_analyse_info(p, command) ==
  Message(command,
    Nums(p, [resultCode |-> "result.code", fodderEnable |-> "herd_analyse.fodder_eable",
             reportIntv |-> "herd_analyse.report_intv",
             maxWidth |-> "herd_analyse.max_width",
             maxHeight |-> "herd_analyse.max_height"])
    \cup Strs(p, [sessionId |-> "session_id", domainId |-> "domain_id", guId |-> "gu_id"])
    \cup WeekDays(List(p, "herd_analyse.week.days"), LAMBDA day : {})
    \cup Troughs(List(p, "herd_analyse.field.trough"), LAMBDA trough :
           {Group("quadrAngle", Rows("point", List(trough, "quadr.angle"), LAMBDA point :
              Nums(point, [x |-> "x", y |-> "y"])))}))

merge_get_herd_analyse_info_request_xml(p) == merge_request_action_xml(p, "GetHerdAnalyseParameter")
merge_get_herd_analyse_info_response_xml(p) == merge_herd_analyse_info(p, "GetHerdAnalyseParameterResponse")
merge_set_herd_analyse_info_request_xml(p) == merge_herd_analyse_info(p, "SetHerdAnalyseParameter")

merge_grass_percent(p, command) ==
  Message(command,
    Nums(p, [resultCode |-> "result.code"])
    \cup Strs(p, [sessionId |-> "session_id", domainId |-> "domain_id", guId |-> "gu_id"])
    \cup Troughs(List(p, "grass.field.trough"), LAMBDA trough :
           Nums(trough, [grassPercent |-> "percent"])))

merge_get_grass_percent_request_xml(p) == merge_request_action_xml(p, "GetGrassPercentInfo")
merge_get_grass_percent_response_xml(p) == merge_grass_percent(p, "GetGrassPercentInfoResponse")

merge_p2p_id(p, command) ==
  Message(command,
    Nums(p, [resultCode |-> "result.code", channelNum |-> "channel_count"])
    \cup Strs(p, [puId |-> "p2p.pu_id", p2pId |-> "p2p.p2p_id"]))

merge_get_p2p_id_request_xml(p) == merge_p2p_id(p, "PuGetP2PId")
merge_get_p2p_id_response_xml(p) == merge_p2p_id(p, "PuGetP2PIdResponse")
==============================================================================
