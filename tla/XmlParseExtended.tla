-------------------------- MODULE XmlParseExtended --------------------------
(*****************************************************************************)
(* What the parse functions of hmxml read of channels, pictures, wireless    *)
(* networks, decoders and analysis (xml-parse.c). A function takes the       *)
(* elements of a message, and the type it must have when several share it,   *)
(* and gives the fields that it fills: which element each one comes from and *)
(* whether its text is read as a number, a string or a date.                 *)
(*****************************************************************************)
EXTENDS XmlParseProxy

get_remote_channel_info(kids) ==
  ReadNums(kids, [channelNo |-> "ch_no", protocol |-> "protocol",
                  audioEnable |-> "audio_enable", winMode |-> "win_mode",
                  winMaxStream |-> "win_max_strm", winMinStream |-> "win_min_strm"])
  @@ ReadStrs(kids, [userName |-> "user_name", password |-> "user_pwd"])

get_remote_device_info(kids) ==
  ReadNums(kids, [port |-> "port", deviceType |-> "dev_type", channelSum |-> "ch_sum",
                  dnsEnable |-> "dns_enable"])
  @@ ReadStrs(kids, [ip |-> "ip", dns |-> "dns"])

parse_channel_info(m, command) ==
  Accept(m, command,
    ReadNums(m.kids, [resultCode |-> "result.code", channelNo |-> "ch_no",
                      channelType |-> "ch_type", channelStatus |-> "ch_status"])
    @@ ReadStrs(m.kids, [sessionId |-> "session_id", domainId |-> "domain_id",
                         puId |-> "pu_id", channelName |-> "ch_name"])
    @@ Embed("rmt_ch_info.", get_remote_channel_info(Under(m.kids, "remoteChannelInfo")))
    @@ Embed("rmt_dev_info.", get_remote_device_info(Under(m.kids, "remoteDeviceInfo"))))

parse_get_channel_info_request_xml(m) == parse_request_action_xml(m, "GetChannelInfo")
parse_get_channel_info_response_xml(m) == parse_channel_info(m, "GetChannelInfoResponse")
parse_set_channel_info_request_xml(m) == parse_channel_info(m, "SetChannelInfo")
parse_set_channel_info_result_xml(m) == parse_result_info_xml(m, "SetChannelInfoResponse")

parse_picture_info(m, command) ==
  Accept(m, command,
    ReadNums(m.kids, [resultCode |-> "result.code", mirror |-> "mirror",
                      flip |-> "flip", hz |-> "hz", awbMode |-> "awb_mode",
                      awbRed |-> "awb_red", awbBlue |-> "awb_blue", wdr |-> "wdr",
                      irisType |-> "iris_type", expCompensation |-> "exp_compensation",
                      aeMode |-> "ae_mode"])
    @@ ReadStrs(m.kids, [sessionId |-> "session_id", domainId |-> "domain_id",
                         puId |-> "pu_id"]))

parse_get_picture_info_request_xml(m) == parse_request_action_xml(m, "GetPictureInfo")
parse_get_picture_info_response_xml(m) == parse_picture_info(m, "GetPictureInfoResponse")
parse_set_picture_info_request_xml(m) == parse_picture_info(m, "SetPictureInfo")
parse_set_picture_info_result_xml(m) == parse_result_info_xml(m, "SetPictureInfoResponse")

parse_wifi_config(m, command) ==
  Accept(m, command,
    ReadNums(m.kids, [resultCode |-> "result.code", enable |-> "wifi_enable",
                      encryptType |-> "encrypt_type", authMode |-> "auth_mode",
                      secretKeyType |-> "secret_key_type", wifiStatus |-> "wifi_st"])
    @@ ReadStrs(m.kids, [sessionId |-> "session_id", domainId |-> "domain_id",
                         puId |-> "pu_id", essid |-> "essid", password |-> "pwd"]))

parse_get_wifi_config_request_xml(m) == parse_request_action_xml(m, "GetWifiConfig")
parse_get_wifi_config_response_xml(m) == parse_wifi_config(m, "GetWifiConfigResponse")
parse_set_wifi_config_request_xml(m) == parse_wifi_config(m, "SetWifiConfig")
parse_set_wifi_config_result_xml(m) == parse_result_info_xml(m, "SetWifiConfigResponse")

\* An access point is looked for among the list and its siblings.
get_access_point_info(nodes) ==
  ReadRows(nodes, "accessPoint", LAMBDA point :
    ReadStrs(point, [essid |-> "essid"])
    @@ ReadNums(point, [encryptType |-> "encrypt_type", authMode |-> "auth_mode",
                        secretKeyType |-> "secret_key_type",
                        signalQuality |-> "quality", bitRate |-> "bit_rate"]))

parse_wifi_search(m, command) ==
  Accept(m, command,
    ReadNums(m.kids, [resultCode |-> "result.code"])
    @@ ReadStrs(m.kids, [sessionId |-> "session_id", domainId |-> "domain_id",
                         puId |-> "pu_id"])
    @@ (IF \E n \in m.kids : n.tag = "wifiAPInfo"
          THEN "wifi_ap" :> get_access_point_info(m.kids) ELSE << >>))

parse_wifi_search_request_xml(m) == parse_request_action_xml(m, "WifiSearch")
parse_wifi_search_response_xml(m) == parse_wifi_search(m, "WifiSearchResponse")

parse_network_status(m, command) ==
  Accept(m, command,
    ReadNums(m.kids, [resultCode |-> "result.code", ethStatus |-> "eth_st",
                      wifiStatus |-> "wifi_st", pppoeStatus |-> "pppoe_st"])
    @@ ReadStrs(m.kids, [sessionId |-> "session_id", domainId |-> "domain_id",
                         puId |-> "pu_id"]))

parse_get_network_status_request_xml(m) == parse_request_action_xml(m, "GetNetworkStatus")
parse_get_network_status_response_xml(m) == parse_network_status(m, "GetNetworkStatusResponse")

parse_control_device(m, command) ==
  Accept(m, command,
    ReadNums(m.kids, [resultCode |-> "result.code", command |-> "command"])
    @@ ReadStrs(m.kids, [sessionId |-> "session_id", domainId |-> "domain_id",
                         puId |-> "pu_id"]))

parse_control_device_request_xml(m) == parse_control_device(m, "ControlDevice")
parse_control_device_result_xml(m) == parse_result_info_xml(m, "ControlDeviceResponse")

parse_ddns_config(m, command) ==
  Accept(m, command,
    ReadNums(m.kids, [resultCode |-> "result.code", open |-> "ddns_open",
                      type |-> "ddns_type", port |-> "ddns_port", times |-> "ddns_times"])
    @@ ReadStrs(m.kids, [sessionId |-> "session_id", domainId |-> "domain_id",
                         puId |-> "pu_id", account |-> "ddns_account",
                         userName |-> "ddns_usr", password |-> "ddns_pwd"]))

parse_get_ddns_config_request_xml(m) == parse_request_action_xml(m, "GetDdnsConfig")
parse_get_ddns_config_response_xml(m) == parse_ddns_config(m, "GetDdnsConfigResponse")
parse_set_ddns_config_request_xml(m) == parse_ddns_config(m, "SetDdnsConfig")
parse_set_ddns_config_result_xml(m) == parse_result_info_xml(m, "SetDdnsConfigResponse")
parse_get_def_picture_info_request_xml(m) == parse_request_action_xml(m, "GetDefPictureInfo")
parse_get_def_picture_info_response_xml(m) == parse_picture_info(m, "GetDefPictureInfoResponse")

\* The loop over the segments is commented out.
parse_avd_segment(kids) == << >>

parse_avd_rule(kids) ==
  Indexed(kids, "rule", "type", MaxRows, LAMBDA rule :
    ReadNums(rule, [enable |-> "enable", level |-> "level", alarmTimes |-> "alarm_times"]))

parse_avd_config(m, command) ==
  Accept(m, command,
    ReadNums(m.kids, [resultCode |-> "result.code", enable |-> "enable"])
    @@ ReadStrs(m.kids, [sessionId |-> "session_id", domainId |-> "domain_id",
                         puId |-> "pu_id"])
    @@ ("sched_time" :> parse_avd_segment(Under(m.kids, "avdSegment")))
    @@ ("avd_rule" :> parse_avd_rule(Under(m.kids, "avdRule"))))

parse_get_avd_config_request_xml(m) == parse_request_action_xml(m, "GetAvdConfig")
parse_get_avd_config_response_xml(m) == parse_avd_config(m, "GetAvdConfigResponse")
parse_set_avd_config_request_xml(m) == parse_avd_config(m, "SetAvdConfig")
parse_set_avd_config_result_xml(m) == parse_result_info_xml(m, "SetAvdConfigResponse")

\* The data are read only when their length came before them and is positive:
\* a long text is taken from where get_mxml_node_info kept it.
parse_transparent_param_xml(m, command) ==
  LET length == ReadNums(m.kids, [length |-> "length"])
      data(n) == IF Value(length, "length") = LongLength THEN Extended(n) ELSE Contact(n)
      found == {n \in m.kids : /\ n.tag = "data"
                               /\ Value(length, "length") # Zero
                               /\ data(n).as # "none"}
  IN Accept(m, command,
       ReadNums(m.kids, [type |-> "type", channel |-> "channel"])
       @@ ReadStrs(m.kids, [sessionId |-> "session_id", domainId |-> "domain_id",
                            puId |-> "pu_id"])
       @@ length @@ [f \in {n.tag : n \in found} |-> data(CHOOSE n \in found : TRUE).of])

parse_get_transparent_param_request_xml(m) == parse_transparent_param_xml(m, "GetTransparentParam")
parse_set_transparent_param_request_xml(m) == parse_transparent_param_xml(m, "SetTransparentParam")

parse_query_division_mode(m, command) ==
  Accept(m, command,
    ReadStrs(m.kids, [puId |-> "pu_id"])
    @@ ReadNums(m.kids, [pageSize |-> "div_mode.page_size",
                         startRow |-> "div_mode.start_row"]))

\* The place of the first row is left out: every row moves on by one and the
\* last one is lost.
FromSecond(rows) ==
  [i \in DOMAIN rows |-> IF i = 1 THEN << >> ELSE rows[i - 1]]

parse_return_division_mode(m, command) ==
  LET modes == ReadRows(Under(m.kids, "divisionInfo"), "divisionMode", LAMBDA mode :
                 ReadNums(mode, [divisionId |-> "div_id"])
                 @@ ReadStrs(mode, [divisionName |-> "mode_name",
                                    description |-> "description"]))
  IN Accept(m, command,
       ReadNums(m.kids, [resultCode |-> "result.code", totalCount |-> "div_mode.total"])
       @@ ReadAttr(m.kids, "divisionInfo", "count", "div_mode.count")
       @@ ("div_mode.mode" :> FromSecond(modes)))

parse_query_division_mode_request_xml(m) == parse_query_division_mode(m, "QueryDivisionMode")
parse_query_division_mode_response_xml(m) == parse_return_division_mode(m, "QueryDivisionModeResponse")

\* Here too the first place of the array is left out.
parse_get_screen_state(m, command) ==
  LET described(kids) ==
        ReadStrs(kids, [encoderName |-> "encoder"])
        @@ ReadNums(kids, [encoderChannel |-> "enc_chn", level |-> "level",
                           actionType |-> "action", actionResult |-> "result"])
      divisions == ReadRows(Under(m.kids, "screenInfo"), "division", LAMBDA division :
                     ReadNums(division, [divisionNum |-> "div_no"])
                     @@ described(division))
      mode == ReadAttr(m.kids, "fullScreenState", "mode", "scr_state.fs_mode")
  IN Accept(m, command,
       ReadNums(m.kids, [resultCode |-> "result.code", divisionId |-> "scr_state.div_id"])
       @@ ReadStrs(m.kids, [sessionId |-> "session_id"])
       @@ ReadAttr(m.kids, "screenInfo", "count", "scr_state.count")
       @@ ("scr_state.division" :> FromSecond(divisions)) @@ mode
       @@ (IF Value(mode, "scr_state.fs_mode") = Zero THEN << >>
           ELSE Embed("scr_state.full_screen.",
                      described(Under(m.kids, "fullScreenState")))))

parse_get_screen_state_request_xml(m) ==
  Accept(m, "GetScreenState",
    ReadNums(m.kids, [disChannel |-> "dis_channel"])
    @@ ReadStrs(m.kids, [sessionId |-> "session_id"]))

parse_get_screen_state_response_xml(m) == parse_get_screen_state(m, "GetScreenStateResponse")

parse_set_division_mode_request_xml(m) ==
  Accept(m, "ChangeDivisionMode",
    ReadNums(m.kids, [disChannel |-> "cd_mode.dis_chn", divisionId |-> "cd_mode.div_id"]))

parse_set_division_mode_response_xml(m) == parse_result_info_xml(m, "ChangeDivisionModeResponse")

parse_set_full_screen_request_xml(m) ==
  Accept(m, "FullScreen",
    ReadNums(m.kids, [disChannel |-> "screen.dis_chn", divisionNum |-> "screen.div_no"]))

parse_set_full_screen_response_xml(m) == parse_result_info_xml(m, "FullScreenResponse")

parse_exit_full_screen_request_xml(m) ==
  Accept(m, "ExitFullScreen", ReadNums(m.kids, [disChannel |-> "int"]))

parse_exit_full_screen_response_xml(m) == parse_result_info_xml(m, "ExitFullScreenResponse")

parse_tv_wall_play(m, command) ==
  LET divisions == ReadRows(Under(m.kids, "divisions"), "division", LAMBDA division :
        ReadNums(division, [divisionNum |-> "div_no", actionResult |-> "result",
                            encoderChannel |-> "enc_chn", level |-> "level",
                            clearFlag |-> "flag"])
        @@ ReadStrs(division, [encoderName |-> "encoder", encoderUrl |-> "url"]))
  IN Accept(m, command,
       ReadNums(m.kids, [resultCode |-> "result.code", actionType |-> "tv_play.action",
                         stepNum |-> "tv_play.step", disChannel |-> "tv_play.dis_chn",
                         divisionId |-> "tv_play.div_id", keepOther |-> "tv_play.k_other"])
       @@ ReadStrs(m.kids, [name |-> "tv_play.name"])
       @@ ReadAttr(m.kids, "divisions", "count", "tv_play.count")
       @@ ("tv_play.division" :> divisions))

parse_tv_wall_play_request_xml(m) == parse_tv_wall_play(m, "TwPlay")
parse_tv_wall_play_response_xml(m) == parse_tv_wall_play(m, "TwPlayResponse")

parse_clear_division_request_xml(m) ==
  Accept(m, "ClearDivision",
    ReadNums(m.kids, [disChannel |-> "screen.dis_chn", divisionNum |-> "screen.div_no"]))

parse_clear_division_response_xml(m) == parse_result_info_xml(m, "ClearDivisionResponse")

parse_log_info(kids) ==
  ReadRows(kids, "logItem", LAMBDA item :
    ReadNums(item, [times |-> "times", major |-> "major_type", minor |-> "minor_type",
                    args |-> "args", addr |-> "ip"])
    @@ ReadStrs(item, [userName |-> "user"]))

parse_cond_info(kids) ==
  ReadNums(kids, [begTime |-> "beg_time", endTime |-> "end_time", logType |-> "type",
                  addr |-> "ip", begNode |-> "beg_node", endNode |-> "end_node",
                  sessId |-> "sess_id"])
  @@ ReadStrs(kids, [userName |-> "user"])

\* The conditions are looked for under condInfo.
parse_operation_log_info(m, command) ==
  Accept(m, command,
    Embed("opt_log.cond.", parse_cond_info(Under(m.kids, "condInfo")))
    @@ ReadNums(m.kids, [resultCode |-> "result.code", totalCount |-> "opt_log.total_count"])
    @@ ReadAttr(m.kids, "logInfo", "count", "opt_log.node_count")
    @@ ("opt_log.item" :> parse_log_info(Under(m.kids, "logInfo"))))

parse_get_operation_log_request_xml(m) == parse_operation_log_info(m, "GetOperationLog")
parse_get_operation_log_response_xml(m) == parse_operation_log_info(m, "GetOperationLogResponse")

parse_set_alarm_upload_config_request_xml(m) ==
  Accept(m, "SetAlarmUploadConfig",
    ReadNums(m.kids, [enable |-> "enable", port |-> "port", type |-> "type"])
    @@ ReadStrs(m.kids, [host |-> "host"]))

parse_set_alarm_upload_config_response_xml(m) == parse_result_info_xml(m, "SetAlarmUploadConfigResponse")

parse_preset_point_set(m, command) ==
  LET points == ReadRows(Under(m.kids, "preset"), "point", LAMBDA pp :
                  ReadStrs(pp, [presetName |-> "name"])
                  @@ ReadNums(pp, [presetNo |-> "preset"]))
  IN Accept(m, command,
       ReadNums(m.kids, [resultCode |-> "result.code"])
       @@ ReadStrs(m.kids, [sessionId |-> "session_id", domainId |-> "domain_id",
                            guId |-> "gu_id"])
       @@ ReadAttr(m.kids, "preset", "count", "pp_set.pp_count")
       @@ ("pp_set.pp" :> points))

parse_preset_point_info(m, command) ==
  Accept(m, command,
    ReadNums(m.kids, [resultCode |-> "result.code", presetAction |-> "pp_cfg.action",
                      presetNo |-> "pp_cfg.pp.preset"])
    @@ ReadStrs(m.kids, [sessionId |-> "session_id", domainId |-> "domain_id",
                         guId |-> "gu_id", presetName |-> "pp_cfg.pp.name"]))

parse_cruise_way_set(m, command) ==
  LET ways == ReadRows(Under(m.kids, "cruiseSet"), "cruiseWay", LAMBDA way :
                ReadStrs(way, [cruiseName |-> "crz_name"])
                @@ ReadNums(way, [cruiseNo |-> "crz_no"]))
  IN Accept(m, command,
       ReadNums(m.kids, [resultCode |-> "result.code"])
       @@ ReadStrs(m.kids, [sessionId |-> "session_id", domainId |-> "domain_id",
                            guId |-> "gu_id"])
       @@ ReadAttr(m.kids, "cruiseSet", "count", "crz_set.crz_count")
       @@ ("crz_set.crz_info" :> ways))

parse_cruise_config(m, command) ==
  Accept(m, command,
    ReadNums(m.kids, [resultCode |-> "result.code", cruiseAction |-> "crz_cfg.action",
                      cruiseNo |-> "crz_cfg.crz_no"])
    @@ ReadStrs(m.kids, [sessionId |-> "session_id", domainId |-> "domain_id",
                         guId |-> "gu_id"]))

parse_config_cruise_way(m, command) ==
  LET points == ReadRows(Under(m.kids, "cruiseWay"), "point", LAMBDA point :
        ReadNums(point, [presetNo |-> "preset", speed |-> "speed", dwellTime |-> "dwell"]))
  IN Accept(m, command,
       ReadNums(m.kids, [resultCode |-> "result.code",
                         cruiseNo |-> "crz_way.crz_info.crz_no"])
       @@ ReadStrs(m.kids, [sessionId |-> "session_id", domainId |-> "domain_id",
                            guId |-> "gu_id", cruiseName |-> "crz_way.crz_info.crz_name"])
       @@ ReadAttr(m.kids, "cruiseWay", "count", "crz_way.pp_count")
       @@ ("crz_way.crz_pp" :> points))

parse_3d_control(m, command) ==
  Accept(m, command,
    ReadNums(m.kids, [xOffset |-> "_3d_ctr.x_offset", yOffset |-> "_3d_ctr.y_offset",
                      amplify |-> "_3d_ctr.amplify"])
    @@ ReadStrs(m.kids, [sessionId |-> "session_id", domainId |-> "domain_id",
                         guId |-> "gu_id"]))

parse_alarm_link_io_request_xml(m) ==
  Accept(m, "AlarmLinkIO",
    ReadNums(m.kids, [timeLen |-> "link_io.time_len"])
    @@ ReadStrs(m.kids, [sessionId |-> "session_id", domainId |-> "domain_id",
                         guId |-> "gu_id", data |-> "link_io.data"]))

parse_alarm_link_preset_request_xml(m) ==
  Accept(m, "AlarmLinkPreset",
    ReadNums(m.kids, [presetNo |-> "link_preset.preset"])
    @@ ReadStrs(m.kids, [sessionId |-> "session_id", domainId |-> "domain_id",
                         guId |-> "gu_id"]))

parse_resolution_info(m, command) ==
  Accept(m, command,
    ReadNums(m.kids, [resultCode |-> "result.code", resolution |-> "rsl_info.resolution"])
    @@ ReadStrs(m.kids, [sessionId |-> "session_id", domainId |-> "domain_id",
                         guId |-> "gu_id"]))

parse_get_resolution_info_request_xml(m) == parse_request_action_xml(m, "GetResolutionInfo")
parse_get_resolution_info_response_xml(m) == parse_resolution_info(m, "GetResolutionInfoResponse")
parse_set_resolution_info_request_xml(m) == parse_resolution_info(m, "SetResolutionInfo")
parse_set_resolution_info_result_xml(m) == parse_result_action_xml(m, "SetResolutionInfoResponse")

parse_each_ircut_info(kids) ==
  ReadNums(kids, [switchMode |-> "ircut_mode", autoC2B |-> "auto_c2b"])
  @@ ReadNums(Under(kids, "autoSwitch"), [sensitive |-> "autos.sensitive"])
  @@ ReadNums(Under(kids, "rtcSwitch"), [rtc |-> "rtcs.rtc"])
  @@ ("timers" :> Indexed(Under(kids, "timerSwitch"), "day", "id", MaxRows, LAMBDA day :
        "seg_time" :> ReadRows(day, "segment", LAMBDA s :
                        ReadNums(s, [open |-> "open", begin |-> "begin_sec",
                                     end |-> "end_sec"]))))

parse_ircut_control_info(m, command) ==
  LET count == ReadAttr(m.kids, "ircutControl", "count", "ircut_ctrl.count")
  IN Accept(m, command,
       ReadNums(m.kids, [resultCode |-> "result.code"])
       @@ ReadStrs(m.kids, [sessionId |-> "session_id", domainId |-> "domain_id",
                            guId |-> "gu_id"])
       @@ count
       @@ ("ircut_ctrl.ircut" :>
             Indexed(Under(m.kids, "ircutControl"), "ircut", "channel", MaxRows,
                     parse_each_ircut_info)))

parse_get_ircut_control_info_request_xml(m) == parse_request_action_xml(m, "GetIrcutControlInfo")
parse_get_ircut_control_info_response_xml(m) == parse_ircut_control_info(m, "GetIrcutControlInfoResponse")
parse_set_ircut_control_info_request_xml(m) == parse_ircut_control_info(m, "SetIrcutControlInfo")
parse_set_ircut_control_info_result_xml(m) == parse_result_action_xml(m, "SetIrcutControlInfoResponse")
parse_get_extranet_port_request_xml(m) == parse_request_action_xml(m, "CssGetExtranetPort")

parse_get_extranet_port_response_xml(m) ==
  Accept(m, "CssGetExtranetPortResponse",
    ReadStrs(m.kids, [sessionId |-> "session_id", domainId |-> "domain_id",
                      guId |-> "gu_id"])
    @@ ReadNums(m.kids, [dataPort |-> "extranet.data_port"]))

parse_trough_params(kids) ==
  LET troughs == FirstOf(ReadMarked(kids, "troughParam", "Id", "id", LAMBDA trough :
        ReadStrs(trough, [name |-> "name"])
        @@ ReadNums(trough, [grassPercent |-> "percent"])
        @@ ("quadr.angle" :> ReadRows(Under(trough, "quadrAngle"), "point", LAMBDA point :
              ReadNums(point, [x |-> "x", y |-> "y"])))), MaxRows)
  IN [trough |-> troughs, trough_count |-> Num(Len(troughs))]

parse_herd_analyse_info(m, command) ==
  Accept(m, command,
    ReadNums(m.kids, [resultCode |-> "result.code",
                      fodderEnable |-> "herd_analyse.fodder_eable",
                      reportIntv |-> "herd_analyse.report_intv",
                      maxWidth |-> "herd_analyse.max_width",
                      maxHeight |-> "herd_analyse.max_height"])
    @@ ReadStrs(m.kids, [sessionId |-> "session_id", domainId |-> "domain_id",
                         guId |-> "gu_id"])
    @@ Embed("herd_analyse.week.", get_weekday_info(Under(m.kids, "weekDays")))
    @@ Embed("herd_analyse.field.", parse_trough_params(Under(m.kids, "troughParams"))))

parse_get_herd_analyse_info_request_xml(m) == parse_request_action_xml(m, "GetHerdAnalyseParameter")
parse_get_herd_analyse_info_response_xml(m) == parse_herd_analyse_info(m, "GetHerdAnalyseParameterResponse")
parse_set_herd_analyse_info_request_xml(m) == parse_herd_analyse_info(m, "SetHerdAnalyseParameter")
parse_set_herd_analyse_info_result_xml(m) == parse_result_action_xml(m, "SetHerdAnalyseParameterResponse")

parse_grass_percent(m, command) ==
  Accept(m, command,
    ReadNums(m.kids, [resultCode |-> "result.code"])
    @@ ReadStrs(m.kids, [sessionId |-> "session_id", domainId |-> "domain_id",
                         guId |-> "gu_id"])
    @@ Embed("grass.field.", parse_trough_params(Under(m.kids, "troughParams"))))

parse_get_grass_percent_request_xml(m) == parse_request_action_xml(m, "GetGrassPercentInfo")
parse_get_grass_percent_response_xml(m) == parse_grass_percent(m, "GetGrassPercentInfoResponse")

parse_p2p_id(m, command) ==
  Accept(m, command,
    ReadNums(m.kids, [resultCode |-> "result.code"])
    @@ ReadStrs(m.kids, [puId |-> "p2p.pu_id", p2pId |-> "p2p.p2p_id"]))

parse_get_p2p_id_request_xml(m) == parse_p2p_id(m, "PuGetP2PId")
parse_get_p2p_id_response_xml(m) == parse_p2p_id(m, "PuGetP2PIdResponse")
==============================================================================
