--------------------------- MODULE XmlParseDevice ---------------------------
(*****************************************************************************)
(* What the parse functions of hmxml read of the parameters, the alarms and  *)
(* the state of a device (xml-parse.c). A function takes the elements of a   *)
(* message, and the type it must have when several share it, and gives the   *)
(* fields that it fills: which element each one comes from and whether its   *)
(* text is read as a number, a string or a date.                             *)
(*****************************************************************************)
EXTENDS XmlTree

\* The row of a day is found by counting the days, what the day holds by its
\* number: the two meet only when the days count from 0.
get_weekday_info(kids) ==
  LET days == FirstOf(Found(kids, "weekDay"), MaxRows)
      segments(day) ==
        LET segs == FirstOf(Found(Under(day.kids, "timeSegs"), "timeSeg"), MaxRows)
        IN [j \in DOMAIN segs |-> Marked(segs[j], "enable", "enable")
                                  @@ Read({segs[j]}, "part", [timeSeg |-> "times"])]
      numbered(i) == {j \in DOMAIN days : days[j].attr.of = Num(i - 1)}
      last(S) == CHOOSE j \in S : \A k \in S : k <= j
      held(i) ==
        IF numbered(i) = {} THEN << >>
        ELSE LET day == days[last(numbered(i))]
             IN [seg |-> segments(day), count |-> Num(Len(segments(day)))]
                @@ ReadNums(day.kids, [allDayEnable |-> "all_day_enable"])
  IN [days  |-> [i \in DOMAIN days |-> Marked(days[i], "Id", "day_id") @@ held(i)],
      count |-> Num(Len(days))]

\* The rectangles are counted: the attribute hideNum does not matter.
get_dection_area_info(kids) ==
  LET rects == FirstOf(ReadRows(kids, "rect", LAMBDA rect :
                 ReadNums(rect, [left |-> "left", top |-> "top",
                                 right |-> "right", bottom |-> "bottom"])), MaxRows)
  IN [rect |-> rects, count |-> Num(Len(rects))]

\* A mutant: the last row of the array is left free.
get_disk_info_but_last(kids) ==
  FirstOf(ReadMarked(kids, "disk", "diskNo", "disk_no", LAMBDA disk :
    ReadNums(disk, [totalSize |-> "total_size", freeSize |-> "free_size",
                    isBackup |-> "is_backup", diskStatus |-> "status",
                    diskType |-> "disk_type", sysFileType |-> "sys_file_type"])), MaxRows - 1)

get_disk_info(kids) ==
  FirstOf(ReadMarked(kids, "disk", "diskNo", "disk_no", LAMBDA disk :
    ReadNums(disk, [totalSize |-> "total_size", freeSize |-> "free_size",
                    isBackup |-> "is_backup", diskStatus |-> "status",
                    diskType |-> "disk_type", sysFileType |-> "sys_file_type"])), MaxRows)

get_joint_info(kids) ==
  ReadNums(Under(kids, "jointRecord"),
           [recordEnableChannel |-> "joint_record_enable_channel",
            recordSecond |-> "joint_record_second"])
  @@ ReadNums(Under(kids, "jointIO"),
              [beepEnable |-> "joint_beep_enable", beepSecond |-> "joint_beep_second",
               outputTimes |-> "joint_output_times",
               outputEnableChannel |-> "joint_output_enable_channel"])
  @@ ReadNums(Under(kids, "jointSnap"),
              [snapEnableChannel |-> "joint_snap_enable_channel",
               snapInterval |-> "joint_snap_interval", snapTimes |-> "joint_snap_times"])
  @@ ReadNums(Under(kids, "jointEmail"), [emailEnable |-> "joint_email_enable"])

\* A device and a group are read into the same field, and so are the three
\* numbers that a request may carry.
parse_request_action_xml(m, command) ==
  Accept(m, command,
    ReadStrs(m.kids, [sessionId |-> "session_id", domainId |-> "domain_id"])
    @@ ReadStrs(m.kids, [guId |-> "pu_or_gu_id"])
    @@ ReadStrs(m.kids, [puId |-> "pu_or_gu_id"])
    @@ ReadNums(m.kids, [alarmType |-> "reserve"])
    @@ ReadNums(m.kids, [serialNo |-> "reserve"])
    @@ ReadNums(m.kids, [cruiseNo |-> "reserve"]))

parse_result_action_xml(m, command) ==
  Accept(m, command,
    ReadNums(m.kids, [resultCode |-> "result.code", cruiseNo |-> "reserve"])
    @@ ReadStrs(m.kids, [sessionId |-> "session_id", domainId |-> "domain_id",
                         puId |-> "pu_or_gu_id", guId |-> "pu_or_gu_id"]))

parse_get_css_request_xml(m) ==
  Accept(m, "PuGetCss",
    ReadStrs(m.kids, [deviceCode |-> "dev_code", puVersion |-> "software_ver"]))

parse_get_css_response_xml(m) ==
  Accept(m, "PuGetCssResponse",
    ReadNums(m.kids, [resultCode |-> "result.code", cssPort |-> "css_port"])
    @@ ReadStrs(m.kids, [cssIP |-> "css_ip"]))

parse_pu_register_css_xml(m) ==
  Accept(m, "PuRegister",
    ReadStrs(m.kids, [deviceCode |-> "dev_code", deviceIp |-> "dev_ip",
                      cssIP |-> "css_ip", puVersion |-> "software_ver"]))

parse_register_request_xml(m) ==
  Accept(m, "PuRegister",
    ReadNums(m.kids, [puType |-> "pu_type"])
    @@ ReadStrs(m.kids, [puId |-> "pu_id", deviceIp |-> "dev_ip", cmsIp |-> "cms_ip"]))

parse_register_response_xml(m) ==
  Accept(m, "PuRegisterResponse",
    ReadNums(m.kids, [resultCode |-> "result.code", keepAliveTime |-> "keep_alive",
                      mdsPort |-> "mds_port"])
    @@ ReadStrs(m.kids, [puId |-> "pu_id", mdsIp |-> "mds_ip"]))

parse_heart_beat_request_xml(m) ==
  Accept(m, "PuHeart",
    ReadStrs(m.kids, [puId |-> "pu_id", deviceIp |-> "dev_ip"]))

\* A date that cannot be read fails the whole message.
parse_heart_beat_response_xml(m) ==
  LET times == ReadTimes(m.kids, [serverTime |-> "server_time"])
      given == \E n \in m.kids : n.tag = "serverTime" /\ Contact(n).as # "none"
      read == Accept(m, "PuHeartResponse",
                ReadNums(m.kids, [resultCode |-> "result.code", type |-> "plt_type"])
                @@ times)
  IN IF given /\ times = << >> THEN Refused ELSE read

parse_get_mds_info_request_xml(m) ==
  Accept(m, "GetMdsInfo",
    ReadNums(m.kids, [port |-> "mds_port"])
    @@ ReadStrs(m.kids, [puId |-> "pu_id", cmsIp |-> "cms_ip", ip |-> "mds_ip"]))

parse_get_mds_info_response_xml(m) ==
  Accept(m, "GetMdsInfoResponse",
    ReadNums(m.kids, [resultCode |-> "result.code", port |-> "mds_port"])
    @@ ReadStrs(m.kids, [puId |-> "pu_id", ip |-> "mds_ip"]))

parse_change_dispatch_request_xml(m) ==
  Accept(m, "ChangeDispatch",
    ReadNums(m.kids, [mdsPort |-> "mds_port"])
    @@ ReadStrs(m.kids, [sessionId |-> "session_id", domainId |-> "domain_id",
                         puId |-> "pu_id", mdsIp |-> "mds_ip"]))

parse_device_info_response_xml(m) ==
  Accept(m, "GetDeviceInfoResponse",
    ReadNums(m.kids, [resultCode |-> "result.code", puType |-> "pu_type",
                      puSubType |-> "sub_type", diNum |-> "di_num", doNum |-> "do_num",
                      channelNum |-> "channel_num", RS485Num |-> "rs485_num",
                      RS232Num |-> "rs232_num"])
    @@ ReadStrs(m.kids, [sessionId |-> "session_id", domainId |-> "domain_id",
                         puId |-> "pu_id", manuInfo |-> "manu_info",
                         releaseDate |-> "release_date", devVersion |-> "dev_version",
                         hwVersion |-> "hw_version"]))

parse_device_ntp_info_xml(m, command) ==
  Accept(m, command,
    ReadNums(m.kids, [resultCode |-> "result.code", timeZone |-> "time_zone",
                      timeInterval |-> "time_interval", ntpEnable |-> "ntp_enable",
                      dstEnable |-> "dst_enable", reserve |-> "reserve"])
    @@ ReadStrs(m.kids, [sessionId |-> "session_id", domainId |-> "domain_id",
                         puId |-> "pu_id", ntpServerIp |-> "ntp_server_ip"]))

parse_device_time_xml(m, command) ==
  Accept(m, command,
    ReadNums(m.kids, [timeZone |-> "zone", syncEnable |-> "sync_enable",
                      setFlag |-> "set_flag"])
    @@ ReadStrs(m.kids, [sessionId |-> "session_id", domainId |-> "domain_id",
                         puId |-> "pu_id"])
    @@ ReadTimes(m.kids, [time |-> "time"]))

parse_platform_info_xml(m, command) ==
  Accept(m, command,
    ReadNums(m.kids, [resultCode |-> "result.code", cmsPort |-> "cms_port",
                      mdsPort |-> "mds_port", protocol |-> "protocol",
                      isConCms |-> "is_con_cms"])
    @@ ReadStrs(m.kids, [sessionId |-> "session_id", domainId |-> "domain_id",
                         puId |-> "pu_id", cmsIp |-> "cms_ip", mdsIp |-> "mds_ip"]))

get_network_child_info(kids) ==
  ReadNums(kids, [dhcpEnable |-> "dhcp_enable"])
  @@ ReadStrs(kids, [mac |-> "mac", ip |-> "ip", netmask |-> "netmask",
                     gateway |-> "gateway"])

\* autoDnsEnable is read into web_port, which webPort then overwrites.
parse_network_info_xml(m, command) ==
  LET network == Indexed(m.kids, "network", "type", J_SDK_MAX_NETWORK_TYPE, get_network_child_info)
  IN Accept(m, command,
       ReadNums(m.kids, [resultCode |-> "result.code", cmdPort |-> "cmd_port",
                         dataPort |-> "data_port", webPort |-> "web_port",
                         talkPort |-> "talk_port"])
       @@ ReadNums(m.kids, [autoDnsEnable |-> "web_port"])
       @@ ReadStrs(m.kids, [sessionId |-> "session_id", domainId |-> "domain_id",
                            puId |-> "pu_id", mainDns |-> "main_dns",
                            backupDns |-> "backup_dns"])
       @@ ("network" :> [i \in DOMAIN network |-> ("type" :> Num(i - 1)) @@ network[i]]))

parse_pppoe_info_xml(m, command) ==
  Accept(m, command,
    ReadNums(m.kids, [resultCode |-> "result.code", pppoeInterface |-> "type",
                      pppoeEnable |-> "enable"])
    @@ ReadStrs(m.kids, [sessionId |-> "session_id", domainId |-> "domain_id",
                         puId |-> "pu_id", pppoeIp |-> "ip", pppoeAccount |-> "account",
                         pppoePasswd |-> "passwd"]))

parse_encode_parameter_xml(m, command) ==
  Accept(m, command,
    ReadNums(m.kids, [resultCode |-> "result.code", frameRate |-> "frame_rate",
                      iFrameInterval |-> "i_frame_interval", videoType |-> "video_type",
                      audioType |-> "audio_type", audioInputMode |-> "au_in_mode",
                      audioEnable |-> "audio_enble", resolution |-> "resolution",
                      QpValue |-> "qp_value", codeRate |-> "code_rate",
                      framePriority |-> "frame_priority", videoFormat |-> "format",
                      bitRateType |-> "bit_rate", encodeLevel |-> "encode_level"])
    @@ ReadStrs(m.kids, [sessionId |-> "session_id", domainId |-> "domain_id",
                         guId |-> "gu_id"]))

parse_display_parameter_xml(m, command) ==
  Accept(m, command,
    ReadNums(m.kids, [resultCode |-> "result.code", contrast |-> "contrast",
                      bright |-> "bright", hue |-> "hue", saturation |-> "saturation",
                      sharpness |-> "sharpness"])
    @@ ReadStrs(m.kids, [sessionId |-> "session_id", domainId |-> "domain_id",
                         guId |-> "gu_id"]))

parse_record_parameter_xml(m, command) ==
  Accept(m, command,
    ReadNums(m.kids, [resultCode |-> "result.code", preRecord |-> "pre_record",
                      autoCover |-> "auto_cover"])
    @@ ReadStrs(m.kids, [sessionId |-> "session_id", domainId |-> "domain_id",
                         guId |-> "gu_id"])
    @@ Embed("week.", get_weekday_info(Under(m.kids, "weekDays"))))

parse_hide_parameter_xml(m, command) ==
  Accept(m, command,
    ReadNums(m.kids, [resultCode |-> "result.code", hideEnable |-> "hide_enable",
                      hideColor |-> "hide_color", maxWidth |-> "max_width",
                      maxHeight |-> "max_height"])
    @@ ReadStrs(m.kids, [sessionId |-> "session_id", domainId |-> "domain_id",
                         guId |-> "gu_id"])
    @@ Embed("hide_area.", get_dection_area_info(Under(m.kids, "hideArea"))))

parse_serial_parameter_xml(m, command) ==
  Accept(m, command,
    ReadNums(m.kids, [resultCode |-> "result.code", serialNo |-> "serial_no",
                      baudRate |-> "baud_rate", dataBit |-> "data_bit",
                      stopBit |-> "stop_bit", verify |-> "verify"])
    @@ ReadStrs(m.kids, [sessionId |-> "session_id", domainId |-> "domain_id",
                         puId |-> "pu_id"]))

parse_osd_parameter_xml(m, command) ==
  Accept(m, command,
    ReadNums(m.kids, [resultCode |-> "result.code", displayTimeEnable |-> "time_enable",
                      timeDisplayX |-> "time_display_x",
                      timeDisplayY |-> "time_display_y",
                      timeDisplayColor |-> "time_display_color",
                      displayTextEnable |-> "text_enable",
                      textDisplayX |-> "text_display_x",
                      textDisplayY |-> "text_display_y",
                      textDisplayColor |-> "text_display_color",
                      maxWidth |-> "max_width", maxHeight |-> "max_height",
                      displayStreamEnable |-> "stream_enable",
                      timeDisplayW |-> "time_display_w",
                      timeDisplayH |-> "time_display_h",
                      textDisplayW |-> "text_display_w",
                      textDisplayH |-> "text_display_h",
                      invertColor |-> "osd_invert_color",
                      text1DisplayEnable |-> "ext_osd.ext_text1_enable",
                      text1DisplayX |-> "ext_osd.ext_text1_display_x",
                      text1DisplayY |-> "ext_osd.ext_text1_display_y",
                      text1DisplayW |-> "ext_osd.ext_text1_display_w",
                      text1DisplayH |-> "ext_osd.ext_text1_display_h",
                      text2DisplayEnable |-> "ext_osd.ext_text2_enable",
                      text2DisplayX |-> "ext_osd.ext_text2_display_x",
                      text2DisplayY |-> "ext_osd.ext_text2_display_y",
                      text2DisplayW |-> "ext_osd.ext_text2_display_w",
                      text2DisplayH |-> "ext_osd.ext_text2_display_h"])
    @@ ReadStrs(m.kids, [sessionId |-> "session_id", domainId |-> "domain_id",
                         guId |-> "gu_id", textDisplayData |-> "text_data",
                         text1DisplayData |-> "ext_osd.ext_text1_data",
                         text2DisplayData |-> "ext_osd.ext_text2_data"]))

parse_ptz_parameter_xml(m, command) ==
  Accept(m, command,
    ReadNums(m.kids, [resultCode |-> "result.code", serialNo |-> "serial_no",
                      ptzAddr |-> "ptz_addr", ptzProt |-> "protocol",
                      baudRate |-> "baud_rate", dataBit |-> "data_bit",
                      stopBit |-> "stop_bit", verify |-> "verify"])
    @@ ReadStrs(m.kids, [sessionId |-> "session_id", domainId |-> "domain_id",
                         guId |-> "gu_id"]))

parse_ftp_parameter_xml(m, command) ==
  Accept(m, command,
    ReadNums(m.kids, [resultCode |-> "result.code", ftpPort |-> "ftp_port"])
    @@ ReadStrs(m.kids, [sessionId |-> "session_id", domainId |-> "domain_id",
                         puId |-> "pu_id", ftpIp |-> "ftp_ip", ftpUsr |-> "ftp_usr",
                         ftpPwd |-> "ftp_pwd", ftpPath |-> "ftp_path"]))

parse_smtp_parameter_xml(m, command) ==
  Accept(m, command,
    ReadNums(m.kids, [resultCode |-> "result.code", mailPort |-> "mail_port",
                      SSLEnable |-> "ssl_enable"])
    @@ ReadStrs(m.kids, [sessionId |-> "session_id", domainId |-> "domain_id",
                         puId |-> "pu_id", mailIp |-> "mail_ip",
                         mailAddr |-> "mail_addr", mailUsr |-> "mail_usr",
                         mailPwd |-> "mail_pwd", mailRctp1 |-> "mail_rctp1",
                         mailRctp2 |-> "mail_rctp2", mailRctp3 |-> "mail_rctp3"]))

parse_upnp_parameter_xml(m, command) ==
  Accept(m, command,
    ReadNums(m.kids, [resultCode |-> "result.code", upnpEnable |-> "upnp_enable",
                      upnpEthNo |-> "upnp_eth_no", upnpModel |-> "upnp_model",
                      upnpRefreshTime |-> "upnp_refresh_time",
                      upnpDataPort |-> "upnp_data_port",
                      upnpWebPort |-> "upnp_web_port",
                      upnpDataPortResult |-> "upnp_data_port_result",
                      upnpWebPortResult |-> "upnp_web_port_result",
                      upnpCmdPort |-> "upnp_cmd_port",
                      upnpTalkPort |-> "upnp_talk_port",
                      upnpCmdPortResult |-> "upnp_cmd_port_result",
                      upnpTalkPortResult |-> "upnp_talk_port_result"])
    @@ ReadStrs(m.kids, [sessionId |-> "session_id", domainId |-> "domain_id",
                         puId |-> "pu_id", upnpIp |-> "upnp_ip"]))

parse_device_disk_info_response_xml(m) ==
  LET disks == get_disk_info(Under(m.kids, "diskInfo"))
  IN Accept(m, "GetDiskInfoResponse",
       ReadNums(m.kids, [resultCode |-> "result.code"])
       @@ ReadStrs(m.kids, [sessionId |-> "session_id", domainId |-> "domain_id",
                            puId |-> "pu_id"])
       @@ ("disk" :> disks) @@ ("disk_num" :> Num(Len(disks))))

parse_format_disk_info_xml(m, command) ==
  Accept(m, command,
    ReadNums(m.kids, [resultCode |-> "result.code", diskNo |-> "disk_no",
                      fmtProgress |-> "progress"])
    @@ ReadStrs(m.kids, [sessionId |-> "session_id", domainId |-> "domain_id",
                         puId |-> "pu_id"]))

parse_submit_format_progress_xml(m) ==
  Accept(m, "SubmitFormatProgress",
    ReadNums(m.kids, [diskNo |-> "disk_no", fmtProgress |-> "progress"])
    @@ ReadStrs(m.kids, [puId |-> "pu_id"]))

parse_move_alarm_info_xml(m, command) ==
  Accept(m, command,
    ReadNums(m.kids, [resultCode |-> "result.code", moveEnable |-> "move_enable",
                      sensitiveLevel |-> "sensitive_level",
                      detectInterval |-> "detect_interval", maxWidth |-> "max_width",
                      maxHeight |-> "max_height"])
    @@ ReadStrs(m.kids, [sessionId |-> "session_id", domainId |-> "domain_id",
                         guId |-> "gu_id"])
    @@ Embed("detect_area.", get_dection_area_info(Under(m.kids, "detectArea")))
    @@ Embed("week.", get_weekday_info(Under(m.kids, "weekDays"))))

parse_lost_alarm_info_xml(m, command) ==
  Accept(m, command,
    ReadNums(m.kids, [resultCode |-> "result.code", lostEnable |-> "lost_enable",
                      detectInterval |-> "detect_interval"])
    @@ ReadStrs(m.kids, [sessionId |-> "session_id", domainId |-> "domain_id",
                         guId |-> "gu_id"])
    @@ Embed("week.", get_weekday_info(Under(m.kids, "weekDays"))))

parse_hide_alarm_info_xml(m, command) ==
  Accept(m, command,
    ReadNums(m.kids, [resultCode |-> "result.code", hideEnable |-> "hide_enable",
                      sensitiveLevel |-> "sensitive_level",
                      detectInterval |-> "detect_interval", maxWidth |-> "max_width",
                      maxHeight |-> "max_height"])
    @@ ReadStrs(m.kids, [sessionId |-> "session_id", domainId |-> "domain_id",
                         guId |-> "gu_id"])
    @@ Embed("detect_area.", get_dection_area_info(Under(m.kids, "detectArea")))
    @@ Embed("week.", get_weekday_info(Under(m.kids, "weekDays"))))

parse_io_alarm_info_xml(m, command) ==
  Accept(m, command,
    ReadNums(m.kids, [resultCode |-> "result.code", ioType |-> "io_type",
                      ioEnable |-> "alarm_enable", detectInterval |-> "detect_interval"])
    @@ ReadStrs(m.kids, [sessionId |-> "session_id", domainId |-> "domain_id",
                         guId |-> "gu_id"])
    @@ Embed("week.", get_weekday_info(Under(m.kids, "weekDays"))))

parse_joint_info_xml(m, command) ==
  Accept(m, command,
    ReadNums(m.kids, [resultCode |-> "result.code", alarmType |-> "alarm_type"])
    @@ ReadStrs(m.kids, [sessionId |-> "session_id", domainId |-> "domain_id",
                         guId |-> "gu_id"])
    @@ Embed("joint.", get_joint_info(Under(m.kids, "jointAction"))))

parse_control_ptz_xml(m, command) ==
  Accept(m, command,
    ReadNums(m.kids, [resultCode |-> "result.code", direction |-> "action",
                      param |-> "param"])
    @@ ReadStrs(m.kids, [sessionId |-> "session_id", domainId |-> "domain_id",
                         guId |-> "gu_id"]))

parse_control_ptz_cmd_xml(m) == parse_control_ptz_xml(m, "ControlPTZCmd")
parse_ptz_cmd_response_xml(m) == parse_result_action_xml(m, "ControlPTZCmdResponse")

parse_submit_alarm_request_xml(m) ==
  Accept(m, "SubmitAlarm",
    ReadNums(m.kids, [channel |-> "channel", alarmType |-> "alarm_type",
                      actionType |-> "action_type"])
    @@ ReadStrs(m.kids, [puId |-> "pu_id", data |-> "data"])
    @@ ReadTimes(m.kids, [alarmTime |-> "alarm_time"]))
==============================================================================
