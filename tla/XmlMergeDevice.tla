--------------------------- MODULE XmlMergeDevice ---------------------------
(*****************************************************************************)
(* What the merge functions of hmxml write of the parameters, the alarms and *)
(* the state of a device (xml-merge.c). A function takes the packet of a     *)
(* message, and the type of the message when several share it, and gives the *)
(* elements of the message: what they are called, which field each one       *)
(* carries and whether it is written as a number, a string or a date.        *)
(*****************************************************************************)
EXTENDS XmlTree

\* The third branch for alarms repeats the test of the first and never holds;
\* only the request for one cruise has its number.
merge_request_action_xml(p, command) ==
  Message(command,
    Strs(p, [sessionId |-> "session_id", domainId |-> "domain_id"])
    \cup (IF judge_pu_or_gu(Value(p, "pu_or_gu_id"))
            THEN Strs(p, [guId |-> "pu_or_gu_id"])
            ELSE Strs(p, [puId |-> "pu_or_gu_id"]))
    \cup CASE command = "GetSerialParameter"  -> Nums(p, [serialNo |-> "reserve"])
           [] command = "GetCruiseWay" -> Nums(p, [cruiseNo |-> "reserve"])
           [] OTHER -> {})

merge_result_action_xml(p, command) ==
  Message(command,
    Nums(p, [resultCode |-> "result.code"])
    \cup Strs(p, [sessionId |-> "session_id", domainId |-> "domain_id"])
    \cup (IF judge_pu_or_gu(Value(p, "pu_or_gu_id"))
            THEN Strs(p, [guId |-> "pu_or_gu_id"])
            ELSE Strs(p, [puId |-> "pu_or_gu_id"]))
    \cup (IF command = "AddCruiseWayResponse"
            THEN Nums(p, [cruiseNo |-> "reserve"]) ELSE {}))

merge_get_css_request_xml(p) ==
  Message("PuGetCss", Strs(p, [deviceCode |-> "dev_code", puVersion |-> "software_ver"]))

merge_get_css_response_xml(p) ==
  Message("PuGetCssResponse",
    Nums(p, [resultCode |-> "result.code", cssPort |-> "css_port"])
    \cup Strs(p, [cssIP |-> "css_ip"]))

merge_pu_register_css_xml(p) ==
  Message("PuRegister",
    Strs(p, [deviceCode |-> "dev_code", deviceIp |-> "dev_ip", cssIP |-> "css_ip",
             puVersion |-> "software_ver"]))

merge_register_request_xml(p) ==
  Message("PuRegister",
    Nums(p, [puType |-> "pu_type"])
    \cup Strs(p, [puId |-> "pu_id", deviceIp |-> "dev_ip", cmsIp |-> "cms_ip"]))

merge_register_response_xml(p) ==
  Message("PuRegisterResponse",
    Nums(p, [resultCode |-> "result.code", keepAliveTime |-> "keep_alive",
             mdsPort |-> "mds_port"])
    \cup Strs(p, [puId |-> "pu_id", mdsIp |-> "mds_ip"]))

merge_heart_beat_request_xml(p) ==
  Message("PuHeart", Strs(p, [puId |-> "pu_id", deviceIp |-> "dev_ip"]))

merge_heart_beat_response_xml(p) ==
  Message("PuHeartResponse",
    Nums(p, [resultCode |-> "result.code"])
    \cup Times(p, [serverTime |-> "server_time"]))

merge_get_mds_info_request_xml(p) ==
  Message("GetMdsInfo", Strs(p, [puId |-> "pu_id", cmsIp |-> "cms_ip"]))

merge_get_mds_info_response_xml(p) ==
  Message("GetMdsInfoResponse",
    Nums(p, [resultCode |-> "result.code", port |-> "mds_port"])
    \cup Strs(p, [puId |-> "pu_id", cmsIp |-> "cms_ip", ip |-> "mds_ip"]))

merge_change_dispatch_request_xml(p) ==
  Message("ChangeDispatch",
    Nums(p, [mdsPort |-> "mds_port"])
    \cup Strs(p, [sessionId |-> "session_id", domainId |-> "domain_id",
                  puId |-> "pu_id", mdsIp |-> "mds_ip"]))

\* The details of the device follow only a result of 0.
merge_device_info_response_xml(p) ==
  Message("GetDeviceInfoResponse",
    Strs(p, [sessionId |-> "session_id", domainId |-> "domain_id", puId |-> "pu_id"])
    \cup Nums(p, [resultCode |-> "result.code"])
    \cup (IF Value(p, "result.code") # Zero THEN {}
          ELSE Nums(p, [puType |-> "pu_type", puSubType |-> "sub_type",
                        diNum |-> "di_num", doNum |-> "do_num",
                        channelNum |-> "channel_num", RS485Num |-> "rs485_num",
                        RS232Num |-> "rs232_num"])
               \cup Strs(p, [manuInfo |-> "manu_info", releaseDate |-> "release_date",
                             devVersion |-> "dev_version",
                             hwVersion |-> "hw_version"])))

merge_device_ntp_info_xml(p, command) ==
  Message(command,
    Nums(p, [resultCode |-> "result.code", timeZone |-> "time_zone",
             timeInterval |-> "time_interval", ntpEnable |-> "ntp_enable",
             dstEnable |-> "dst_enable", reserve |-> "reserve"])
    \cup Strs(p, [sessionId |-> "session_id", domainId |-> "domain_id",
                  puId |-> "pu_id", ntpServerIp |-> "ntp_server_ip"]))

merge_device_time_xml(p, command) ==
  Message(command,
    Nums(p, [resultCode |-> "result.code", timeZone |-> "zone",
             syncEnable |-> "sync_enable", setFlag |-> "set_flag"])
    \cup Strs(p, [sessionId |-> "session_id", domainId |-> "domain_id", puId |-> "pu_id"])
    \cup Times(p, [time |-> "time"]))

merge_platform_info_xml(p, command) ==
  Message(command,
    Nums(p, [resultCode |-> "result.code", cmsPort |-> "cms_port",
             mdsPort |-> "mds_port", protocol |-> "protocol", isConCms |-> "is_con_cms"])
    \cup Strs(p, [sessionId |-> "session_id", domainId |-> "domain_id",
                  puId |-> "pu_id", cmsIp |-> "cms_ip", mdsIp |-> "mds_ip"]))

\* One element for each kind of network, with the kind as its attribute.
merge_network_info_xml(p, command) ==
  LET network(i, row) ==
        create_attr(
          [Group("network", Nums(row, [dhcpEnable |-> "dhcp_enable"])
                            \cup Strs(row, [mac |-> "mac", ip |-> "ip",
                                            netmask |-> "netmask",
                                            gateway |-> "gateway"]))
             EXCEPT !.at = i], "type", Num(i - 1))
  IN Message(command,
       Nums(p, [resultCode |-> "result.code", autoDnsEnable |-> "auto_dns_enable",
                cmdPort |-> "cmd_port", dataPort |-> "data_port",
                webPort |-> "web_port", talkPort |-> "talk_port"])
       \cup Strs(p, [sessionId |-> "session_id", domainId |-> "domain_id",
                     puId |-> "pu_id", mainDns |-> "main_dns",
                     backupDns |-> "backup_dns"])
       \cup {network(i, List(p, "network")[i]) : i \in DOMAIN List(p, "network")})

merge_pppoe_info_xml(p, command) ==
  Message(command,
    Nums(p, [resultCode |-> "result.code", pppoeInterface |-> "type",
             pppoeEnable |-> "enable"])
    \cup Strs(p, [sessionId |-> "session_id", domainId |-> "domain_id",
                  puId |-> "pu_id", pppoeIp |-> "ip", pppoeAccount |-> "account",
                  pppoePasswd |-> "passwd"]))

merge_encode_parameter_xml(p, command) ==
  Message(command,
    Nums(p, [resultCode |-> "result.code", frameRate |-> "frame_rate",
             iFrameInterval |-> "i_frame_interval", videoType |-> "video_type",
             audioType |-> "audio_type", audioInputMode |-> "au_in_mode",
             audioEnable |-> "audio_enble", resolution |-> "resolution",
             QpValue |-> "qp_value", codeRate |-> "code_rate",
             framePriority |-> "frame_priority", videoFormat |-> "format",
             bitRateType |-> "bit_rate", encodeLevel |-> "encode_level"])
    \cup Strs(p, [sessionId |-> "session_id", domainId |-> "domain_id", guId |-> "gu_id"]))

merge_display_parameter_xml(p, command) ==
  Message(command,
    Nums(p, [resultCode |-> "result.code", contrast |-> "contrast", bright |-> "bright",
             hue |-> "hue", saturation |-> "saturation", sharpness |-> "sharpness"])
    \cup Strs(p, [sessionId |-> "session_id", domainId |-> "domain_id", guId |-> "gu_id"]))

\* The days of a schedule with their segments; a day carries Also of its own.
WeekDays(days, Also(_)) ==
  LET segments(day) ==
        Group("timeSegs",
          {create_attr([create_child("timeSeg", "part", Value(day.seg[j], "times"))
                          EXCEPT !.at = j], "enable", Value(day.seg[j], "enable"))
             : j \in DOMAIN day.seg})
  IN {Group("weekDays", MarkedRows("weekDay", days, "Id", "day_id",
                                   LAMBDA d : Also(d) \cup {segments(d)}))}

merge_record_parameter_xml(p, command) ==
  Message(command,
    Nums(p, [resultCode |-> "result.code", preRecord |-> "pre_record",
             autoCover |-> "auto_cover"])
    \cup Strs(p, [sessionId |-> "session_id", domainId |-> "domain_id", guId |-> "gu_id"])
    \cup WeekDays(List(p, "week.days"),
                  LAMBDA day : Nums(day, [allDayEnable |-> "all_day_enable"])))

Rectangles(rows) ==
  Rows("rect", rows, LAMBDA r : Nums(r, [left |-> "left", top |-> "top",
                                         right |-> "right", bottom |-> "bottom"]))

merge_hide_parameter_xml(p, command) ==
  Message(command,
    Nums(p, [resultCode |-> "result.code", hideEnable |-> "hide_enable",
             hideColor |-> "hide_color", maxWidth |-> "max_width",
             maxHeight |-> "max_height"])
    \cup Strs(p, [sessionId |-> "session_id", domainId |-> "domain_id", guId |-> "gu_id"])
    \cup {create_attr(Group("hideArea", Rectangles(List(p, "hide_area.rect"))),
                      "hideNum", Value(p, "hide_area.count"))})

merge_serial_parameter_xml(p, command) ==
  Message(command,
    Nums(p, [resultCode |-> "result.code", serialNo |-> "serial_no",
             baudRate |-> "baud_rate", dataBit |-> "data_bit", stopBit |-> "stop_bit",
             verify |-> "verify"])
    \cup Strs(p, [sessionId |-> "session_id", domainId |-> "domain_id", puId |-> "pu_id"]))

merge_osd_parameter_xml(p, command) ==
  Message(command,
    Nums(p, [resultCode |-> "result.code", displayTimeEnable |-> "time_enable",
             timeDisplayX |-> "time_display_x", timeDisplayY |-> "time_display_y",
             timeDisplayColor |-> "time_display_color",
             displayTextEnable |-> "text_enable", textDisplayX |-> "text_display_x",
             textDisplayY |-> "text_display_y",
             textDisplayColor |-> "text_display_color", maxWidth |-> "max_width",
             maxHeight |-> "max_height", displayStreamEnable |-> "stream_enable",
             timeDisplayW |-> "time_display_w", timeDisplayH |-> "time_display_h",
             textDisplayW |-> "text_display_w", textDisplayH |-> "text_display_h",
             text1DisplayEnable |-> "ext_osd.ext_text1_enable",
             text1DisplayX |-> "ext_osd.ext_text1_display_x",
             text1DisplayY |-> "ext_osd.ext_text1_display_y",
             text1DisplayW |-> "ext_osd.ext_text1_display_w",
             text1DisplayH |-> "ext_osd.ext_text1_display_h",
             text2DisplayEnable |-> "ext_osd.ext_text2_enable",
             text2DisplayX |-> "ext_osd.ext_text2_display_x",
             text2DisplayY |-> "ext_osd.ext_text2_display_y",
             text2DisplayW |-> "ext_osd.ext_text2_display_w",
             text2DisplayH |-> "ext_osd.ext_text2_display_h"])
    \cup Strs(p, [sessionId |-> "session_id", domainId |-> "domain_id",
                  guId |-> "gu_id", textDisplayData |-> "text_data",
                  text1DisplayData |-> "ext_osd.ext_text1_data",
                  text2DisplayData |-> "ext_osd.ext_text2_data"]))

merge_ptz_parameter_xml(p, command) ==
  Message(command,
    Nums(p, [resultCode |-> "result.code", serialNo |-> "serial_no",
             ptzAddr |-> "ptz_addr", ptzProt |-> "protocol", baudRate |-> "baud_rate",
             dataBit |-> "data_bit", stopBit |-> "stop_bit", verify |-> "verify"])
    \cup Strs(p, [sessionId |-> "session_id", domainId |-> "domain_id", guId |-> "gu_id"]))

merge_ftp_parameter_xml(p, command) ==
  Message(command,
    Nums(p, [resultCode |-> "result.code", ftpPort |-> "ftp_port"])
    \cup Strs(p, [sessionId |-> "session_id", domainId |-> "domain_id",
                  puId |-> "pu_id", ftpIp |-> "ftp_ip", ftpUsr |-> "ftp_usr",
                  ftpPwd |-> "ftp_pwd", ftpPath |-> "ftp_path"]))

merge_smtp_parameter_xml(p, command) ==
  Message(command,
    Nums(p, [resultCode |-> "result.code", mailPort |-> "mail_port",
             SSLEnable |-> "ssl_enable"])
    \cup Strs(p, [sessionId |-> "session_id", domainId |-> "domain_id",
                  puId |-> "pu_id", mailIp |-> "mail_ip", mailAddr |-> "mail_addr",
                  mailUsr |-> "mail_usr", mailPwd |-> "mail_pwd",
                  mailRctp1 |-> "mail_rctp1", mailRctp2 |-> "mail_rctp2",
                  mailRctp3 |-> "mail_rctp3"]))

merge_upnp_parameter_xml(p, command) ==
  Message(command,
    Nums(p, [resultCode |-> "result.code", upnpEnable |-> "upnp_enable",
             upnpEthNo |-> "upnp_eth_no", upnpModel |-> "upnp_model",
             upnpRefreshTime |-> "upnp_refresh_time", upnpDataPort |-> "upnp_data_port",
             upnpWebPort |-> "upnp_web_port",
             upnpDataPortResult |-> "upnp_data_port_result",
             upnpWebPortResult |-> "upnp_web_port_result",
             upnpCmdPort |-> "upnp_cmd_port", upnpTalkPort |-> "upnp_talk_port",
             upnpCmdPortResult |-> "upnp_cmd_port_result",
             upnpTalkPortResult |-> "upnp_talk_port_result"])
    \cup Strs(p, [sessionId |-> "session_id", domainId |-> "domain_id",
                  puId |-> "pu_id", upnpIp |-> "upnp_ip"]))

merge_device_disk_info_response_xml(p) ==
  LET disks == MarkedRows("disk", List(p, "disk"), "diskNo", "disk_no", LAMBDA d :
                 Nums(d, [totalSize |-> "total_size", freeSize |-> "free_size",
                          isBackup |-> "is_backup", diskStatus |-> "status",
                          diskType |-> "disk_type", sysFileType |-> "sys_file_type"]))
  IN Message("GetDiskInfoResponse",
       Nums(p, [resultCode |-> "result.code"])
       \cup Strs(p, [sessionId |-> "session_id", domainId |-> "domain_id",
                     puId |-> "pu_id"])
       \cup {create_attr(Group("diskInfo", disks), "diskNum", Value(p, "disk_num"))})

merge_format_disk_info_xml(p, command) ==
  Message(command,
    Nums(p, [diskNo |-> "disk_no", fmtProgress |-> "progress"])
    \cup Strs(p, [puId |-> "pu_id"]))

merge_submit_format_progress_xml(p) ==
  Message("SubmitFormatProgress",
    Nums(p, [diskNo |-> "disk_no", fmtProgress |-> "progress"])
    \cup Strs(p, [puId |-> "pu_id"]))

\* The schedules of the alarms do not carry all_day_enable.
merge_move_alarm_info_xml(p, command) ==
  Message(command,
    Nums(p, [resultCode |-> "result.code", moveEnable |-> "move_enable",
             sensitiveLevel |-> "sensitive_level", detectInterval |-> "detect_interval",
             maxWidth |-> "max_width", maxHeight |-> "max_height"])
    \cup Strs(p, [sessionId |-> "session_id", domainId |-> "domain_id", guId |-> "gu_id"])
    \cup {Group("detectArea", Rectangles(List(p, "detect_area.rect")))}
    \cup WeekDays(List(p, "week.days"), LAMBDA day : {}))

merge_lost_alarm_info_xml(p, command) ==
  Message(command,
    Nums(p, [resultCode |-> "result.code", lostEnable |-> "lost_enable",
             detectInterval |-> "detect_interval"])
    \cup Strs(p, [sessionId |-> "session_id", domainId |-> "domain_id", guId |-> "gu_id"])
    \cup WeekDays(List(p, "week.days"), LAMBDA day : {}))

merge_hide_alarm_info_xml(p, command) ==
  Message(command,
    Nums(p, [resultCode |-> "result.code", hideEnable |-> "hide_enable",
             maxWidth |-> "max_width", maxHeight |-> "max_height",
             detectInterval |-> "detect_interval", sensitiveLevel |-> "sensitive_level"])
    \cup Strs(p, [sessionId |-> "session_id", domainId |-> "domain_id", guId |-> "gu_id"])
    \cup {Group("detectArea", Rectangles(List(p, "detect_area.rect")))}
    \cup WeekDays(List(p, "week.days"), LAMBDA day : {}))

merge_io_alarm_info_xml(p, command) ==
  Message(command,
    Nums(p, [resultCode |-> "result.code", ioType |-> "io_type",
             ioEnable |-> "alarm_enable", detectInterval |-> "detect_interval"])
    \cup Strs(p, [sessionId |-> "session_id", domainId |-> "domain_id", guId |-> "gu_id"])
    \cup WeekDays(List(p, "week.days"), LAMBDA day : {}))

merge_joint_info_xml(p, command) ==
  Message(command,
    Nums(p, [resultCode |-> "result.code", alarmType |-> "alarm_type"])
    \cup Strs(p, [sessionId |-> "session_id", domainId |-> "domain_id", guId |-> "gu_id"])
    \cup {Group("jointAction", {
            Group("jointRecord",
              Nums(p, [recordEnableChannel |-> "joint.joint_record_enable_channel",
                       recordSecond |-> "joint.joint_record_second"])),
            Group("jointIO",
              Nums(p, [beepEnable |-> "joint.joint_beep_enable",
                       beepSecond |-> "joint.joint_beep_second",
                       outputTimes |-> "joint.joint_output_times",
                       outputEnableChannel |-> "joint.joint_output_enable_channel"])),
            Group("jointSnap",
              Nums(p, [snapEnableChannel |-> "joint.joint_snap_enable_channel",
                       snapInterval |-> "joint.joint_snap_interval",
                       snapTimes |-> "joint.joint_snap_times"])),
            Group("jointEmail", Nums(p, [emailEnable |-> "joint.joint_email_enable"]))})})

==============================================================================
