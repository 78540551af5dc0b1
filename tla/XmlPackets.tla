-------------------------------- MODULE XmlPackets --------------------------------
(***************************************************************************)
(* The packets that the messages of hmxml carry (hm_sdk.h, hm_packet.h,    *)
(* proxy_info.h).  A structure is a function from the paths of its fields  *)
(* to what they hold: a value, the rows of an array or of a list, the      *)
(* count of those rows, or the index of the row that the field is in.      *)
(* Reserved bytes are left out, and so is the width of a number.           *)
(***************************************************************************)
EXTENDS XmlTree

Fields(names)      == [f \in names |-> [kind |-> "value"]]
Array(name, row)   == [f \in {name} |-> [kind |-> "rows", row |-> row]]
Count(name, array) == [f \in {name} |-> [kind |-> "count", array |-> array]]
Index(name)        == [f \in {name} |-> [kind |-> "index"]]

\* A structure inside a structure; a count goes on naming its array.
Inner(prefix, struct) ==
  Embed(prefix, [f \in DOMAIN struct |->
    IF struct[f].kind = "count" THEN [struct[f] EXCEPT !.array = prefix \o @]
                                ELSE struct[f]])

\* The two ends of a segment are one field here.
JTimeSeg == Fields({ "enable", "times"})

JDay ==
  Fields({ "all_day_enable"})
  @@ Count("count", "seg")
  @@ Index("day_id")
  @@ Array("seg", JTimeSeg)

JWeek == Count("count", "days") @@ Array("days", JDay)
JNetwork == Fields({ "dhcp_enable", "mac", "ip", "netmask", "gateway"}) @@ Index("type")
JRectangle == Fields({ "left", "top", "right", "bottom"})
JArea == Count("count", "rect") @@ Array("rect", JRectangle)

JDiskInfo ==
  Fields({ "disk_no", "total_size", "free_size", "is_backup", "status", "disk_type",
             "sys_file_type"})

JJoint ==
  Fields({ "joint_record_enable_channel", "joint_output_enable_channel",
             "joint_snap_enable_channel", "joint_record_second", "joint_beep_enable",
             "joint_beep_second", "joint_output_times", "joint_snap_interval",
             "joint_snap_times", "joint_email_enable"})

Store == Fields({ "rec_type", "file_size", "beg_time", "end_time", "property"})
JResultCode == Fields({ "code"})

JOSDExtend ==
  Fields({ "ext_text1_enable", "ext_text1_data", "ext_text1_display_x",
             "ext_text1_display_y", "ext_text1_display_w", "ext_text1_display_h",
             "ext_text2_enable", "ext_text2_data", "ext_text2_display_x",
             "ext_text2_display_y", "ext_text2_display_w", "ext_text2_display_h"})

JUserInfo == Fields({ "username", "password"})
JUserHeart == Fields({ "server_time"})

JRemoteChannelInfo ==
  Fields({ "ch_no", "protocol", "audio_enable", "user_name", "user_pwd", "win_mode",
             "win_max_strm", "win_min_strm"})

JRemoteDeviceInfo == Fields({ "ip", "port", "dev_type", "ch_sum", "dns_enable", "dns"})

JWifiApInfo ==
  Fields({ "essid", "encrypt_type", "auth_mode", "secret_key_type", "quality", "bit_rate"})

JSegment == Fields({ "open", "begin_sec", "reserve", "end_sec"})
JAvdRule == Fields({ "enable", "level", "alarm_times", "reserve"})
JDivMode == Fields({ "div_id", "mode_name", "description"})

JDivisionMode ==
  Fields({ "page_size", "start_row", "total"})
  @@ Count("count", "mode")
  @@ Array("mode", JDivMode)

JDivisionInfo ==
  Fields({ "div_no", "action", "result", "encoder", "enc_chn", "level", "url", "flag"})

JFullScreenMode == Fields({ "encoder", "enc_chn", "level", "action", "result"})

JScreenState ==
  Fields({ "div_id", "fs_mode"})
  @@ Count("count", "division")
  @@ Array("division", JDivisionInfo)
  @@ Inner("full_screen.", JFullScreenMode)

JChangeDMode == Fields({ "div_id", "dis_chn"})
JScreen == Fields({ "div_no", "dis_chn"})

JTVWallPlay ==
  Fields({ "action", "name", "step", "dis_chn", "div_id", "k_other"})
  @@ Count("count", "division")
  @@ Array("division", JDivisionInfo)

JOperationLogItem == Fields({ "times", "major_type", "minor_type", "args", "user", "ip"})

JOperationLogCond ==
  Fields({ "beg_time", "end_time", "type", "user", "ip", "beg_node", "end_node", "sess_id"})

JOperationLog ==
  Fields({ "total_count"})
  @@ Inner("cond.", JOperationLogCond)
  @@ Count("node_count", "item")
  @@ Array("item", JOperationLogItem)

JAlarmUploadCfg == Fields({ "enable", "host", "port", "type"})
JPresetPoint == Fields({ "name", "preset"})
JPPConfig == Fields({ "action"}) @@ Inner("pp.", JPresetPoint)
JPPSet == Count("pp_count", "pp") @@ Array("pp", JPresetPoint)
JCruiseInfo == Fields({ "crz_name", "crz_no"})
JCruisePoint == Fields({ "preset", "speed", "dwell"})

JCruiseWay ==
  Inner("crz_info.", JCruiseInfo)
  @@ Count("pp_count", "crz_pp")
  @@ Array("crz_pp", JCruisePoint)

JCruiseConfig == Fields({ "action", "crz_no"})
JCruiseWaySet == Count("crz_count", "crz_info") @@ Array("crz_info", JCruiseInfo)
J3DControl == Fields({ "x_offset", "y_offset", "amplify"})
JIrcutAutoSwitch == Fields({ "sensitive"})
JIrcutTimerSwitch == Array("seg_time", JSegment)
JLinkIO == Fields({ "time_len", "data"})
JLinkPreset == Fields({ "preset"})
JResolutionInfo == Fields({ "resolution"})
JIrcutRTCSwitch == Fields({ "rtc"})

\* The three switches share their memory; the mode tells which one is meant.
JIrcut ==
  Fields({ "ircut_mode", "auto_c2b"})
  @@ Inner("autos.", JIrcutAutoSwitch)
  @@ Inner("rtcs.", JIrcutRTCSwitch)
  @@ Array("timers", JIrcutTimerSwitch)

JIrcutControl == Count("count", "ircut") @@ Array("ircut", JIrcut)
JExtranetPort == Fields({ "cmd_port", "data_port", "http_port", "talk_port"})
JPoint == Fields({ "x", "y"})
JQuadrAngle == Array("angle", JPoint)
JTrough == Fields({ "id", "name", "percent"}) @@ Inner("quadr.", JQuadrAngle)
JField == Count("trough_count", "trough") @@ Array("trough", JTrough)

JHerdAnalyse ==
  Fields({ "fodder_eable", "report_intv", "max_width", "max_height"})
  @@ Inner("week.", JWeek)
  @@ Inner("field.", JField)

JGrassPercent == Inner("field.", JField)
JP2PId == Fields({ "pu_id", "p2p_id"})
prx_modify_pwd == Fields({ "username", "old_pwd", "new_pwd"})

prx_device_info ==
  Fields({ "result", "device_id", "device_st", "device_err", "pu_type", "device_port",
             "platform_port", "protocol", "pu_id", "factory", "sdk_version", "device_ip",
             "platform_ip", "username", "password"})

prx_device_state == Fields({ "dev_id", "dev_state", "err_code"})

prx_user_st ==
  Fields({ "result"})
  @@ Count("count", "user_info")
  @@ Array("user_info", JUserInfo)

prx_page_user ==
  Fields({ "total", "offset", "username"})
  @@ Count("count", "user_info")
  @@ Array("user_info", JUserInfo)

prx_page_device ==
  Fields({ "total", "offset", "dev_id", "machine_type", "sdk_version", "factory_name"})
  @@ Count("count", "dev_info")
  @@ Array("dev_info", prx_device_info)

prx_device_id_st == Count("count", "device_id") @@ Array("device_id", Fields({"device_id"}))
prx_device_st == Count("count", "device_info") @@ Array("device_info", prx_device_info)

\* The machines of a factory are three arrays side by side.
Machine == Fields({"type"}) @@ Count("ver_count", "sdk_version")
           @@ Array("sdk_version", Fields({"version"}))

prx_factory_info ==
  Fields({ "factory_name"})
  @@ Count("type_count", "type")
  @@ Array("type", Machine)

prx_factory_list == Count("count", "factory") @@ Array("factory", prx_factory_info)
prx_server_config == Fields({ "server_ip", "listen_port", "rtsp_port"})
prx_backup == Fields({ "magic", "port", "size", "result"})
prx_limit == Fields({ "start", "end"})
Request == Fields({ "session_id", "domain_id", "pu_or_gu_id", "reserve"})

Result ==
  Fields({ "session_id", "domain_id", "pu_or_gu_id", "reserve"})
  @@ Inner("result.", JResultCode)

PuGetCssPacket ==
  Fields({ "css_ip", "css_port", "dev_code", "software_ver"})
  @@ Inner("result.", JResultCode)

PuRegisterCssPacket == Fields({ "dev_code", "dev_ip", "css_ip", "software_ver"})
RegisterRequestPacket == Fields({ "pu_id", "dev_ip", "cms_ip", "pu_type"})

RegisterResponsePacket ==
  Fields({ "pu_id", "mds_ip", "mds_port", "keep_alive"})
  @@ Inner("result.", JResultCode)

HeartBeatRequestPacket == Fields({ "pu_id", "dev_ip"})

HeartBeatResponsePacket ==
  Fields({ "server_time", "plt_type"})
  @@ Inner("result.", JResultCode)

MdsInfoPacket ==
  Fields({ "pu_id", "cms_ip", "mds_ip", "mds_port"})
  @@ Inner("result.", JResultCode)

ChangeDispatchPacket == Fields({ "session_id", "domain_id", "pu_id", "mds_ip", "mds_port"})

DeviceInfoPacket ==
  Fields({ "session_id", "domain_id", "pu_id", "manu_info", "release_date", "dev_version",
             "hw_version", "pu_type", "sub_type", "di_num", "do_num", "channel_num",
             "rs485_num", "rs232_num"})
  @@ Inner("result.", JResultCode)

DeviceNTPInfoPacket ==
  Fields({ "session_id", "domain_id", "pu_id", "ntp_server_ip", "time_zone",
             "time_interval", "ntp_enable", "dst_enable", "reserve"})
  @@ Inner("result.", JResultCode)

DeviceTimePacket ==
  Fields({ "session_id", "domain_id", "pu_id", "time", "zone", "sync_enable", "set_flag"})
  @@ Inner("result.", JResultCode)

PlatformInfoPacket ==
  Fields({ "session_id", "domain_id", "pu_id", "cms_ip", "mds_ip", "cms_port", "mds_port",
             "protocol", "is_con_cms"})
  @@ Inner("result.", JResultCode)

NetworkInfoPacket ==
  Fields({ "session_id", "domain_id", "pu_id", "main_dns", "backup_dns", "auto_dns_enable",
             "cur_network", "cmd_port", "data_port", "web_port", "talk_port"})
  @@ Inner("result.", JResultCode)
  @@ Array("network", JNetwork)

PPPOEInfoPacket ==
  Fields({ "session_id", "domain_id", "pu_id", "type", "enable", "ip", "account", "passwd"})
  @@ Inner("result.", JResultCode)

EncodeParameterPacket ==
  Fields({ "session_id", "domain_id", "gu_id", "level", "frame_rate", "i_frame_interval",
             "video_type", "audio_type", "au_in_mode", "audio_enble", "resolution",
             "qp_value", "code_rate", "frame_priority", "format", "bit_rate",
             "encode_level"})
  @@ Inner("result.", JResultCode)

DisplayParameterPacket ==
  Fields({ "session_id", "domain_id", "gu_id", "contrast", "bright", "hue", "saturation",
             "sharpness"})
  @@ Inner("result.", JResultCode)

RecordParameterPacket ==
  Fields({ "session_id", "domain_id", "gu_id", "level", "pre_record", "auto_cover"})
  @@ Inner("result.", JResultCode)
  @@ Inner("week.", JWeek)

HideParameterPacket ==
  Fields({ "session_id", "domain_id", "gu_id", "hide_enable", "hide_color", "max_width",
             "max_height"})
  @@ Inner("result.", JResultCode)
  @@ Inner("hide_area.", JArea)

SerialParameterPacket ==
  Fields({ "session_id", "domain_id", "pu_id", "serial_no", "baud_rate", "data_bit",
             "stop_bit", "verify"})
  @@ Inner("result.", JResultCode)

OSDParameterPacket ==
  Fields({ "session_id", "domain_id", "gu_id", "time_enable", "time_display_x",
             "time_display_y", "time_display_color", "text_enable", "text_display_x",
             "text_display_y", "text_display_color", "max_width", "max_height",
             "text_data", "stream_enable", "time_display_w", "time_display_h",
             "text_display_w", "text_display_h", "osd_invert_color"})
  @@ Inner("result.", JResultCode)
  @@ Inner("ext_osd.", JOSDExtend)

PTZParameterPacket ==
  Fields({ "session_id", "domain_id", "gu_id", "serial_no", "ptz_addr", "protocol",
             "baud_rate", "data_bit", "stop_bit", "verify"})
  @@ Inner("result.", JResultCode)

PTZControlPacket ==
  Fields({ "session_id", "domain_id", "gu_id", "action", "param"})
  @@ Inner("result.", JResultCode)

FTPParameterPacket ==
  Fields({ "session_id", "domain_id", "pu_id", "ftp_ip", "ftp_usr", "ftp_pwd", "ftp_path",
             "ftp_port"})
  @@ Inner("result.", JResultCode)

SMTPParameterPacket ==
  Fields({ "session_id", "domain_id", "pu_id", "mail_ip", "mail_addr", "mail_usr",
             "mail_pwd", "mail_rctp1", "mail_rctp2", "mail_rctp3", "mail_port",
             "ssl_enable"})
  @@ Inner("result.", JResultCode)

UPNPParameterPacket ==
  Fields({ "session_id", "domain_id", "pu_id", "upnp_ip", "upnp_enable", "upnp_eth_no",
             "upnp_model", "upnp_refresh_time", "upnp_data_port", "upnp_web_port",
             "upnp_data_port_result", "upnp_web_port_result", "upnp_cmd_port",
             "upnp_talk_port", "upnp_cmd_port_result", "upnp_talk_port_result"})
  @@ Inner("result.", JResultCode)

DeviceDiskInfoPacket ==
  Fields({ "session_id", "domain_id", "pu_id"})
  @@ Inner("result.", JResultCode)
  @@ Count("disk_num", "disk")
  @@ Array("disk", JDiskInfo)

FormatDiskPacket ==
  Fields({ "session_id", "domain_id", "pu_id", "disk_no", "progress"})
  @@ Inner("result.", JResultCode)

FormatProgressPacket == Fields({ "pu_id", "disk_no", "progress"})

MoveAlarmPacket ==
  Fields({ "session_id", "domain_id", "gu_id", "move_enable", "sensitive_level",
             "detect_interval", "max_width", "max_height"})
  @@ Inner("result.", JResultCode)
  @@ Inner("detect_area.", JArea)
  @@ Inner("week.", JWeek)

LostAlarmPacket ==
  Fields({ "session_id", "domain_id", "gu_id", "lost_enable", "detect_interval"})
  @@ Inner("result.", JResultCode)
  @@ Inner("week.", JWeek)

HideAlarmPacket ==
  Fields({ "session_id", "domain_id", "gu_id", "hide_enable", "detect_interval",
             "sensitive_level", "max_width", "max_height"})
  @@ Inner("result.", JResultCode)
  @@ Inner("detect_area.", JArea)
  @@ Inner("week.", JWeek)

IoAlarmPacket ==
  Fields({ "session_id", "domain_id", "gu_id", "io_type", "alarm_enable", "detect_interval"})
  @@ Inner("result.", JResultCode)
  @@ Inner("week.", JWeek)

JointActionPacket ==
  Fields({ "session_id", "domain_id", "gu_id", "alarm_type"})
  @@ Inner("result.", JResultCode)
  @@ Inner("joint.", JJoint)

SubmitAlarmPacket ==
  Fields({ "pu_id", "data", "channel", "alarm_type", "action_type", "alarm_time"})

MediaUrlPacket ==
  Fields({ "session_id", "domain_id", "gu_id", "level", "media_type", "ip", "url", "cu_ip"})
  @@ Inner("result.", JResultCode)

StoreLogPacket ==
  Fields({ "session_id", "domain_id", "gu_id", "rec_type", "beg_node", "end_node",
             "beg_time", "end_time", "total_count", "sess_id"})
  @@ Inner("result.", JResultCode)
  @@ Count("node_count", "store")
  @@ Array("store", Store)

FirmwareUpgradePacket ==
  Fields({ "session_id", "domain_id", "pu_id", "percent", "data_len", "file_len", "sess_id",
             "addr", "data"})
  @@ Inner("result.", JResultCode)

UpgradeProgressPacket == Fields({ "pu_id", "percent"})

ChannelInfoPacket ==
  Fields({ "session_id", "domain_id", "pu_id", "ch_no", "ch_type", "ch_status", "ch_name"})
  @@ Inner("result.", JResultCode)
  @@ Inner("rmt_ch_info.", JRemoteChannelInfo)
  @@ Inner("rmt_dev_info.", JRemoteDeviceInfo)

PictureInfoPacket ==
  Fields({ "session_id", "domain_id", "pu_id", "mirror", "flip", "hz", "awb_mode",
             "awb_red", "awb_blue", "wdr", "iris_type", "exp_compensation", "ae_mode"})
  @@ Inner("result.", JResultCode)

WifiConfigPacket ==
  Fields({ "session_id", "domain_id", "pu_id", "essid", "pwd", "wifi_enable",
             "encrypt_type", "auth_mode", "secret_key_type", "wifi_st"})
  @@ Inner("result.", JResultCode)

WifiSearchResPacket ==
  Fields({ "session_id", "domain_id", "pu_id"})
  @@ Inner("result.", JResultCode)
  @@ Count("count", "wifi_ap")
  @@ Array("wifi_ap", JWifiApInfo)

NetworkStatusPacket ==
  Fields({ "session_id", "domain_id", "pu_id", "eth_st", "wifi_st", "pppoe_st"})
  @@ Inner("result.", JResultCode)

ControlDevicePacket ==
  Fields({ "session_id", "domain_id", "pu_id", "command"})
  @@ Inner("result.", JResultCode)

DdnsConfigPacket ==
  Fields({ "session_id", "domain_id", "pu_id", "ddns_account", "ddns_usr", "ddns_pwd",
             "ddns_open", "ddns_type", "ddns_port", "ddns_times"})
  @@ Inner("result.", JResultCode)

AvdConfigPacket ==
  Fields({ "session_id", "domain_id", "pu_id", "enable"})
  @@ Inner("result.", JResultCode)
  @@ Array("sched_time", JSegment)
  @@ Array("avd_rule", JAvdRule)

TransparentPacket ==
  Fields({ "session_id", "domain_id", "pu_id", "type", "channel", "length", "data"})

DivisionModePacket ==
  Fields({ "pu_id"})
  @@ Inner("result.", JResultCode)
  @@ Inner("div_mode.", JDivisionMode)

ScreenStatePacket ==
  Fields({ "session_id", "dis_channel"})
  @@ Inner("result.", JResultCode)
  @@ Inner("scr_state.", JScreenState)

ChangeDModePacket == Inner("result.", JResultCode) @@ Inner("cd_mode.", JChangeDMode)
FullScreenPacket == Inner("result.", JResultCode) @@ Inner("screen.", JScreen)
TVWallPlayPacket == Inner("result.", JResultCode) @@ Inner("tv_play.", JTVWallPlay)
ClearDivisionPacket == Inner("result.", JResultCode) @@ Inner("screen.", JScreen)
OperationLogPacket == Inner("result.", JResultCode) @@ Inner("opt_log.", JOperationLog)

PPConfigPacket ==
  Fields({ "session_id", "domain_id", "gu_id"})
  @@ Inner("result.", JResultCode)
  @@ Inner("pp_cfg.", JPPConfig)

PPSetPacket ==
  Fields({ "session_id", "domain_id", "gu_id"})
  @@ Inner("result.", JResultCode)
  @@ Inner("pp_set.", JPPSet)

CruiseConfigPacket ==
  Fields({ "session_id", "domain_id", "gu_id"})
  @@ Inner("result.", JResultCode)
  @@ Inner("crz_cfg.", JCruiseConfig)

CruiseWayPacket ==
  Fields({ "session_id", "domain_id", "gu_id"})
  @@ Inner("result.", JResultCode)
  @@ Inner("crz_way.", JCruiseWay)

CruiseWaySetPacket ==
  Fields({ "session_id", "domain_id", "gu_id"})
  @@ Inner("result.", JResultCode)
  @@ Inner("crz_set.", JCruiseWaySet)

_3DControlPacket ==
  Fields({ "session_id", "domain_id", "gu_id"})
  @@ Inner("_3d_ctr.", J3DControl)

LinkIOPacket ==
  Fields({ "session_id", "domain_id", "gu_id"})
  @@ Inner("result.", JResultCode)
  @@ Inner("link_io.", JLinkIO)

LinkPresetPacket ==
  Fields({ "session_id", "domain_id", "gu_id"})
  @@ Inner("result.", JResultCode)
  @@ Inner("link_preset.", JLinkPreset)

ResolutionInfoPacket ==
  Fields({ "session_id", "domain_id", "gu_id"})
  @@ Inner("result.", JResultCode)
  @@ Inner("rsl_info.", JResolutionInfo)

IrcutControlPacket ==
  Fields({ "session_id", "domain_id", "gu_id"})
  @@ Inner("result.", JResultCode)
  @@ Inner("ircut_ctrl.", JIrcutControl)

ExtranetPortPacket ==
  Fields({ "session_id", "domain_id", "gu_id"})
  @@ Inner("result.", JResultCode)
  @@ Inner("extranet.", JExtranetPort)

HerdAnalysePacket ==
  Fields({ "session_id", "domain_id", "gu_id"})
  @@ Inner("result.", JResultCode)
  @@ Inner("herd_analyse.", JHerdAnalyse)

GrassPercentPacket ==
  Fields({ "session_id", "domain_id", "gu_id"})
  @@ Inner("result.", JResultCode)
  @@ Inner("grass.", JGrassPercent)

P2PIdPacket == Inner("result.", JResultCode) @@ Inner("p2p.", JP2PId)

P2PIdPacketReq ==
  Fields({ "channel_count"})
  @@ Inner("result.", JResultCode)
  @@ Inner("p2p.", JP2PId)

\* Functions that take a plain number or a name.
IntPacket == Fields({"int"})
UserName  == Fields({"username"})
=============================================================================
