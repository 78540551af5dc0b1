------------------------------- MODULE XmlHandlers -------------------------------
(***************************************************************************)
(* The handlers of the messages of hmxml (hm_xmlhandler.c): for every kind  *)
(* of message a function that writes it and one that reads it.  They are    *)
(* called by their names, as the table of messages holds them.              *)
(***************************************************************************)
EXTENDS XmlPackets, XmlMergeNamed, XmlParseNamed

\* What a handler hands back: a message with the packet that it allocated, or
\* none; the blocks it allocated and still holds, or lost.
Nothing == [known |-> TRUE, given |-> FALSE, id |-> "", packet |-> << >>,
            fields |-> << >>, kept |-> 0, lost |-> 0]
NotHere == [Nothing EXCEPT !.known = FALSE]

\* A parser that takes an int writes the first field of a structure.
Placed(packet, fields) ==
  IF "int" \in DOMAIN fields /\ "int" \notin DOMAIN packet
    THEN "result.code" :> fields["int"] ELSE fields

\* A row that a parser allocated for a list is a block of its own.
Lists(packet, fields) ==
  {f \in DOMAIN fields : /\ f \in DOMAIN packet
                         /\ packet[f].kind = "rows"
                         /\ packet \in {prx_user_st, prx_device_st, prx_factory_list}
                         /\ fields[f] # << >>}

jpf_xml_msg_new(id, packet, fields) ==
  [Nothing EXCEPT !.given = TRUE, !.id = id, !.packet = packet,
                  !.fields = Placed(packet, fields), !.kept = 2]

\* The packet is copied into the message and released: what hangs from it is
\* shared by both, and jpf_priv_obhm_destroy will not release it.
create_xml_msg(id, packet, read) ==
  LET msg == IF read.ok THEN jpf_xml_msg_new(id, packet, read.fields) ELSE Nothing
  IN [msg EXCEPT !.lost = read.tree + Cardinality(Lists(packet, read.fields))]

\* The packet becomes the message's, with a function that releases it and its
\* list; nobody releases it when it could not be read.
create_xml_msg_2(id, packet, read) ==
  IF read.ok
    THEN [jpf_xml_msg_new(id, packet, read.fields) EXCEPT
            !.kept = 2 + Cardinality(Lists(packet, read.fields)), !.lost = read.tree]
    ELSE [Nothing EXCEPT !.lost = 1 + read.tree]

create_transparent_param_xml_msg(id, read) ==
  IF read.ok
    THEN [jpf_xml_msg_new(id, TransparentPacket, read.fields) EXCEPT
            !.kept = IF "data" \in DOMAIN read.fields THEN 3 ELSE 2]
    ELSE [Nothing EXCEPT !.lost = 1]

\* What the parser returned is not looked at: a message is always given.
parse_get_info(id, read)   == jpf_xml_msg_new(id, Request, read.fields)

\* A mutant: the result is read into a request.
parse_set_result_small(id, read) == jpf_xml_msg_new(id, Request, read.fields)

parse_set_result(id, read) == jpf_xml_msg_new(id, Result, read.fields)

\* The functions that write a message: the packet they take the caller's
\* object for, and the message.
Written(packet, message) == [known |-> TRUE, packet |-> packet, message |-> message]
NotWritten == [Written(<< >>, NoMessage) EXCEPT !.known = FALSE]

CreateGroup1(h, p) ==
  CASE h = "create_get_css_request" -> Written(PuGetCssPacket, merge_get_css_request_xml(p))
    [] h = "create_get_css_response" -> Written(PuGetCssPacket, merge_get_css_response_xml(p))
    [] h = "create_pu_register_css" ->
           Written(PuRegisterCssPacket, merge_pu_register_css_xml(p))
    [] h = "create_register_css_response" ->
           Written(RegisterResponsePacket, merge_register_response_xml(p))
    [] h = "create_register_request" ->
           Written(RegisterRequestPacket, merge_register_request_xml(p))
    [] h = "create_register_response" ->
           Written(RegisterResponsePacket, merge_register_response_xml(p))
    [] h = "create_heart_beat_request" ->
           Written(HeartBeatRequestPacket, merge_heart_beat_request_xml(p))
    [] h = "create_heart_beat_response" ->
           Written(HeartBeatResponsePacket, merge_heart_beat_response_xml(p))
    [] h = "create_get_mds_info_request" ->
           Written(MdsInfoPacket, merge_get_mds_info_request_xml(p))
    [] h = "create_get_mds_info_response" ->
           Written(MdsInfoPacket, merge_get_mds_info_response_xml(p))
    [] h = "create_change_dispatch_request" ->
           Written(ChangeDispatchPacket, merge_change_dispatch_request_xml(p))
    [] h = "create_change_dispatch_result" ->
           Written(Result, merge_change_dispatch_result_xml(p))
    [] h = "create_get_device_info" -> Written(Request, merge_get_device_info_xml(p))
    [] h = "create_device_info_response" ->
           Written(DeviceInfoPacket, merge_device_info_response_xml(p))
    [] h = "create_get_device_ntp_info" -> Written(Request, merge_get_device_ntp_info_xml(p))
    [] h = "create_device_ntp_info_response" ->
           Written(DeviceNTPInfoPacket, merge_device_ntp_info_response_xml(p))
    [] h = "create_set_device_ntp_info" ->
           Written(DeviceNTPInfoPacket, merge_set_device_ntp_info_xml(p))
    [] h = "create_device_ntp_info_result" ->
           Written(Result, merge_device_ntp_info_result_xml(p))
    [] h = "create_get_device_time" -> Written(Request, merge_get_device_time_xml(p))
    [] OTHER -> NotWritten

CreateGroup2(h, p) ==
  CASE h = "create_device_time_response" ->
           Written(DeviceTimePacket, merge_device_time_response_xml(p))
    [] h = "create_set_device_time" -> Written(DeviceTimePacket, merge_set_device_time_xml(p))
    [] h = "create_device_time_result" -> Written(Result, merge_device_time_result_xml(p))
    [] h = "create_get_platform_info" -> Written(Request, merge_get_platform_info_xml(p))
    [] h = "create_platform_info_response" ->
           Written(PlatformInfoPacket, merge_platform_info_response_xml(p))
    [] h = "create_set_platform_info" ->
           Written(PlatformInfoPacket, merge_set_platform_info_xml(p))
    [] h = "create_platform_info_result" -> Written(Result, merge_platform_info_result_xml(p))
    [] h = "create_get_network_info" -> Written(Request, merge_get_network_info_xml(p))
    [] h = "create_network_info_response" ->
           Written(NetworkInfoPacket, merge_network_info_response_xml(p))
    [] h = "create_set_network_info" ->
           Written(NetworkInfoPacket, merge_set_network_info_xml(p))
    [] h = "create_network_info_result" -> Written(Result, merge_network_info_result_xml(p))
    [] h = "create_get_pppoe_info" -> Written(Request, merge_get_pppoe_info_xml(p))
    [] h = "create_pppoe_info_response" ->
           Written(PPPOEInfoPacket, merge_pppoe_info_response_xml(p))
    [] h = "create_set_pppoe_info" -> Written(PPPOEInfoPacket, merge_set_pppoe_info_xml(p))
    [] h = "create_pppoe_info_result" -> Written(Result, merge_pppoe_info_result_xml(p))
    [] h = "create_get_encode_parameter" -> Written(Request, merge_get_encode_parameter_xml(p))
    [] h = "create_encode_parameter_response" ->
           Written(EncodeParameterPacket, merge_encode_parameter_response_xml(p))
    [] h = "create_set_encode_parameter" ->
           Written(EncodeParameterPacket, merge_set_encode_parameter_xml(p))
    [] h = "create_encode_parameter_result" ->
           Written(Result, merge_encode_parameter_result_xml(p))
    [] OTHER -> NotWritten

CreateGroup3(h, p) ==
  CASE h = "create_get_display_parameter" ->
           Written(Request, merge_get_display_parameter_xml(p))
    [] h = "create_display_parameter_response" ->
           Written(DisplayParameterPacket, merge_display_parameter_response_xml(p))
    [] h = "create_set_display_parameter" ->
           Written(DisplayParameterPacket, merge_set_display_parameter_xml(p))
    [] h = "create_display_parameter_result" ->
           Written(Result, merge_display_parameter_result_xml(p))
    [] h = "create_get_record_parameter" -> Written(Request, merge_get_record_parameter_xml(p))
    [] h = "create_record_parameter_response" ->
           Written(RecordParameterPacket, merge_record_parameter_response_xml(p))
    [] h = "create_set_record_parameter" ->
           Written(RecordParameterPacket, merge_set_record_parameter_xml(p))
    [] h = "create_record_parameter_result" ->
           Written(Result, merge_record_parameter_result_xml(p))
    [] h = "create_get_hide_parameter" -> Written(Request, merge_get_hide_parameter_xml(p))
    [] h = "create_hide_parameter_response" ->
           Written(HideParameterPacket, merge_hide_parameter_response_xml(p))
    [] h = "create_set_hide_parameter" ->
           Written(HideParameterPacket, merge_set_hide_parameter_xml(p))
    [] h = "create_hide_parameter_result" -> Written(Result, merge_hide_parameter_result_xml(p))
    [] h = "create_get_serial_parameter" -> Written(Request, merge_get_serial_parameter_xml(p))
    [] h = "create_serial_parameter_response" ->
           Written(SerialParameterPacket, merge_serial_parameter_response_xml(p))
    [] h = "create_set_serial_parameter" ->
           Written(SerialParameterPacket, merge_set_serial_parameter_xml(p))
    [] h = "create_serial_parameter_result" ->
           Written(Result, merge_serial_parameter_result_xml(p))
    [] h = "create_get_osd_parameter" -> Written(Request, merge_get_osd_parameter_xml(p))
    [] h = "create_osd_parameter_response" ->
           Written(OSDParameterPacket, merge_osd_parameter_response_xml(p))
    [] h = "create_set_osd_parameter" ->
           Written(OSDParameterPacket, merge_set_osd_parameter_xml(p))
    [] h = "create_osd_parameter_result" -> Written(Result, merge_osd_parameter_result_xml(p))
    [] OTHER -> NotWritten

CreateGroup4(h, p) ==
  CASE h = "create_get_ptz_parameter" -> Written(Request, merge_get_ptz_parameter_xml(p))
    [] h = "create_ptz_parameter_response" ->
           Written(PTZParameterPacket, merge_ptz_parameter_response_xml(p))
    [] h = "create_set_ptz_parameter" ->
           Written(PTZParameterPacket, merge_set_ptz_parameter_xml(p))
    [] h = "create_ptz_parameter_result" -> Written(Result, merge_ptz_parameter_result_xml(p))
    [] h = "create_get_ftp_parameter" -> Written(Request, merge_get_ftp_parameter_xml(p))
    [] h = "create_ftp_parameter_response" ->
           Written(FTPParameterPacket, merge_ftp_parameter_response_xml(p))
    [] h = "create_set_ftp_parameter" ->
           Written(FTPParameterPacket, merge_set_ftp_parameter_xml(p))
    [] h = "create_ftp_parameter_result" -> Written(Result, merge_ftp_parameter_result_xml(p))
    [] h = "create_get_smtp_parameter" -> Written(Request, merge_get_smtp_parameter_xml(p))
    [] h = "create_smtp_parameter_response" ->
           Written(SMTPParameterPacket, merge_smtp_parameter_response_xml(p))
    [] h = "create_set_smtp_parameter" ->
           Written(SMTPParameterPacket, merge_set_smtp_parameter_xml(p))
    [] h = "create_smtp_parameter_result" -> Written(Result, merge_smtp_parameter_result_xml(p))
    [] h = "create_get_upnp_parameter" -> Written(Request, merge_get_upnp_parameter_xml(p))
    [] h = "create_upnp_parameter_response" ->
           Written(UPNPParameterPacket, merge_upnp_parameter_response_xml(p))
    [] h = "create_set_upnp_parameter" ->
           Written(UPNPParameterPacket, merge_set_upnp_parameter_xml(p))
    [] h = "create_upnp_parameter_result" -> Written(Result, merge_upnp_parameter_result_xml(p))
    [] h = "create_get_device_disk_info" -> Written(Request, merge_get_device_disk_info_xml(p))
    [] h = "create_device_disk_info_response" ->
           Written(DeviceDiskInfoPacket, merge_device_disk_info_response_xml(p))
    [] h = "create_format_disk_request" ->
           Written(FormatDiskPacket, merge_format_disk_request_xml(p))
    [] OTHER -> NotWritten

CreateGroup5(h, p) ==
  CASE h = "create_format_disk_result" -> Written(Result, merge_format_disk_result_xml(p))
    [] h = "create_submit_format_progress" ->
           Written(FormatProgressPacket, merge_submit_format_progress_xml(p))
    [] h = "create_get_move_alarm_info" -> Written(Request, merge_get_move_alarm_info_xml(p))
    [] h = "create_move_alarm_info_response" ->
           Written(MoveAlarmPacket, merge_move_alarm_info_response_xml(p))
    [] h = "create_set_move_alarm_info" ->
           Written(MoveAlarmPacket, merge_set_move_alarm_info_xml(p))
    [] h = "create_move_alarm_info_result" ->
           Written(Result, merge_move_alarm_info_result_xml(p))
    [] h = "create_get_lost_alarm_info" -> Written(Request, merge_get_lost_alarm_info_xml(p))
    [] h = "create_lost_alarm_info_response" ->
           Written(LostAlarmPacket, merge_lost_alarm_info_response_xml(p))
    [] h = "create_set_lost_alarm_info" ->
           Written(LostAlarmPacket, merge_set_lost_alarm_info_xml(p))
    [] h = "create_lost_alarm_info_result" ->
           Written(Result, merge_lost_alarm_info_result_xml(p))
    [] h = "create_get_hide_alarm_info" -> Written(Request, merge_get_hide_alarm_info_xml(p))
    [] h = "create_hide_alarm_info_response" ->
           Written(HideAlarmPacket, merge_hide_alarm_info_response_xml(p))
    [] h = "create_set_hide_alarm_info" ->
           Written(HideAlarmPacket, merge_set_hide_alarm_info_xml(p))
    [] h = "create_hide_alarm_info_result" ->
           Written(Result, merge_hide_alarm_info_result_xml(p))
    [] h = "create_get_io_alarm_info" -> Written(Request, merge_get_io_alarm_info_xml(p))
    [] h = "create_io_alarm_info_response" ->
           Written(IoAlarmPacket, merge_io_alarm_info_response_xml(p))
    [] h = "create_set_io_alarm_info" -> Written(IoAlarmPacket, merge_set_io_alarm_info_xml(p))
    [] h = "create_io_alarm_info_result" -> Written(Result, merge_io_alarm_info_result_xml(p))
    [] OTHER -> NotWritten

CreateGroup6(h, p) ==
  CASE h = "create_get_joint_action_info" ->
           Written(Request, merge_get_joint_action_info_xml(p))
    [] h = "create_joint_action_info_response" ->
           Written(JointActionPacket, merge_joint_action_info_response_xml(p))
    [] h = "create_set_joint_action_info" ->
           Written(JointActionPacket, merge_set_joint_action_info_xml(p))
    [] h = "create_joint_action_info_result" ->
           Written(Result, merge_joint_action_info_result_xml(p))
    [] h = "create_control_ptz_cmd" -> Written(PTZControlPacket, merge_control_ptz_cmd_xml(p))
    [] h = "create_ptz_cmd_result" -> Written(Result, merge_ptz_cmd_result_xml(p))
    [] h = "create_submit_alarm_request" ->
           Written(SubmitAlarmPacket, merge_submit_alarm_request_xml(p))
    [] h = "create_get_media_url_request" ->
           Written(MediaUrlPacket, merge_get_media_url_request_xml(p))
    [] h = "create_get_media_url_response" ->
           Written(MediaUrlPacket, merge_get_media_url_response_xml(p))
    [] h = "create_get_store_log_request" ->
           Written(StoreLogPacket, merge_get_store_log_request_xml(p))
    [] h = "create_get_store_log_response" ->
           Written(StoreLogPacket, merge_get_store_log_response_xml(p))
    [] h = "create_user_login_request" -> Written(JUserInfo, merge_user_login_request_xml(p))
    [] h = "create_user_login_result" -> Written(IntPacket, merge_user_login_result_xml(p))
    [] h = "create_user_heart_request" -> Written(JUserHeart, merge_user_heart_request_xml(p))
    [] h = "create_user_heart_response" -> Written(JUserHeart, merge_user_heart_response_xml(p))
    [] h = "create_firmware_upgrade_request" ->
           Written(FirmwareUpgradePacket, merge_firmware_upgrade_request_xml(p))
    [] h = "create_firmware_upgrade_response" ->
           Written(FirmwareUpgradePacket, merge_firmware_upgrade_response_xml(p))
    [] h = "create_submit_upgrade_progress" ->
           Written(UpgradeProgressPacket, merge_submit_upgrade_progress_xml(p))
    [] OTHER -> NotWritten

CreateGroup7(h, p) ==
  CASE h = "create_add_user_request" -> Written(JUserInfo, merge_add_user_request_xml(p))
    [] h = "create_add_user_result" -> Written(IntPacket, merge_add_user_result_xml(p))
    [] h = "create_del_user_request" -> Written(JUserInfo, merge_del_user_request_xml(p))
    [] h = "create_del_user_result" -> Written(IntPacket, merge_del_user_result_xml(p))
    [] h = "create_user_list_info" -> Written(prx_user_st, merge_proxy_user_list_xml(p))
    [] h = "create_device_list_info" -> Written(prx_device_st, merge_proxy_device_list_xml(p))
    [] h = "create_factory_list_info" ->
           Written(prx_factory_list, merge_proxy_factory_list_xml(p))
    [] h = "create_get_factory_info_response" ->
           Written(prx_factory_list, merge_get_factory_info_response_xml(p))
    [] h = "create_fuzzy_find_user_request" ->
           Written(JUserInfo, merge_fuzzy_find_user_request_xml(p))
    [] h = "create_fuzzy_find_user_result" ->
           Written(prx_user_st, merge_fuzzy_find_user_result_xml(p))
    [] h = "create_modify_password_request" ->
           Written(prx_modify_pwd, merge_modify_password_request_xml(p))
    [] h = "create_modify_password_result" ->
           Written(IntPacket, merge_modify_password_result_xml(p))
    [] h = "create_add_device_request" ->
           Written(prx_device_info, merge_add_device_request_xml(p))
    [] h = "create_add_device_result" -> Written(IntPacket, merge_add_device_result_xml(p))
    [] h = "create_del_device_request" -> Written(IntPacket, merge_del_device_request_xml(p))
    [] h = "create_del_device_result" -> Written(IntPacket, merge_del_device_result_xml(p))
    [] h = "create_get_device_info_request" ->
           Written(prx_page_device, merge_get_device_info_request_xml(p))
    [] h = "create_get_device_info_result" ->
           Written(prx_page_device, merge_get_device_info_result_xml(p))
    [] h = "create_set_device_info_request" ->
           Written(prx_device_info, merge_set_device_info_request_xml(p))
    [] h = "create_set_device_info_result" ->
           Written(IntPacket, merge_set_device_info_result_xml(p))
    [] h = "create_get_all_device_id_request" ->
           Written(IntPacket, merge_get_all_device_id_request_xml(p))
    [] OTHER -> NotWritten

CreateGroup8(h, p) ==
  CASE h = "create_get_all_device_id_result" ->
           Written(prx_device_id_st, merge_get_all_device_id_result_xml(p))
    [] h = "create_proxy_page_user_response" ->
           Written(prx_page_user, merge_proxy_page_user_response_xml(p))
    [] h = "create_broadcast_add_user" -> Written(UserName, merge_broadcast_add_user_xml(p))
    [] h = "create_broadcast_del_user" -> Written(UserName, merge_broadcast_del_user_xml(p))
    [] h = "create_broadcast_add_device" ->
           Written(IntPacket, merge_broadcast_add_device_xml(p))
    [] h = "create_broadcast_del_device" ->
           Written(IntPacket, merge_broadcast_del_device_xml(p))
    [] h = "create_broadcast_modify_device" ->
           Written(IntPacket, merge_broadcast_modify_device_xml(p))
    [] h = "create_broadcast_device_status" ->
           Written(prx_device_state, merge_broadcast_device_status_xml(p))
    [] h = "create_get_server_config_request" ->
           Written(prx_server_config, merge_get_server_config_request_xml(p))
    [] h = "create_get_server_config_response" ->
           Written(prx_server_config, merge_get_server_config_response_xml(p))
    [] h = "create_set_server_config_request" ->
           Written(prx_server_config, merge_set_server_config_request_xml(p))
    [] h = "create_set_server_config_result" ->
           Written(IntPacket, merge_set_server_config_result_xml(p))
    [] h = "create_download_request" -> Written(prx_backup, merge_download_request_xml(p))
    [] h = "create_download_response" -> Written(prx_backup, merge_download_response_xml(p))
    [] h = "create_upload_request" -> Written(prx_backup, merge_upload_request_xml(p))
    [] h = "create_upload_response" -> Written(prx_backup, merge_upload_response_xml(p))
    [] OTHER -> NotWritten

CreateGroup9(h, p) ==
  CASE h = "create_get_channel_info_request" ->
           Written(Request, merge_get_channel_info_request_xml(p))
    [] h = "create_get_channel_info_response" ->
           Written(ChannelInfoPacket, merge_get_channel_info_response_xml(p))
    [] h = "create_set_channel_info_request" ->
           Written(ChannelInfoPacket, merge_set_channel_info_request_xml(p))
    [] h = "create_set_channel_info_result" ->
           Written(Result, merge_set_channel_info_result_xml(p))
    [] h = "create_get_picture_info_request" ->
           Written(Request, merge_get_picture_info_request_xml(p))
    [] h = "create_get_picture_info_response" ->
           Written(PictureInfoPacket, merge_get_picture_info_response_xml(p))
    [] h = "create_set_picture_info_request" ->
           Written(PictureInfoPacket, merge_set_picture_info_request_xml(p))
    [] h = "create_set_picture_info_result" ->
           Written(Result, merge_set_picture_info_result_xml(p))
    [] h = "create_get_wifi_config_request" ->
           Written(Request, merge_get_wifi_config_request_xml(p))
    [] h = "create_get_wifi_config_response" ->
           Written(WifiConfigPacket, merge_get_wifi_config_response_xml(p))
    [] h = "create_set_wifi_config_request" ->
           Written(WifiConfigPacket, merge_set_wifi_config_request_xml(p))
    [] h = "create_set_wifi_config_result" ->
           Written(Result, merge_set_wifi_config_result_xml(p))
    [] h = "create_wifi_search_request" -> Written(Request, merge_wifi_search_request_xml(p))
    [] h = "create_wifi_search_response" ->
           Written(WifiSearchResPacket, merge_wifi_search_response_xml(p))
    [] h = "create_get_network_status_request" ->
           Written(Request, merge_get_network_status_request_xml(p))
    [] h = "create_get_network_status_response" ->
           Written(NetworkStatusPacket, merge_get_network_status_response_xml(p))
    [] h = "create_control_device_request" ->
           Written(ControlDevicePacket, merge_control_device_request_xml(p))
    [] h = "create_control_device_result" -> Written(Result, merge_control_device_result_xml(p))
    [] h = "create_get_ddns_config_request" ->
           Written(Request, merge_get_ddns_config_request_xml(p))
    [] OTHER -> NotWritten

CreateGroup10(h, p) ==
  CASE h = "create_get_ddns_config_response" ->
           Written(DdnsConfigPacket, merge_get_ddns_config_response_xml(p))
    [] h = "create_set_ddns_config_request" ->
           Written(DdnsConfigPacket, merge_set_ddns_config_request_xml(p))
    [] h = "create_set_ddns_config_result" ->
           Written(Result, merge_set_ddns_config_result_xml(p))
    [] h = "create_get_def_display_info_requst" ->
           Written(Request, merge_get_def_display_info_request_xml(p))
    [] h = "create_get_def_display_info_response" ->
           Written(DisplayParameterPacket, merge_get_def_display_info_response_xml(p))
    [] h = "create_get_def_picture_info_request" ->
           Written(Request, merge_get_def_picture_info_request_xml(p))
    [] h = "create_get_def_picture_info_response" ->
           Written(PictureInfoPacket, merge_get_def_picture_info_response_xml(p))
    [] h = "create_get_avd_config_request" ->
           Written(Request, merge_get_avd_config_request_xml(p))
    [] h = "create_get_avd_config_response" ->
           Written(AvdConfigPacket, merge_get_avd_config_response_xml(p))
    [] h = "create_set_avd_config_request" ->
           Written(AvdConfigPacket, merge_set_avd_config_request_xml(p))
    [] h = "create_set_avd_config_result" -> Written(Result, merge_set_avd_config_result_xml(p))
    [] OTHER -> NotWritten

CreateGroup11(h, p) ==
  CASE h = "create_get_transparent_param_request" ->
           Written(TransparentPacket, merge_get_transparent_param_request_xml(p))
    [] h = "create_get_transparent_param_response" ->
           Written(TransparentPacket, merge_get_transparent_param_response_xml(p))
    [] h = "create_set_transparent_param_request" ->
           Written(TransparentPacket, merge_set_transparent_param_request_xml(p))
    [] h = "create_set_transparent_param_response" ->
           Written(IntPacket, merge_set_transparent_param_response_xml(p))
    [] h = "create_transparent_notify_enevt" ->
           Written(TransparentPacket, merge_transparent_notify_enevt_xml(p))
    [] h = "create_transparent_control_device" ->
           Written(TransparentPacket, merge_transparent_control_device_xml(p))
    [] h = "create_query_division_mode_request" ->
           Written(DivisionModePacket, merge_query_division_mode_request_xml(p))
    [] h = "create_query_division_mode_response" ->
           Written(DivisionModePacket, merge_query_division_mode_response_xml(p))
    [] h = "create_get_screen_state_request" ->
           Written(ScreenStatePacket, merge_get_screen_state_request_xml(p))
    [] h = "create_get_screen_state_response" ->
           Written(ScreenStatePacket, merge_get_screen_state_response_xml(p))
    [] h = "create_set_division_mode_request" ->
           Written(ChangeDModePacket, merge_set_division_mode_request_xml(p))
    [] h = "create_set_division_mode_response" ->
           Written(IntPacket, merge_set_division_mode_response_xml(p))
    [] OTHER -> NotWritten

CreateGroup12(h, p) ==
  CASE h = "create_set_full_screen_request" ->
           Written(FullScreenPacket, merge_set_full_screen_request_xml(p))
    [] h = "create_set_full_screen_response" ->
           Written(IntPacket, merge_set_full_screen_response_xml(p))
    [] h = "create_exit_full_screen_request" ->
           Written(IntPacket, merge_exit_full_screen_request_xml(p))
    [] h = "create_exit_full_screen_response" ->
           Written(IntPacket, merge_exit_full_screen_response_xml(p))
    [] h = "create_tv_wall_play_request" ->
           Written(TVWallPlayPacket, merge_tv_wall_play_request_xml(p))
    [] h = "create_tv_wall_play_response" ->
           Written(TVWallPlayPacket, merge_tv_wall_play_response_xml(p))
    [] h = "create_clear_division_request" ->
           Written(ClearDivisionPacket, merge_clear_division_request_xml(p))
    [] h = "create_clear_division_response" ->
           Written(IntPacket, merge_clear_division_response_xml(p))
    [] h = "create_get_operation_log_request" ->
           Written(OperationLogPacket, merge_get_operation_log_request_xml(p))
    [] h = "create_get_operation_log_response" ->
           Written(OperationLogPacket, merge_get_operation_log_response_xml(p))
    [] OTHER -> NotWritten

CreateGroup13(h, p) ==
  CASE h = "create_set_alarm_upload_config_request" ->
           Written(JAlarmUploadCfg, merge_set_alarm_upload_config_request_xml(p))
    [] h = "create_set_alarm_upload_config_response" ->
           Written(IntPacket, merge_set_alarm_upload_config_response_xml(p))
    [] h = "create_get_preset_point_set_request" ->
           Written(Request, merge_get_preset_point_set_request_xml(p))
    [] h = "create_get_preset_point_set_response" ->
           Written(PPSetPacket, merge_get_preset_point_set_response_xml(p))
    [] OTHER -> NotWritten

CreateGroup14(h, p) ==
  CASE h = "create_set_preset_point_request" ->
           Written(PPConfigPacket, merge_set_preset_point_request_xml(p))
    [] h = "create_set_preset_point_result" ->
           Written(Result, merge_set_preset_point_result_xml(p))
    [] h = "create_get_cruise_way_set_request" ->
           Written(Request, merge_get_cruise_way_set_request_xml(p))
    [] h = "create_get_cruise_way_set_response" ->
           Written(CruiseWaySetPacket, merge_get_cruise_way_set_response_xml(p))
    [] h = "create_set_cruise_way_request" ->
           Written(CruiseConfigPacket, merge_set_cruise_way_request_xml(p))
    [] h = "create_set_cruise_way_result" -> Written(Result, merge_set_cruise_way_result_xml(p))
    [] h = "create_get_cruise_way_request" ->
           Written(Request, merge_get_cruise_way_request_xml(p))
    [] h = "create_get_cruise_way_response" ->
           Written(CruiseWayPacket, merge_get_cruise_way_response_xml(p))
    [] h = "create_add_cruise_way_request" ->
           Written(CruiseWayPacket, merge_add_cruise_way_request_xml(p))
    [] h = "create_add_cruise_way_result" -> Written(Result, merge_add_cruise_way_result_xml(p))
    [] h = "create_modify_cruise_way_request" ->
           Written(CruiseWayPacket, merge_modify_cruise_way_request_xml(p))
    [] h = "create_modify_cruise_way_result" ->
           Written(Result, merge_modify_cruise_way_result_xml(p))
    [] h = "create_3d_control_request" ->
           Written(_3DControlPacket, merge_3d_control_request_xml(p))
    [] h = "create_3d_control_result" -> Written(Result, merge_3d_control_result_xml(p))
    [] h = "create_3d_goback_request" -> Written(Request, merge_3d_goback_request_xml(p))
    [] h = "create_3d_goback_result" -> Written(Result, merge_3d_goback_result_xml(p))
    [] OTHER -> NotWritten

CreateGroup15(h, p) ==
  CASE h = "create_alarm_link_io_request" ->
           Written(LinkIOPacket, merge_alarm_link_io_request_xml(p))
    [] h = "create_alarm_link_io_result" -> Written(Result, merge_alarm_link_io_result_xml(p))
    [] h = "create_alarm_link_preset_request" ->
           Written(LinkPresetPacket, merge_alarm_link_preset_request_xml(p))
    [] h = "create_alarm_link_preset_result" ->
           Written(Result, merge_alarm_link_preset_result_xml(p))
    [] h = "create_get_resolution_info_request" ->
           Written(Request, merge_get_resolution_info_request_xml(p))
    [] h = "create_get_resolution_info_response" ->
           Written(ResolutionInfoPacket, merge_get_resolution_info_response_xml(p))
    [] h = "create_set_resolution_info_request" ->
           Written(ResolutionInfoPacket, merge_set_resolution_info_request_xml(p))
    [] h = "create_set_resolution_info_result" ->
           Written(Result, merge_set_resolution_info_result_xml(p))
    [] h = "create_get_ircut_control_info_request" ->
           Written(Request, merge_get_ircut_control_info_request_xml(p))
    [] OTHER -> NotWritten

CreateGroup16(h, p) ==
  CASE h = "create_get_ircut_control_info_response" ->
           Written(IrcutControlPacket, merge_get_ircut_control_info_response_xml(p))
    [] h = "create_set_ircut_control_info_request" ->
           Written(IrcutControlPacket, merge_set_ircut_control_info_request_xml(p))
    [] h = "create_set_ircut_control_info_result" ->
           Written(Result, merge_set_ircut_control_info_result_xml(p))
    [] h = "create_get_extranet_port_request" ->
           Written(Request, merge_get_extranet_port_request_xml(p))
    [] h = "create_get_extranet_port_response" ->
           Written(ExtranetPortPacket, merge_get_extranet_port_response_xml(p))
    [] h = "create_get_herd_analyse_info_request" ->
           Written(Request, merge_get_herd_analyse_info_request_xml(p))
    [] h = "create_get_herd_analyse_info_response" ->
           Written(HerdAnalysePacket, merge_get_herd_analyse_info_response_xml(p))
    [] h = "create_set_herd_analyse_info_request" ->
           Written(HerdAnalysePacket, merge_set_herd_analyse_info_request_xml(p))
    [] h = "create_set_herd_analyse_info_result" ->
           Written(Result, merge_set_herd_analyse_info_result_xml(p))
    [] h = "create_get_grass_percent_request" ->
           Written(Request, merge_get_grass_percent_request_xml(p))
    [] h = "create_get_grass_percent_response" ->
           Written(GrassPercentPacket, merge_get_grass_percent_response_xml(p))
    [] OTHER -> NotWritten

CreateGroup17(h, p) ==
  CASE h = "create_get_p2p_id_request" ->
           Written(P2PIdPacketReq, merge_get_p2p_id_request_xml(p))
    [] h = "create_get_p2p_id_response" ->
           Written(P2PIdPacket, merge_get_p2p_id_response_xml(p))
    [] OTHER -> NotWritten

\* The functions that read a message.
ParseGroup1(h, m) ==
  CASE h = "parse_get_css_request" ->
           create_xml_msg("PU_GET_CSS_REQUEST_ID", PuGetCssPacket, parse_get_css_request_xml(m))
    [] h = "parse_get_css_response" ->
           create_xml_msg("PU_GET_CSS_RESPONSE_ID", PuGetCssPacket, parse_get_css_response_xml(m))
    [] h = "parse_pu_register_css" ->
           create_xml_msg("REGISTER_CSS_REQUEST_ID", PuRegisterCssPacket, parse_pu_register_css_xml(m))
    [] h = "parse_register_css_response" ->
           create_xml_msg("REGISTER_CSS_RESPONSE_ID", RegisterResponsePacket, parse_register_response_xml(m))
    [] h = "parse_register_request" ->
           create_xml_msg("REGISTER_REQUEST_ID", RegisterRequestPacket, parse_register_request_xml(m))
    [] h = "parse_register_response" ->
           create_xml_msg("REGISTER_RESPONSE_ID", RegisterResponsePacket, parse_register_response_xml(m))
    [] h = "parse_heart_beat_request" ->
           create_xml_msg("HEART_BEAT_REQUEST_ID", HeartBeatRequestPacket, parse_heart_beat_request_xml(m))
    [] h = "parse_heart_beat_response" ->
           create_xml_msg("HEART_BEAT_RESPONSE_ID", HeartBeatResponsePacket, parse_heart_beat_response_xml(m))
    [] h = "parse_get_mds_info_request" ->
           create_xml_msg("GET_MDS_INFO_REQUEST_ID", MdsInfoPacket, parse_get_mds_info_request_xml(m))
    [] h = "parse_get_mds_info_response" ->
           create_xml_msg("GET_MDS_INFO_RESPONSE_ID", MdsInfoPacket, parse_get_mds_info_response_xml(m))
    [] h = "parse_change_dispatch_request" ->
           create_xml_msg("CHANGE_DISPATCH_REQUEST_ID", ChangeDispatchPacket, parse_change_dispatch_request_xml(m))
    [] h = "parse_change_dispatch_result" ->
           parse_set_result("CHANGE_DISPATCH_RESULT_ID", parse_change_dispatch_result_xml(m))
    [] h = "parse_get_device_info" ->
           parse_get_info("GET_DEVICE_INFO_ID", parse_get_device_info_xml(m))
    [] h = "parse_device_info_response" ->
           create_xml_msg("DEVICE_INFO_RESPONSE_ID", DeviceInfoPacket, parse_device_info_response_xml(m))
    [] h = "parse_get_device_ntp_info" ->
           parse_get_info("GET_DEVICE_NTP_INFO_ID", parse_get_device_ntp_info_xml(m))
    [] h = "parse_device_ntp_info_response" ->
           create_xml_msg("DEVICE_NTP_INFO_RESPONSE_ID", DeviceNTPInfoPacket, parse_device_ntp_info_response_xml(m))
    [] h = "parse_set_device_ntp_info" ->
           create_xml_msg("SET_DEVICE_NTP_INFO_ID", DeviceNTPInfoPacket, parse_set_device_ntp_info_xml(m))
    [] h = "parse_device_ntp_info_result" ->
           parse_set_result("DEVICE_NTP_INFO_RESULT_ID", parse_device_ntp_info_result_xml(m))
    [] h = "parse_get_device_time" ->
           create_xml_msg("GET_DEVICE_TIME_ID", DeviceTimePacket, parse_get_device_time_xml(m))
    [] h = "parse_device_time_response" ->
           parse_set_result("DEVICE_TIME_RESPONSE_ID", parse_device_time_response_xml(m))
    [] OTHER -> NotHere

ParseGroup2(h, m) ==
  CASE h = "parse_set_device_time" ->
           create_xml_msg("SET_DEVICE_TIME_ID", DeviceTimePacket, parse_set_device_time_xml(m))
    [] h = "parse_device_time_result" ->
           parse_set_result("DEVICE_TIME_RESULT_ID", parse_device_time_result_xml(m))
    [] h = "parse_get_platform_info" ->
           parse_get_info("GET_PLATFORM_INFO_ID", parse_get_platform_info_xml(m))
    [] h = "parse_platform_info_response" ->
           create_xml_msg("PLATFORM_INFO_RESPONSE_ID", PlatformInfoPacket, parse_platform_info_response_xml(m))
    [] h = "parse_set_platform_info" ->
           create_xml_msg("SET_PLATFORM_INFO_ID", PlatformInfoPacket, parse_set_platform_info_xml(m))
    [] h = "parse_platform_info_result" ->
           parse_set_result("PLATFORM_INFO_RESULT_ID", parse_platform_info_result_xml(m))
    [] h = "parse_get_network_info" ->
           parse_get_info("GET_NETWORK_INFO_ID", parse_get_network_info_xml(m))
    [] h = "parse_network_info_response" ->
           create_xml_msg("NETWORK_INFO_RESPONSE_ID", NetworkInfoPacket, parse_network_info_response_xml(m))
    [] h = "parse_set_network_info" ->
           create_xml_msg("SET_NETWORK_INFO_ID", NetworkInfoPacket, parse_set_network_info_xml(m))
    [] h = "parse_network_info_result" ->
           parse_set_result("NETWORK_INFO_RESULT_ID", parse_network_info_result_xml(m))
    [] h = "parse_get_pppoe_info" ->
           parse_get_info("GET_PPPOE_INFO_ID", parse_get_pppoe_info_xml(m))
    [] h = "parse_pppoe_info_response" ->
           create_xml_msg("PPPOE_INFO_RESPONSE_ID", PPPOEInfoPacket, parse_pppoe_info_response_xml(m))
    [] h = "parse_set_pppoe_info" ->
           create_xml_msg("SET_PPPOE_INFO_ID", PPPOEInfoPacket, parse_set_pppoe_info_xml(m))
    [] h = "parse_pppoe_info_result" ->
           parse_set_result("PPPOE_INFO_RESULT_ID", parse_pppoe_info_result_xml(m))
    [] h = "parse_get_encode_parameter" ->
           parse_get_info("GET_ENCODE_PARAMETER_ID", parse_get_encode_parameter_xml(m))
    [] h = "parse_encode_parameter_response" ->
           create_xml_msg("ENCODE_PARAMETER_RESPONSE_ID", EncodeParameterPacket, parse_encode_parameter_response_xml(m))
    [] h = "parse_set_encode_parameter" ->
           create_xml_msg("SET_ENCODE_PARAMETER_ID", EncodeParameterPacket, parse_set_encode_parameter_xml(m))
    [] h = "parse_encode_parameter_result" ->
           parse_set_result("ENCODE_PARAMETER_RESULT_ID", parse_encode_parameter_result_xml(m))
    [] h = "parse_get_display_parameter" ->
           parse_get_info("GET_DISPLAY_PARAMETER_ID", parse_get_display_parameter_xml(m))
    [] h = "parse_display_parameter_response" ->
           create_xml_msg("DISPLAY_PARAMETER_RESPONSE_ID", DisplayParameterPacket, parse_display_parameter_response_xml(m))
    [] h = "parse_set_display_parameter" ->
           create_xml_msg("SET_DISPLAY_PARAMETER_ID", DisplayParameterPacket, parse_set_display_parameter_xml(m))
    [] h = "parse_display_parameter_result" ->
           parse_set_result("DISPLAY_PARAMETER_RESULT_ID", parse_display_parameter_result_xml(m))
    [] h = "parse_get_record_parameter" ->
           parse_get_info("GET_RECORD_PARAMETER_ID", parse_get_record_parameter_xml(m))
    [] h = "parse_record_parameter_response" ->
           create_xml_msg("RECORD_PARAMETER_RESPONSE_ID", RecordParameterPacket, parse_record_parameter_response_xml(m))
    [] OTHER -> NotHere

ParseGroup3(h, m) ==
  CASE h = "parse_set_record_parameter" ->
           create_xml_msg("SET_RECORD_PARAMETER_ID", RecordParameterPacket, parse_set_record_parameter_xml(m))
    [] h = "parse_record_parameter_result" ->
           parse_set_result("RECORD_PARAMETER_RESULT_ID", parse_record_parameter_result_xml(m))
    [] h = "parse_get_hide_parameter" ->
           parse_get_info("GET_HIDE_PARAMETER_ID", parse_get_hide_parameter_xml(m))
    [] h = "parse_hide_parameter_response" ->
           create_xml_msg("HIDE_PARAMETER_RESPONSE_ID", HideParameterPacket, parse_hide_parameter_response_xml(m))
    [] h = "parse_set_hide_parameter" ->
           create_xml_msg("SET_HIDE_PARAMETER_ID", HideParameterPacket, parse_set_hide_parameter_xml(m))
    [] h = "parse_hide_parameter_result" ->
           parse_set_result("HIDE_PARAMETER_RESULT_ID", parse_hide_parameter_result_xml(m))
    [] h = "parse_get_serial_parameter" ->
           parse_get_info("GET_SERIAL_PARAMETER_ID", parse_get_serial_parameter_xml(m))
    [] h = "parse_serial_parameter_response" ->
           create_xml_msg("SERIAL_PARAMETER_RESPONSE_ID", SerialParameterPacket, parse_serial_parameter_response_xml(m))
    [] h = "parse_set_serial_parameter" ->
           create_xml_msg("SET_SERIAL_PARAMETER_ID", SerialParameterPacket, parse_set_serial_parameter_xml(m))
    [] h = "parse_serial_parameter_result" ->
           parse_set_result("SERIAL_PARAMETER_RESULT_ID", parse_serial_parameter_result_xml(m))
    [] h = "parse_get_osd_parameter" ->
           parse_get_info("GET_OSD_PARAMETER_ID", parse_get_osd_parameter_xml(m))
    [] h = "parse_osd_parameter_response" ->
           create_xml_msg("OSD_PARAMETER_RESPONSE_ID", OSDParameterPacket, parse_osd_parameter_response_xml(m))
    [] h = "parse_set_osd_parameter" ->
           create_xml_msg("SET_OSD_PARAMETER_ID", OSDParameterPacket, parse_set_osd_parameter_xml(m))
    [] h = "parse_osd_parameter_result" ->
           parse_set_result("OSD_PARAMETER_RESULT_ID", parse_osd_parameter_result_xml(m))
    [] h = "parse_get_ptz_parameter" ->
           parse_get_info("GET_PTZ_PARAMETER_ID", parse_get_ptz_parameter_xml(m))
    [] h = "parse_ptz_parameter_response" ->
           create_xml_msg("PTZ_PARAMETER_RESPONSE_ID", PTZParameterPacket, parse_ptz_parameter_response_xml(m))
    [] h = "parse_set_ptz_parameter" ->
           create_xml_msg("SET_PTZ_PARAMETER_ID", PTZParameterPacket, parse_set_ptz_parameter_xml(m))
    [] h = "parse_ptz_parameter_result" ->
           parse_set_result("PTZ_PARAMETER_RESULT_ID", parse_ptz_parameter_result_xml(m))
    [] h = "parse_get_ftp_parameter" ->
           parse_get_info("GET_FTP_PARAMETER_ID", parse_get_ftp_parameter_xml(m))
    [] h = "parse_ftp_parameter_response" ->
           create_xml_msg("FTP_PARAMETER_RESPONSE_ID", FTPParameterPacket, parse_ftp_parameter_response_xml(m))
    [] h = "parse_set_ftp_parameter" ->
           create_xml_msg("SET_FTP_PARAMETER_ID", FTPParameterPacket, parse_set_ftp_parameter_xml(m))
    [] h = "parse_ftp_parameter_result" ->
           parse_set_result("FTP_PARAMETER_RESULT_ID", parse_ftp_parameter_result_xml(m))
    [] h = "parse_get_smtp_parameter" ->
           parse_get_info("GET_SMTP_PARAMETER_ID", parse_get_smtp_parameter_xml(m))
    [] h = "parse_smtp_parameter_response" ->
           create_xml_msg("SMTP_PARAMETER_RESPONSE_ID", SMTPParameterPacket, parse_smtp_parameter_response_xml(m))
    [] OTHER -> NotHere

ParseGroup4(h, m) ==
  CASE h = "parse_set_smtp_parameter" ->
           create_xml_msg("SET_SMTP_PARAMETER_ID", SMTPParameterPacket, parse_set_smtp_parameter_xml(m))
    [] h = "parse_smtp_parameter_result" ->
           parse_set_result("SMTP_PARAMETER_RESULT_ID", parse_smtp_parameter_result_xml(m))
    [] h = "parse_get_upnp_parameter" ->
           parse_get_info("GET_UPNP_PARAMETER_ID", parse_get_upnp_parameter_xml(m))
    [] h = "parse_upnp_parameter_response" ->
           create_xml_msg("UPNP_PARAMETER_RESPONSE_ID", UPNPParameterPacket, parse_upnp_parameter_response_xml(m))
    [] h = "parse_set_upnp_parameter" ->
           create_xml_msg("SET_UPNP_PARAMETER_ID", UPNPParameterPacket, parse_set_upnp_parameter_xml(m))
    [] h = "parse_upnp_parameter_result" ->
           parse_set_result("UPNP_PARAMETER_RESULT_ID", parse_upnp_parameter_result_xml(m))
    [] h = "parse_get_device_disk_info" ->
           parse_get_info("GET_DEVICE_DISK_INFO_ID", parse_get_device_disk_info_xml(m))
    [] h = "parse_device_disk_info_response" ->
           create_xml_msg("DEVICE_DISK_INFO_RESPONSE_ID", DeviceDiskInfoPacket, parse_device_disk_info_response_xml(m))
    [] h = "parse_format_disk_request" ->
           create_xml_msg("FORMAT_DISK_REQUEST_ID", FormatDiskPacket, parse_format_disk_request_xml(m))
    [] h = "parse_format_disk_result" ->
           parse_set_result("FORMAT_DISK_RESULT_ID", parse_format_disk_result_xml(m))
    [] h = "parse_submit_format_progress" ->
           create_xml_msg("SUBMIT_FORMAT_PROGRESS_ID", FormatProgressPacket, parse_submit_format_progress_xml(m))
    [] h = "parse_get_move_alarm_info" ->
           parse_get_info("GET_MOVE_ALARM_INFO_ID", parse_get_move_alarm_info_xml(m))
    [] h = "parse_move_alarm_info_response" ->
           create_xml_msg("MOVE_ALARM_INFO_RESPONSE_ID", MoveAlarmPacket, parse_move_alarm_info_response_xml(m))
    [] h = "parse_set_move_alarm_info" ->
           create_xml_msg("SET_MOVE_ALARM_INFO_ID", MoveAlarmPacket, parse_set_move_alarm_info_xml(m))
    [] h = "parse_move_alarm_info_result" ->
           parse_set_result("MOVE_ALARM_INFO_RESULT_ID", parse_move_alarm_info_result_xml(m))
    [] h = "parse_get_lost_alarm_info" ->
           parse_get_info("GET_LOST_ALARM_INFO_ID", parse_get_lost_alarm_info_xml(m))
    [] h = "parse_lost_alarm_info_response" ->
           create_xml_msg("LOST_ALARM_INFO_RESPONSE_ID", LostAlarmPacket, parse_lost_alarm_info_response_xml(m))
    [] h = "parse_set_lost_alarm_info" ->
           create_xml_msg("SET_LOST_ALARM_INFO_ID", LostAlarmPacket, parse_set_lost_alarm_info_xml(m))
    [] h = "parse_lost_alarm_info_result" ->
           parse_set_result("LOST_ALARM_INFO_RESULT_ID", parse_lost_alarm_info_result_xml(m))
    [] h = "parse_get_hide_alarm_info" ->
           parse_get_info("GET_HIDE_ALARM_INFO_ID", parse_get_hide_alarm_info_xml(m))
    [] h = "parse_hide_alarm_info_response" ->
           create_xml_msg("HIDE_ALARM_INFO_RESPONSE_ID", HideAlarmPacket, parse_hide_alarm_info_response_xml(m))
    [] h = "parse_set_hide_alarm_info" ->
           create_xml_msg("SET_HIDE_ALARM_INFO_ID", HideAlarmPacket, parse_set_hide_alarm_info_xml(m))
    [] h = "parse_hide_alarm_info_result" ->
           parse_set_result("HIDE_ALARM_INFO_RESULT_ID", parse_hide_alarm_info_result_xml(m))
    [] h = "parse_get_io_alarm_info" ->
           parse_get_info("GET_IO_ALARM_INFO_ID", parse_get_io_alarm_info_xml(m))
    [] h = "parse_io_alarm_info_response" ->
           create_xml_msg("IO_ALARM_INFO_RESPONSE_ID", IoAlarmPacket, parse_io_alarm_info_response_xml(m))
    [] OTHER -> NotHere

ParseGroup5(h, m) ==
  CASE h = "parse_set_io_alarm_info" ->
           create_xml_msg("SET_IO_ALARM_INFO_ID", IoAlarmPacket, parse_set_io_alarm_info_xml(m))
    [] h = "parse_io_alarm_info_result" ->
           parse_set_result("IO_ALARM_INFO_RESULT_ID", parse_io_alarm_info_result_xml(m))
    [] h = "parse_get_joint_action_info" ->
           parse_get_info("GET_JOINT_ACTION_INFO_ID", parse_get_joint_action_info_xml(m))
    [] h = "parse_joint_action_info_response" ->
           create_xml_msg("JOINT_ACTION_INFO_RESPONSE_ID", JointActionPacket, parse_joint_action_info_response_xml(m))
    [] h = "parse_set_joint_action_info" ->
           create_xml_msg("SET_JOINT_ACTION_INFO_ID", JointActionPacket, parse_set_joint_action_info_xml(m))
    [] h = "parse_joint_action_info_result" ->
           parse_set_result("JOINT_ACTION_INFO_RESULT_ID", parse_joint_action_info_result_xml(m))
    [] h = "parse_control_ptz_cmd" ->
           create_xml_msg("CONTROL_PTZ_COMMAND_ID", PTZControlPacket, parse_control_ptz_cmd_xml(m))
    [] h = "parse_ptz_cmd_result" ->
           parse_set_result("PTZ_COMMAND_RESULT_ID", parse_ptz_cmd_response_xml(m))
    [] h = "parse_submit_alarm_request" ->
           create_xml_msg("SUBMIT_ALARM_REQUEST_ID", SubmitAlarmPacket, parse_submit_alarm_request_xml(m))
    [] h = "parse_get_media_url_request" ->
           create_xml_msg("GET_MEDIA_URL_REQUEST_ID", MediaUrlPacket, parse_get_media_url_request_xml(m))
    [] h = "parse_get_media_url_response" ->
           create_xml_msg("GET_MEDIA_URL_RESPONSE_ID", MediaUrlPacket, parse_get_media_url_response_xml(m))
    [] h = "parse_get_store_log_request" ->
           create_xml_msg("GET_STORE_LOG_REQUEST_ID", StoreLogPacket, parse_get_store_log_request_xml(m))
    [] h = "parse_get_store_log_response" ->
           create_xml_msg("GET_STORE_LOG_RESPONSE_ID", StoreLogPacket, parse_get_store_log_response_xml(m))
    [] h = "parse_user_login_request" ->
           create_xml_msg("USER_LONGI_REQUEST_ID", JUserInfo, parse_user_login_request_xml(m))
    [] h = "parse_user_login_result" ->
           create_xml_msg("USER_LONGI_RESULT_ID", IntPacket, parse_user_login_result_xml(m))
    [] h = "parse_user_heart_request" ->
           create_xml_msg("USER_HEART_REQUEST_ID", JUserHeart, parse_user_heart_request_xml(m))
    [] h = "parse_user_heart_response" ->
           create_xml_msg("USER_HEART_RESPONSE_ID", JUserHeart, parse_user_heart_response_xml(m))
    [] h = "parse_firmware_upgrade_request" ->
           create_xml_msg("FIRMWARE_UPGRADE_REQUEST_ID", FirmwareUpgradePacket, parse_firmware_upgrade_request_xml(m))
    [] h = "parse_firmware_upgrade_response" ->
           create_xml_msg("FIRMWARE_UPGRADE_RESPONSE_ID", FirmwareUpgradePacket, parse_firmware_upgrade_response_xml(m))
    [] h = "parse_submit_upgrade_progress" ->
           create_xml_msg("SUBMIT_UPGRADE_PROGRESS_ID", UpgradeProgressPacket, parse_submit_upgrade_progress_xml(m))
    [] OTHER -> NotHere

ParseGroup6(h, m) ==
  CASE h = "parse_add_user_request" ->
           create_xml_msg("ADD_USER_REQUEST_ID", JUserInfo, parse_add_user_request_xml(m))
    [] h = "parse_add_user_result" ->
           create_xml_msg("ADD_USER_RESULT_ID", IntPacket, parse_add_user_result_xml(m))
    [] h = "parse_del_user_request" ->
           create_xml_msg("DEL_USER_REQUEST_ID", JUserInfo, parse_del_user_request_xml(m))
    [] h = "parse_del_user_result" ->
           create_xml_msg("DEL_USER_RESULT_ID", IntPacket, parse_del_user_result_xml(m))
    [] h = "parse_user_list_info" ->
           create_xml_msg_2("USER_LIST_INFO_ID", prx_user_st, parse_proxy_user_list_xml(m))
    [] h = "parse_device_list_info" ->
           create_xml_msg_2("DEVICE_LIST_INFO_ID", prx_device_st, parse_proxy_device_list_xml(m))
    [] h = "parse_factory_list_info" ->
           create_xml_msg_2("FACTORY_LIST_INFO_ID", prx_factory_list, parse_proxy_factory_list_xml(m))
    [] h = "parse_get_factory_info_request" ->
           create_xml_msg("GET_FACTORY_REQUEST_ID", prx_factory_list, parse_get_factory_info_request_xml(m))
    [] h = "parse_get_factory_info_response" ->
           create_xml_msg("GET_FACTORY_RESPONSE_ID", prx_factory_list, parse_get_factory_info_response_xml(m))
    [] h = "parse_fuzzy_find_user_request" ->
           create_xml_msg("FUZZY_FIND_USER_REQUEST_ID", JUserInfo, parse_fuzzy_find_user_request_xml(m))
    [] h = "parse_fuzzy_find_user_result" ->
           create_xml_msg("FUZZY_FIND_USER_RESULT_ID", prx_user_st, parse_fuzzy_find_user_result_xml(m))
    [] h = "parse_modify_password_request" ->
           create_xml_msg("MODIFY_PASSWORD_REQUEST_ID", prx_modify_pwd, parse_modify_password_request_xml(m))
    [] OTHER -> NotHere

ParseGroup7(h, m) ==
  CASE h = "parse_modify_password_result" ->
           create_xml_msg("MODIFY_PASSWORD_RESULT_ID", IntPacket, parse_modify_password_result_xml(m))
    [] h = "parse_add_device_request" ->
           create_xml_msg("ADD_DEVICE_REQUEST_ID", prx_device_info, parse_add_device_request_xml(m))
    [] h = "parse_add_device_result" ->
           create_xml_msg("ADD_DEVICE_RESULT_ID", IntPacket, parse_add_device_result_xml(m))
    [] h = "parse_del_device_request" ->
           create_xml_msg("DEL_DEVICE_REQUEST_ID", IntPacket, parse_del_device_request_xml(m))
    [] h = "parse_del_device_result" ->
           create_xml_msg("DEL_DEVICE_RESULT_ID", IntPacket, parse_del_device_result_xml(m))
    [] h = "parse_get_device_info_request" ->
           create_xml_msg("GET_DEVICE_INFO_REQUEST_ID", prx_page_device, parse_get_device_info_request_xml(m))
    [] h = "parse_get_device_info_result" ->
           create_xml_msg("GET_DEVICE_INFO_RESULT_ID", prx_device_info, parse_get_device_info_result_xml(m))
    [] h = "parse_set_device_info_request" ->
           create_xml_msg("SET_DEVICE_INFO_REQUEST_ID", prx_device_info, parse_set_device_info_request_xml(m))
    [] h = "parse_set_device_info_result" ->
           create_xml_msg("SET_DEVICE_INFO_RESULT_ID", IntPacket, parse_set_device_info_result_xml(m))
    [] h = "parse_get_all_device_id_request" ->
           create_xml_msg("GET_ALL_DEVICE_ID_REQUEST_ID", IntPacket, parse_get_all_device_id_request_xml(m))
    [] h = "parse_get_all_device_id_result" ->
           create_xml_msg("GET_ALL_DEVICE_ID_RESULT_ID", prx_device_id_st, parse_get_all_device_id_result_xml(m))
    [] h = "parse_get_server_config_request" ->
           create_xml_msg("GET_SERVER_CONFIG_REQUEST_ID", prx_server_config, parse_get_server_config_request_xml(m))
    [] h = "parse_get_server_config_response" ->
           create_xml_msg("GET_SERVER_CONFIG_RESPONSE_ID", prx_server_config, parse_get_server_config_response_xml(m))
    [] h = "parse_set_server_config_request" ->
           create_xml_msg("SET_SERVER_CONFIG_REQUEST_ID", prx_server_config, parse_set_server_config_request_xml(m))
    [] h = "parse_set_server_config_result" ->
           create_xml_msg("SET_SERVER_CONFIG_RESULT_ID", IntPacket, parse_set_server_config_result_xml(m))
    [] h = "parse_download_request" ->
           create_xml_msg("DOWNLOAD_DATA_REQUEST_ID", prx_backup, parse_download_request_xml(m))
    [] h = "parse_download_response" ->
           create_xml_msg("DOWNLOAD_DATA_RESPONSE_ID", prx_backup, parse_download_response_xml(m))
    [] h = "parse_upload_request" ->
           create_xml_msg("UPLOAD_DATA_REQUEST_ID", prx_backup, parse_upload_request_xml(m))
    [] OTHER -> NotHere

ParseGroup8(h, m) ==
  CASE h = "parse_upload_response" ->
           create_xml_msg("UPLOAD_DATA_RESPONSE_ID", prx_backup, parse_upload_response_xml(m))
    [] h = "parse_limit_broadcast_status" ->
           create_xml_msg("LIMIT_BROADCASE_STATUE_ID", prx_limit, parse_limit_broadcast_status_xml(m))
    [] OTHER -> NotHere

ParseGroup9(h, m) ==
  CASE h = "parse_proxy_page_user_request" ->
           create_xml_msg("GET_USER_INFO_REQUEST_ID", prx_page_user, parse_proxy_page_user_request_xml(m))
    [] h = "parse_get_channel_info_request" ->
           parse_get_info("GET_CHANNEL_INFO_REQUEST_ID", parse_get_channel_info_request_xml(m))
    [] h = "parse_get_channel_info_response" ->
           create_xml_msg("GET_CHANNEL_INFO_RESPONSE_ID", ChannelInfoPacket, parse_get_channel_info_response_xml(m))
    [] h = "parse_set_channel_info_request" ->
           create_xml_msg("SET_CHANNEL_INFO_REQUEST_ID", ChannelInfoPacket, parse_set_channel_info_request_xml(m))
    [] OTHER -> NotHere

ParseGroup10(h, m) ==
  CASE h = "parse_set_channel_info_result" ->
           parse_set_result("SET_CHANNEL_INFO_RESULT_ID", parse_set_channel_info_request_xml(m))
    [] h = "parse_get_picture_info_request" ->
           parse_get_info("GET_PICTURE_INFO_REQUEST_ID", parse_get_picture_info_request_xml(m))
    [] h = "parse_get_picture_info_response" ->
           create_xml_msg("GET_PICTURE_INFO_RESPONSE_ID", PictureInfoPacket, parse_get_picture_info_response_xml(m))
    [] h = "parse_set_picture_info_request" ->
           create_xml_msg("SET_PICTURE_INFO_REQUEST_ID", PictureInfoPacket, parse_set_picture_info_request_xml(m))
    [] h = "parse_set_picture_info_result" ->
           parse_set_result("SET_PICTURE_INFO_RESULT_ID", parse_set_picture_info_result_xml(m))
    [] h = "parse_get_wifi_config_request" ->
           parse_get_info("GET_WIFI_CONFIG_REQUEST_ID", parse_get_wifi_config_request_xml(m))
    [] h = "parse_get_wifi_config_response" ->
           create_xml_msg("GET_WIFI_CONFIG_RESPONSE_ID", WifiConfigPacket, parse_get_wifi_config_response_xml(m))
    [] h = "parse_set_wifi_config_request" ->
           create_xml_msg("SET_WIFI_CONFIG_REQUEST_ID", WifiConfigPacket, parse_set_wifi_config_request_xml(m))
    [] h = "parse_set_wifi_config_result" ->
           parse_set_result("SET_WIFI_CONFIG_RESULT_ID", parse_set_wifi_config_result_xml(m))
    [] h = "parse_wifi_search_request" ->
           parse_get_info("WIFI_SEARCH_REQUEST_ID", parse_wifi_search_request_xml(m))
    [] h = "parse_wifi_search_response" ->
           create_xml_msg("WIFI_SEARCH_RESPONSE_ID", WifiSearchResPacket, parse_wifi_search_response_xml(m))
    [] h = "parse_get_network_status_request" ->
           parse_get_info("GET_NETWORK_STATUS_REQUEST_ID", parse_get_network_status_request_xml(m))
    [] h = "parse_get_network_status_response" ->
           create_xml_msg("GET_NETWORK_STATUS_RESPONSE_ID", NetworkStatusPacket, parse_get_network_status_response_xml(m))
    [] OTHER -> NotHere

ParseGroup11(h, m) ==
  CASE h = "parse_control_device_request" ->
           create_xml_msg("CONTROL_DEVICE_REQUEST_ID", ControlDevicePacket, parse_control_device_request_xml(m))
    [] h = "parse_control_device_result" ->
           parse_set_result("CONTROL_DEVICE_RESULT_ID", parse_control_device_result_xml(m))
    [] h = "parse_get_ddns_config_request" ->
           parse_get_info("GET_DDNS_CONFIG_REQUEST_ID", parse_get_ddns_config_request_xml(m))
    [] h = "parse_get_ddns_config_response" ->
           create_xml_msg("GET_DDNS_CONFIG_RESPONSE_ID", DdnsConfigPacket, parse_get_ddns_config_response_xml(m))
    [] h = "parse_set_ddns_config_request" ->
           create_xml_msg("SET_DDNS_CONFIG_REQUEST_ID", DdnsConfigPacket, parse_set_ddns_config_request_xml(m))
    [] h = "parse_set_ddns_config_result" ->
           parse_set_result("SET_DDNS_CONFIG_RESULT_ID", parse_set_ddns_config_result_xml(m))
    [] h = "parse_get_def_display_info_request" ->
           parse_get_info("GET_DEF_DISPLAY_INFO_REQUEST_ID", parse_get_def_display_info_request_xml(m))
    [] h = "parse_get_def_display_info_response" ->
           create_xml_msg("GET_DEF_DISPLAY_INFO_RESPONSE_ID", DisplayParameterPacket, parse_get_def_display_info_response_xml(m))
    [] h = "parse_get_def_picture_info_request" ->
           parse_get_info("GET_DEF_PICTURE_INFO_REQUEST_ID", parse_get_def_picture_info_request_xml(m))
    [] h = "parse_get_def_picture_info_response" ->
           create_xml_msg("GET_DEF_PICTURE_INFO_RESPONSE_ID", PictureInfoPacket, parse_get_def_picture_info_response_xml(m))
    [] h = "parse_get_avd_config_request" ->
           parse_get_info("GET_AVD_CONFIG_REQUEST_ID", parse_get_avd_config_request_xml(m))
    [] h = "parse_get_avd_config_response" ->
           create_xml_msg("GET_AVD_CONFIG_RESPONSE_ID", AvdConfigPacket, parse_get_avd_config_response_xml(m))
    [] h = "parse_set_avd_config_request" ->
           create_xml_msg("SET_AVD_CONFIG_REQUEST_ID", AvdConfigPacket, parse_set_avd_config_request_xml(m))
    [] h = "parse_set_avd_config_result" ->
           parse_set_result("SET_AVD_CONFIG_RESULT_ID", parse_set_avd_config_result_xml(m))
    [] OTHER -> NotHere

ParseGroup12(h, m) ==
  CASE h = "parse_get_transparent_param_request" ->
           create_transparent_param_xml_msg("GET_TRANSPARENTPARAM_REQUEST_ID", parse_get_transparent_param_request_xml(m))
    [] h = "parse_get_transparent_param_response" ->
           create_transparent_param_xml_msg("GET_TRANSPARENTPARAM_RESPONSE_ID", parse_get_transparent_param_response_xml(m))
    [] h = "parse_set_transparent_param_request" ->
           create_transparent_param_xml_msg("SET_TRANSPARENTPARAM_REQUEST_ID", parse_set_transparent_param_request_xml(m))
    [] h = "parse_set_transparent_param_response" ->
           create_xml_msg("SET_TRANSPARENTPARAM_RESPONSE_ID", IntPacket, parse_set_transparent_param_response_xml(m))
    [] h = "parse_transparent_notify_enevt" ->
           create_transparent_param_xml_msg("TRANSPARENTPARAM_NOTIFYEVENT_ID", parse_transparent_notify_enevt_xml(m))
    [] h = "parse_transparent_control_device" ->
           create_transparent_param_xml_msg("TRANSPARENTPARAM_CONTROLDEVICE_ID", parse_transparent_control_device_xml(m))
    [] h = "parse_query_division_mode_request" ->
           create_xml_msg("QUERY_DIVISION_MODE_REQUEST_ID", DivisionModePacket, parse_query_division_mode_request_xml(m))
    [] h = "parse_query_division_mode_response" ->
           create_xml_msg("QUERY_DIVISION_MODE_RESPONSE_ID", DivisionModePacket, parse_query_division_mode_response_xml(m))
    [] h = "parse_get_screen_state_request" ->
           create_xml_msg("GET_SCREEN_STATE_REQUEST_ID", ScreenStatePacket, parse_get_screen_state_request_xml(m))
    [] h = "parse_get_screen_state_response" ->
           create_xml_msg("GET_SCREEN_STATE_RESPONSE_ID", ScreenStatePacket, parse_get_screen_state_response_xml(m))
    [] OTHER -> NotHere

ParseGroup13(h, m) ==
  CASE h = "parse_set_division_mode_request" ->
           create_xml_msg("SET_DIVISION_MODE_REQUEST_ID", ChangeDModePacket, parse_set_division_mode_request_xml(m))
    [] h = "parse_set_division_mode_response" ->
           create_xml_msg("SET_DIVISION_MODE_RESULT_ID", IntPacket, parse_set_division_mode_response_xml(m))
    [] h = "parse_set_full_screen_request" ->
           create_xml_msg("SET_FULL_SCREEN_REQUEST_ID", FullScreenPacket, parse_set_full_screen_request_xml(m))
    [] h = "parse_set_full_screen_response" ->
           create_xml_msg("SET_FULL_SCREEN_RESULT_ID", IntPacket, parse_set_full_screen_response_xml(m))
    [] h = "parse_exit_full_screen_request" ->
           create_xml_msg("EXIT_FULL_SCREEN_REQUEST_ID", IntPacket, parse_exit_full_screen_request_xml(m))
    [] h = "parse_exit_full_screen_response" ->
           create_xml_msg("EXIT_FULL_SCREEN_RESULT_ID", IntPacket, parse_exit_full_screen_response_xml(m))
    [] h = "parse_tv_wall_play_request" ->
           create_xml_msg("TV_WALL_PLAY_REQUEST_ID", TVWallPlayPacket, parse_tv_wall_play_request_xml(m))
    [] h = "parse_tv_wall_play_response" ->
           create_xml_msg("TV_WALL_PLAY_RESULT_ID", TVWallPlayPacket, parse_tv_wall_play_response_xml(m))
    [] h = "parse_clear_division_request" ->
           create_xml_msg("CLEAR_DIVISION_REQUEST_ID", ClearDivisionPacket, parse_clear_division_request_xml(m))
    [] h = "parse_clear_division_response" ->
           create_xml_msg("CLEAR_DIVISION_RESULT_ID", IntPacket, parse_clear_division_response_xml(m))
    [] OTHER -> NotHere

ParseGroup14(h, m) ==
  CASE h = "parse_get_operation_log_request" ->
           create_xml_msg("GET_OPERATION_LOG_REQUEST_ID", OperationLogPacket, parse_get_operation_log_request_xml(m))
    [] h = "parse_get_operation_log_response" ->
           create_xml_msg("GET_OPERATION_LOG_RESPONSE_ID", OperationLogPacket, parse_get_operation_log_response_xml(m))
    [] h = "parse_set_alarm_upload_config_request" ->
           create_xml_msg("SET_ALARM_UPLOAD_CONFIG_REQUEST_ID", JAlarmUploadCfg, parse_set_alarm_upload_config_request_xml(m))
    [] h = "parse_set_alarm_upload_config_response" ->
           create_xml_msg("SET_ALARM_UPLOAD_CONFIG_RESULT_ID", IntPacket, parse_set_alarm_upload_config_response_xml(m))
    [] h = "parse_get_preset_point_set_request" ->
           parse_get_info("GET_PRESET_POINT_SET_REQUEST_ID", parse_get_preset_point_set_request_xml(m))
    [] h = "parse_get_preset_point_set_response" ->
           create_xml_msg("GET_PRESET_POINT_SET_RESPONSE_ID", PPSetPacket, parse_get_preset_point_set_response_xml(m))
    [] h = "parse_set_preset_point_request" ->
           create_xml_msg("SET_PRESET_POINT_REQUEST_ID", PPConfigPacket, parse_set_preset_point_request_xml(m))
    [] h = "parse_set_preset_point_result" ->
           parse_set_result("SET_PRESET_POINT_RESULT_ID", parse_set_preset_point_result_xml(m))
    [] h = "parse_get_cruise_way_set_request" ->
           parse_get_info("GET_CRUISE_WAY_SET_REQUEST_ID", parse_get_cruise_way_set_request_xml(m))
    [] h = "parse_get_cruise_way_set_response" ->
           create_xml_msg("GET_CRUISE_WAY_SET_RESPONSE_ID", CruiseWaySetPacket, parse_get_cruise_way_set_response_xml(m))
    [] h = "parse_set_cruise_way_request" ->
           create_xml_msg("SET_CRUISE_WAY_REQUEST_ID", CruiseConfigPacket, parse_set_cruise_way_request_xml(m))
    [] h = "parse_set_cruise_way_result" ->
           parse_set_result("SET_CRUISE_WAY_RESULT_ID", parse_set_cruise_way_result_xml(m))
    [] h = "parse_get_cruise_way_request" ->
           parse_get_info("GET_CRUISE_WAY_REQUEST_ID", parse_get_cruise_way_request_xml(m))
    [] h = "parse_get_cruise_way_response" ->
           create_xml_msg("GET_CRUISE_WAY_RESPONSE_ID", CruiseWayPacket, parse_get_cruise_way_response_xml(m))
    [] h = "parse_add_cruise_way_request" ->
           create_xml_msg("ADD_CRUISE_WAY_REQUEST_ID", CruiseWayPacket, parse_add_cruise_way_request_xml(m))
    [] h = "parse_add_cruise_way_result" ->
           parse_set_result("ADD_CRUISE_WAY_RESULT_ID", parse_add_cruise_way_result_xml(m))
    [] OTHER -> NotHere

ParseGroup15(h, m) ==
  CASE h = "parse_modify_cruise_way_request" ->
           create_xml_msg("MODIFY_CRUISE_WAY_REQUEST_ID", CruiseWayPacket, parse_modify_cruise_way_request_xml(m))
    [] h = "parse_modify_cruise_way_result" ->
           parse_set_result("MODIFY_CRUISE_WAY_RESULT_ID", parse_modify_cruise_way_result_xml(m))
    [] h = "parse_3d_control_request" ->
           create_xml_msg("_3D_CONTROL_REQUEST_ID", _3DControlPacket, parse_3d_control_request_xml(m))
    [] h = "parse_3d_control_result" ->
           parse_set_result("_3D_CONTROL_RESULT_ID", parse_3d_control_result_xml(m))
    [] h = "parse_3d_goback_request" ->
           parse_get_info("_3D_GOBACK_REQUEST_ID", parse_3d_goback_request_xml(m))
    [] OTHER -> NotHere

ParseGroup16(h, m) ==
  CASE h = "parse_3d_goback_result" ->
           parse_set_result("_3D_GOBACK_RESULT_ID", parse_3d_goback_result_xml(m))
    [] h = "parse_alarm_link_io_request" ->
           create_xml_msg("ALARM_LINK_IO_REQUEST_ID", LinkIOPacket, parse_alarm_link_io_request_xml(m))
    [] h = "parse_alarm_link_io_result" ->
           parse_set_result("ALARM_LINK_IO_RESULT_ID", parse_alarm_link_io_result_xml(m))
    [] h = "parse_alarm_link_preset_request" ->
           create_xml_msg("ALARM_LINK_PRESET_REQUEST_ID", LinkPresetPacket, parse_alarm_link_preset_request_xml(m))
    [] h = "parse_alarm_link_preset_result" ->
           parse_set_result("ALARM_LINK_PRESET_RESULT_ID", parse_alarm_link_preset_result_xml(m))
    [] h = "parse_get_resolution_info_request" ->
           parse_get_info("GET_RESOLUTION_INFO_REQUEST_ID", parse_get_resolution_info_request_xml(m))
    [] h = "parse_get_resolution_info_response" ->
           create_xml_msg("GET_RESOLUTION_INFO_RESPONSE_ID", ResolutionInfoPacket, parse_get_resolution_info_response_xml(m))
    [] h = "parse_set_resolution_info_request" ->
           create_xml_msg("SET_RESOLUTION_INFO_REQUEST_ID", ResolutionInfoPacket, parse_set_resolution_info_request_xml(m))
    [] h = "parse_set_resolution_info_result" ->
           parse_set_result("SET_RESOLUTION_INFO_RESULT_ID", parse_set_resolution_info_result_xml(m))
    [] OTHER -> NotHere

ParseGroup17(h, m) ==
  CASE h = "parse_get_ircut_control_info_request" ->
           parse_get_info("GET_IRCUT_CONTROL_REQUEST_ID", parse_get_ircut_control_info_request_xml(m))
    [] h = "parse_get_ircut_control_info_response" ->
           create_xml_msg("GET_IRCUT_CONTROL_RESPONSE_ID", IrcutControlPacket, parse_get_ircut_control_info_response_xml(m))
    [] h = "parse_set_ircut_control_info_request" ->
           create_xml_msg("SET_IRCUT_CONTROL_REQUEST_ID", IrcutControlPacket, parse_set_ircut_control_info_request_xml(m))
    [] h = "parse_set_ircut_control_info_result" ->
           parse_set_result("SET_IRCUT_CONTROL_RESULT_ID", parse_set_ircut_control_info_result_xml(m))
    [] h = "parse_get_extranet_port_request" ->
           parse_get_info("GET_EXTRANET_PORT_REQUEST_ID", parse_get_extranet_port_request_xml(m))
    [] h = "parse_get_extranet_port_response" ->
           create_xml_msg("GET_EXTRANET_PORT_RESPONSE_ID", ExtranetPortPacket, parse_get_extranet_port_response_xml(m))
    [] h = "parse_get_herd_analyse_info_request" ->
           parse_get_info("GET_HERD_ANALYSE_REQUEST_ID", parse_get_herd_analyse_info_request_xml(m))
    [] h = "parse_get_herd_analyse_info_response" ->
           create_xml_msg("GET_HERD_ANALYSE_RESPONSE_ID", IrcutControlPacket, parse_get_herd_analyse_info_response_xml(m))
    [] h = "parse_set_herd_analyse_info_request" ->
           create_xml_msg("SET_HERD_ANALYSE_REQUEST_ID", IrcutControlPacket, parse_set_herd_analyse_info_request_xml(m))
    [] h = "parse_set_herd_analyse_info_result" ->
           parse_set_result("SET_HERD_ANALYSE_RESULT_ID", parse_set_herd_analyse_info_result_xml(m))
    [] OTHER -> NotHere

ParseGroup18(h, m) ==
  CASE h = "parse_get_grass_percent_request" ->
           parse_get_info("GET_GRASS_PERCENT_REQUEST_ID", parse_get_grass_percent_request_xml(m))
    [] h = "parse_get_grass_percent_response" ->
           create_xml_msg("GET_GRASS_PERCENT_RESPONSE_ID", GrassPercentPacket, parse_get_grass_percent_response_xml(m))
    [] h = "parse_get_p2p_id_request" ->
           create_xml_msg("GET_P2P_ID_REQUEST_ID", P2PIdPacket, parse_get_p2p_id_response_xml(m))
    [] h = "parse_get_p2p_id_response" ->
           create_xml_msg("GET_P2P_ID_RESPONSE_ID", P2PIdPacket, parse_get_p2p_id_response_xml(m))
    [] OTHER -> NotHere

\* One of the groups knows the function of a name.
Known(groups) == groups[CHOOSE g \in DOMAIN groups : groups[g].known]

Create(h, p) ==
  Known(<<CreateGroup1(h, p), CreateGroup2(h, p), CreateGroup3(h, p),
         CreateGroup4(h, p), CreateGroup5(h, p), CreateGroup6(h, p),
         CreateGroup7(h, p), CreateGroup8(h, p), CreateGroup9(h, p),
         CreateGroup10(h, p), CreateGroup11(h, p), CreateGroup12(h, p),
         CreateGroup13(h, p), CreateGroup14(h, p), CreateGroup15(h, p),
         CreateGroup16(h, p), CreateGroup17(h, p)>>)

Parse(h, m) ==
  Known(<<ParseGroup1(h, m), ParseGroup2(h, m), ParseGroup3(h, m), ParseGroup4(h, m),
         ParseGroup5(h, m), ParseGroup6(h, m), ParseGroup7(h, m), ParseGroup8(h, m),
         ParseGroup9(h, m), ParseGroup10(h, m), ParseGroup11(h, m),
         ParseGroup12(h, m), ParseGroup13(h, m), ParseGroup14(h, m),
         ParseGroup15(h, m), ParseGroup16(h, m), ParseGroup17(h, m),
         ParseGroup18(h, m)>>)
==============================================================================
