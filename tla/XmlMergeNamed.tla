---------------------------- MODULE XmlMergeNamed ----------------------------
(****************************************************************************)
(*  What the merge functions of hmxml write that only name the message and  *)
(*  leave the rest to the function of its kind (xml-merge.c).               *)
(****************************************************************************)
EXTENDS XmlMergeExtended

merge_change_dispatch_result_xml(p) == merge_result_action_xml(p, "ChangeDispatchResponse")
merge_get_device_info_xml(p) == merge_request_action_xml(p, "GetDeviceInfo")

merge_get_device_ntp_info_xml(p) == merge_request_action_xml(p, "GetDeviceNTPInfo")
merge_device_ntp_info_response_xml(p) == merge_device_ntp_info_xml(p, "GetDeviceNTPInfoResponse")
merge_set_device_ntp_info_xml(p) == merge_device_ntp_info_xml(p, "SetDeviceNTPInfo")
merge_device_ntp_info_result_xml(p) == merge_result_action_xml(p, "SetDeviceNTPInfoResponse")

merge_get_device_time_xml(p) == merge_request_action_xml(p, "GetDeviceTime")
merge_device_time_response_xml(p) == merge_device_time_xml(p, "GetDeviceTimeResponse")
merge_set_device_time_xml(p) == merge_device_time_xml(p, "SetDeviceTime")
merge_device_time_result_xml(p) == merge_result_action_xml(p, "SetDeviceTimeResponse")

merge_get_platform_info_xml(p) == merge_request_action_xml(p, "GetPlatformInfo")
merge_platform_info_response_xml(p) == merge_platform_info_xml(p, "GetPlatformInfoResponse")
merge_set_platform_info_xml(p) == merge_platform_info_xml(p, "SetPlatformInfo")
merge_platform_info_result_xml(p) == merge_result_action_xml(p, "SetPlatformInfoResponse")

merge_get_network_info_xml(p) == merge_request_action_xml(p, "GetNetworkInfo")
merge_network_info_response_xml(p) == merge_network_info_xml(p, "GetNetworkInfoResponse")
merge_set_network_info_xml(p) == merge_network_info_xml(p, "SetNetworkInfo")
merge_network_info_result_xml(p) == merge_result_action_xml(p, "SetNetworkInfoResponse")

merge_get_pppoe_info_xml(p) == merge_request_action_xml(p, "GetPPPOEInfo")
merge_pppoe_info_response_xml(p) == merge_pppoe_info_xml(p, "GetPPPOEInfoResponse")
merge_set_pppoe_info_xml(p) == merge_pppoe_info_xml(p, "SetPPPOEInfo")
merge_pppoe_info_result_xml(p) == merge_result_action_xml(p, "SetPPPOEInfoResponse")

merge_get_encode_parameter_xml(p) == merge_request_action_xml(p, "GetEncodeParameter")
merge_encode_parameter_response_xml(p) == merge_encode_parameter_xml(p, "GetEncodeParameterResponse")
merge_set_encode_parameter_xml(p) == merge_encode_parameter_xml(p, "SetEncodeParameter")
merge_encode_parameter_result_xml(p) == merge_result_action_xml(p, "SetEncodeParameterResponse")

merge_get_display_parameter_xml(p) == merge_request_action_xml(p, "GetDisplayParameter")
merge_display_parameter_response_xml(p) == merge_display_parameter_xml(p, "GetDisplayParameterResponse")
merge_set_display_parameter_xml(p) == merge_display_parameter_xml(p, "SetDisplayParameter")
merge_display_parameter_result_xml(p) == merge_result_action_xml(p, "SetDisplayParameterResponse")

merge_get_record_parameter_xml(p) == merge_request_action_xml(p, "GetRecordParameter")
merge_record_parameter_response_xml(p) == merge_record_parameter_xml(p, "GetRecordParameterResponse")
merge_set_record_parameter_xml(p) == merge_record_parameter_xml(p, "SetRecordParameter")
merge_record_parameter_result_xml(p) == merge_result_action_xml(p, "SetRecordParameterResponse")

merge_get_hide_parameter_xml(p) == merge_request_action_xml(p, "GetHideParameter")
merge_hide_parameter_response_xml(p) == merge_hide_parameter_xml(p, "GetHideParameterResponse")
merge_set_hide_parameter_xml(p) == merge_hide_parameter_xml(p, "SetHideParameter")
merge_hide_parameter_result_xml(p) == merge_result_action_xml(p, "SetHideParameterResponse")

merge_get_serial_parameter_xml(p) == merge_request_action_xml(p, "GetSerialParameter")
merge_serial_parameter_response_xml(p) == merge_serial_parameter_xml(p, "GetSerialParameterResponse")
merge_set_serial_parameter_xml(p) == merge_serial_parameter_xml(p, "SetSerialParameter")
merge_serial_parameter_result_xml(p) == merge_result_action_xml(p, "SetSerialParameterResponse")

merge_get_osd_parameter_xml(p) == merge_request_action_xml(p, "GetOSDParameter")
merge_osd_parameter_response_xml(p) == merge_osd_parameter_xml(p, "GetOSDParameterResponse")
merge_set_osd_parameter_xml(p) == merge_osd_parameter_xml(p, "SetOSDParameter")
merge_osd_parameter_result_xml(p) == merge_result_action_xml(p, "SetOSDParameterResponse")

merge_get_ptz_parameter_xml(p) == merge_request_action_xml(p, "GetPTZParameter")
merge_ptz_parameter_response_xml(p) == merge_ptz_parameter_xml(p, "GetPTZParameterResponse")
merge_set_ptz_parameter_xml(p) == merge_ptz_parameter_xml(p, "SetPTZParameter")
merge_ptz_parameter_result_xml(p) == merge_result_action_xml(p, "SetPTZParameterResponse")

merge_get_ftp_parameter_xml(p) == merge_request_action_xml(p, "GetFTPParameter")
merge_ftp_parameter_response_xml(p) == merge_ftp_parameter_xml(p, "GetFTPParameterResponse")
merge_set_ftp_parameter_xml(p) == merge_ftp_parameter_xml(p, "SetFTPParameter")
merge_ftp_parameter_result_xml(p) == merge_result_action_xml(p, "SetFTPParameterResponse")

merge_get_smtp_parameter_xml(p) == merge_request_action_xml(p, "GetSMTPParameter")
merge_smtp_parameter_response_xml(p) == merge_smtp_parameter_xml(p, "GetSMTPParameterResponse")
merge_set_smtp_parameter_xml(p) == merge_smtp_parameter_xml(p, "SetSMTPParameter")
merge_smtp_parameter_result_xml(p) == merge_result_action_xml(p, "SetSMTPParameterResponse")

merge_get_upnp_parameter_xml(p) == merge_request_action_xml(p, "GetUPNPParameter")
merge_upnp_parameter_response_xml(p) == merge_upnp_parameter_xml(p, "GetUPNPParameterResponse")
merge_set_upnp_parameter_xml(p) == merge_upnp_parameter_xml(p, "SetUPNPParameter")
merge_upnp_parameter_result_xml(p) == merge_result_action_xml(p, "SetUPNPParameterResponse")
merge_get_device_disk_info_xml(p) == merge_request_action_xml(p, "GetDiskInfo")

merge_format_disk_request_xml(p) == merge_format_disk_info_xml(p, "FormatDisk")
merge_format_disk_result_xml(p) == merge_result_action_xml(p, "FormatDiskResponse")

merge_get_move_alarm_info_xml(p) == merge_request_action_xml(p, "GetMoveAlarmParameter")
merge_move_alarm_info_response_xml(p) == merge_move_alarm_info_xml(p, "GetMoveAlarmParameterResponse")
merge_set_move_alarm_info_xml(p) == merge_move_alarm_info_xml(p, "SetMoveAlarmParameter")
merge_move_alarm_info_result_xml(p) == merge_result_action_xml(p, "SetMoveAlarmParameterResponse")

merge_get_lost_alarm_info_xml(p) == merge_request_action_xml(p, "GetVideoLostAlarmParameter")
merge_lost_alarm_info_response_xml(p) == merge_lost_alarm_info_xml(p, "GetVideoLostAlarmParameterResponse")
merge_set_lost_alarm_info_xml(p) == merge_lost_alarm_info_xml(p, "SetVideoLostAlarmParameter")
merge_lost_alarm_info_result_xml(p) == merge_result_action_xml(p, "SetVideoLostAlarmParameterResponse")

merge_get_hide_alarm_info_xml(p) == merge_request_action_xml(p, "GetHideAlarmParameter")
merge_hide_alarm_info_response_xml(p) == merge_hide_alarm_info_xml(p, "GetHideAlarmParameterResponse")
merge_set_hide_alarm_info_xml(p) == merge_hide_alarm_info_xml(p, "SetHideAlarmParameter")
merge_hide_alarm_info_result_xml(p) == merge_result_action_xml(p, "SetHideAlarmParameterResponse")

merge_get_io_alarm_info_xml(p) == merge_request_action_xml(p, "GetIoAlarmParameter")
merge_io_alarm_info_response_xml(p) == merge_io_alarm_info_xml(p, "GetIoAlarmParameterResponse")
merge_set_io_alarm_info_xml(p) == merge_io_alarm_info_xml(p, "SetIoAlarmParameter")
merge_io_alarm_info_result_xml(p) == merge_result_action_xml(p, "SetIoAlarmParameterResponse")

merge_get_joint_action_info_xml(p) == merge_request_action_xml(p, "GetJointParameter")

merge_joint_action_info_response_xml(p) == merge_joint_info_xml(p, "GetJointParameterResponse")
merge_set_joint_action_info_xml(p) == merge_joint_info_xml(p, "SetJointParameter")
merge_joint_action_info_result_xml(p) == merge_result_action_xml(p, "SetJointParameterResponse")

merge_control_ptz_cmd_xml(p) == merge_control_ptz_xml(p, "ControlPTZCmd")
merge_ptz_cmd_result_xml(p) == merge_result_action_xml(p, "ControlPTZCmdResponse")

merge_get_media_url_request_xml(p) == merge_media_url_xml(p, "GetMediaURL")
merge_get_media_url_response_xml(p) == merge_media_url_xml(p, "GetMediaURLResponse")

merge_get_channel_info_request_xml(p) == merge_request_action_xml(p, "GetChannelInfo")
merge_get_channel_info_response_xml(p) == merge_channel_info_xml(p, "GetChannelInfoResponse")
merge_set_channel_info_request_xml(p) == merge_channel_info_xml(p, "SetChannelInfo")
merge_set_channel_info_result_xml(p) == merge_result_action_xml(p, "SetChannelInfoResponse")

merge_get_picture_info_request_xml(p) == merge_request_action_xml(p, "GetPictureInfo")
merge_get_picture_info_response_xml(p) == merge_picture_info_xml(p, "GetPictureInfoResponse")
merge_set_picture_info_request_xml(p) == merge_picture_info_xml(p, "SetPictureInfo")
merge_set_picture_info_result_xml(p) == merge_result_action_xml(p, "SetPictureInfoResponse")

merge_get_wifi_config_request_xml(p) == merge_request_action_xml(p, "GetWifiConfig")
merge_get_wifi_config_response_xml(p) == merge_wifi_config_xml(p, "GetWifiConfigResponse")
merge_set_wifi_config_request_xml(p) == merge_wifi_config_xml(p, "SetWifiConfig")
merge_set_wifi_config_result_xml(p) == merge_result_action_xml(p, "SetWifiConfigResponse")

merge_wifi_search_request_xml(p) == merge_request_action_xml(p, "WifiSearch")
merge_wifi_search_response_xml(p) == merge_wifi_search_xml(p, "WifiSearchResponse")

merge_get_network_status_request_xml(p) == merge_request_action_xml(p, "GetNetworkStatus")
merge_get_network_status_response_xml(p) == merge_network_status_xml(p, "GetNetworkStatusResponse")

merge_control_device_result_xml(p) == merge_result_action_xml(p, "ControlDeviceResponse")

merge_get_ddns_config_request_xml(p) == merge_request_action_xml(p, "GetDdnsConfig")
merge_get_ddns_config_response_xml(p) == merge_ddns_config_xml(p, "GetDdnsConfigResponse")
merge_set_ddns_config_request_xml(p) == merge_ddns_config_xml(p, "SetDdnsConfig")
merge_set_ddns_config_result_xml(p) == merge_result_action_xml(p, "SetDdnsConfigResponse")
merge_get_def_display_info_request_xml(p) == merge_request_action_xml(p, "GetDefDisplayParameter")
merge_get_def_display_info_response_xml(p) == merge_display_parameter_xml(p, "GetDefDisplayParameterResponse")
merge_get_def_picture_info_request_xml(p) == merge_request_action_xml(p, "GetDefPictureInfo")
merge_get_def_picture_info_response_xml(p) == merge_picture_info_xml(p, "GetDefPictureInfoResponse")

merge_get_avd_config_request_xml(p) == merge_request_action_xml(p, "GetAvdConfig")
merge_get_avd_config_response_xml(p) == merge_avd_config_xml(p, "GetAvdConfigResponse")
merge_set_avd_config_request_xml(p) == merge_avd_config_xml(p, "SetAvdConfig")
merge_set_avd_config_result_xml(p) == merge_result_action_xml(p, "SetAvdConfigResponse")

merge_query_division_mode_response_xml(p) == merge_division_mode(p, "QueryDivisionModeResponse")

merge_get_screen_state_response_xml(p) == merge_get_screen_state(p, "GetScreenStateResponse")

merge_set_division_mode_response_xml(p) == merge_result_info_xml(p, "ChangeDivisionModeResponse")

merge_set_full_screen_response_xml(p) == merge_result_info_xml(p, "FullScreenResponse")

merge_exit_full_screen_response_xml(p) == merge_result_info_xml(p, "ExitFullScreenResponse")

merge_tv_wall_play_request_xml(p) == merge_tv_wall_play(p, "TwPlay")
merge_tv_wall_play_response_xml(p) == merge_tv_wall_play(p, "TwPlayResponse")

merge_clear_division_response_xml(p) == merge_result_info_xml(p, "ClearDivisionResponse")

merge_set_alarm_upload_config_response_xml(p) == merge_result_info_xml(p, "SetAlarmUploadConfigResponse")

merge_get_preset_point_set_request_xml(p) == merge_request_action_xml(p, "GetPresetPointSet")
merge_get_preset_point_set_response_xml(p) == merge_preset_point_set_xml(p, "GetPresetPointSetResponse")

merge_set_preset_point_request_xml(p) == merge_preset_point_xml(p, "SetPresetPoint")
merge_set_preset_point_result_xml(p) == merge_result_action_xml(p, "SetPresetPointResponse")

merge_add_cruise_way_request_xml(p) == merge_cruise_way_xml(p, "AddCruiseWay")
merge_add_cruise_way_result_xml(p) == merge_result_action_xml(p, "AddCruiseWayResponse")
merge_modify_cruise_way_request_xml(p) == merge_cruise_way_xml(p, "ModifyCruiseWay")
merge_modify_cruise_way_result_xml(p) == merge_result_action_xml(p, "ModifyCruiseWayResponse")

merge_set_cruise_way_request_xml(p) == merge_cruise_config_xml(p, "SetCruiseWay")
merge_set_cruise_way_result_xml(p) == merge_result_action_xml(p, "SetCruiseWayResponse")

merge_3d_control_request_xml(p) == merge_3d_control_xml(p, "3DControl")
merge_3d_control_result_xml(p) == merge_result_action_xml(p, "3DControlResponse")
merge_3d_goback_request_xml(p) == merge_request_action_xml(p, "3DGoback")
merge_3d_goback_result_xml(p) == merge_result_action_xml(p, "3DGobackResponse")

merge_alarm_link_io_result_xml(p) == merge_result_action_xml(p, "AlarmLinkIOResponse")

merge_alarm_link_preset_result_xml(p) == merge_result_action_xml(p, "AlarmLinkPresetResponse")

merge_set_resolution_info_request_xml(p) == merge_resolution_info_xml(p, "SetResolutionInfo")
merge_set_resolution_info_result_xml(p) == merge_result_action_xml(p, "SetResolutionInfoResponse")

merge_set_ircut_control_info_result_xml(p) == merge_result_action_xml(p, "SetIrcutControlInfoResponse")

merge_set_herd_analyse_info_result_xml(p) == merge_result_action_xml(p, "SetHerdAnalyseParameterResponse")
======================================================================
