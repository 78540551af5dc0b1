---------------------------- MODULE XmlParseNamed ----------------------------
(***************************************************************************)
(*  What the parse functions of hmxml read that only name the message and  *)
(*  leave the rest to the function of its kind (xml-parse.c).              *)
(***************************************************************************)
EXTENDS XmlParseExtended

parse_change_dispatch_result_xml(m) == parse_result_action_xml(m, "ChangeDispatchResponse")
parse_get_device_info_xml(m) == parse_request_action_xml(m, "GetDeviceInfo")

parse_get_device_ntp_info_xml(m) == parse_request_action_xml(m, "GetDeviceNTPInfo")
parse_device_ntp_info_response_xml(m) == parse_device_ntp_info_xml(m, "GetDeviceNTPInfoResponse")
parse_set_device_ntp_info_xml(m) == parse_device_ntp_info_xml(m, "SetDeviceNTPInfo")
parse_device_ntp_info_result_xml(m) == parse_result_action_xml(m, "SetDeviceNTPInfoResponse")

parse_get_device_time_xml(m) == parse_request_action_xml(m, "GetDeviceTime")
parse_device_time_response_xml(m) == parse_device_time_xml(m, "GetDeviceTimeResponse")
parse_set_device_time_xml(m) == parse_device_time_xml(m, "SetDeviceTime")
parse_device_time_result_xml(m) == parse_result_action_xml(m, "SetDeviceTimeResponse")

parse_get_platform_info_xml(m) == parse_request_action_xml(m, "GetPlatformInfo")
parse_platform_info_response_xml(m) == parse_platform_info_xml(m, "GetPlatformInfoResponse")
parse_set_platform_info_xml(m) == parse_platform_info_xml(m, "SetPlatformInfo")
parse_platform_info_result_xml(m) == parse_result_action_xml(m, "SetPlatformInfoResponse")

parse_get_network_info_xml(m) == parse_request_action_xml(m, "GetNetworkInfo")
parse_network_info_response_xml(m) == parse_network_info_xml(m, "GetNetworkInfoResponse")
parse_set_network_info_xml(m) == parse_network_info_xml(m, "SetNetworkInfo")
parse_network_info_result_xml(m) == parse_result_action_xml(m, "SetNetworkInfoResponse")

parse_get_pppoe_info_xml(m) == parse_request_action_xml(m, "GetPPPOEInfo")
parse_pppoe_info_response_xml(m) == parse_pppoe_info_xml(m, "GetPPPOEInfoResponse")
parse_set_pppoe_info_xml(m) == parse_pppoe_info_xml(m, "SetPPPOEInfo")
parse_pppoe_info_result_xml(m) == parse_result_action_xml(m, "SetPPPOEInfoResponse")

parse_get_encode_parameter_xml(m) == parse_request_action_xml(m, "GetEncodeParameter")
parse_encode_parameter_response_xml(m) == parse_encode_parameter_xml(m, "GetEncodeParameterResponse")
parse_set_encode_parameter_xml(m) == parse_encode_parameter_xml(m, "SetEncodeParameter")
parse_encode_parameter_result_xml(m) == parse_result_action_xml(m, "SetEncodeParameterResponse")

parse_get_display_parameter_xml(m) == parse_request_action_xml(m, "GetDisplayParameter")
parse_display_parameter_response_xml(m) == parse_display_parameter_xml(m, "GetDisplayParameterResponse")
parse_set_display_parameter_xml(m) == parse_display_parameter_xml(m, "SetDisplayParameter")
parse_display_parameter_result_xml(m) == parse_result_action_xml(m, "SetDisplayParameterResponse")

parse_get_record_parameter_xml(m) == parse_request_action_xml(m, "GetRecordParameter")
parse_record_parameter_response_xml(m) == parse_record_parameter_xml(m, "GetRecordParameterResponse")
parse_set_record_parameter_xml(m) == parse_record_parameter_xml(m, "SetRecordParameter")
parse_record_parameter_result_xml(m) == parse_result_action_xml(m, "SetRecordParameterResponse")

parse_get_hide_parameter_xml(m) == parse_request_action_xml(m, "GetHideParameter")
parse_hide_parameter_response_xml(m) == parse_hide_parameter_xml(m, "GetHideParameterResponse")
parse_set_hide_parameter_xml(m) == parse_hide_parameter_xml(m, "SetHideParameter")
parse_hide_parameter_result_xml(m) == parse_result_action_xml(m, "SetHideParameterResponse")

parse_get_serial_parameter_xml(m) == parse_request_action_xml(m, "GetSerialParameter")
parse_serial_parameter_response_xml(m) == parse_serial_parameter_xml(m, "GetSerialParameterResponse")
parse_set_serial_parameter_xml(m) == parse_serial_parameter_xml(m, "SetSerialParameter")
parse_serial_parameter_result_xml(m) == parse_result_action_xml(m, "SetSerialParameterResponse")

parse_get_osd_parameter_xml(m) == parse_request_action_xml(m, "GetOSDParameter")
parse_osd_parameter_response_xml(m) == parse_osd_parameter_xml(m, "GetOSDParameterResponse")
parse_set_osd_parameter_xml(m) == parse_osd_parameter_xml(m, "SetOSDParameter")
parse_osd_parameter_result_xml(m) == parse_result_action_xml(m, "SetOSDParameterResponse")

parse_get_ptz_parameter_xml(m) == parse_request_action_xml(m, "GetPTZParameter")
parse_ptz_parameter_response_xml(m) == parse_ptz_parameter_xml(m, "GetPTZParameterResponse")
parse_set_ptz_parameter_xml(m) == parse_ptz_parameter_xml(m, "SetPTZParameter")
parse_ptz_parameter_result_xml(m) == parse_result_action_xml(m, "SetPTZParameterResponse")

parse_get_ftp_parameter_xml(m) == parse_request_action_xml(m, "GetFTPParameter")
parse_ftp_parameter_response_xml(m) == parse_ftp_parameter_xml(m, "GetFTPParameterResponse")
parse_set_ftp_parameter_xml(m) == parse_ftp_parameter_xml(m, "SetFTPParameter")
parse_ftp_parameter_result_xml(m) == parse_result_action_xml(m, "SetFTPParameterResponse")

parse_get_smtp_parameter_xml(m) == parse_request_action_xml(m, "GetSMTPParameter")
parse_smtp_parameter_response_xml(m) == parse_smtp_parameter_xml(m, "GetSMTPParameterResponse")
parse_set_smtp_parameter_xml(m) == parse_smtp_parameter_xml(m, "SetSMTPParameter")
parse_smtp_parameter_result_xml(m) == parse_result_action_xml(m, "SetSMTPParameterResponse")

parse_get_upnp_parameter_xml(m) == parse_request_action_xml(m, "GetUPNPParameter")
parse_upnp_parameter_response_xml(m) == parse_upnp_parameter_xml(m, "GetUPNPParameterResponse")
parse_set_upnp_parameter_xml(m) == parse_upnp_parameter_xml(m, "SetUPNPParameter")
parse_upnp_parameter_result_xml(m) == parse_result_action_xml(m, "SetUPNPParameterResponse")
parse_get_device_disk_info_xml(m) == parse_request_action_xml(m, "GetDiskInfo")

parse_format_disk_request_xml(m) == parse_format_disk_info_xml(m, "FormatDisk")
parse_format_disk_result_xml(m) == parse_result_action_xml(m, "FormatDiskResponse")

parse_get_move_alarm_info_xml(m) == parse_request_action_xml(m, "GetMoveAlarmParameter")
parse_move_alarm_info_response_xml(m) == parse_move_alarm_info_xml(m, "GetMoveAlarmParameterResponse")
parse_set_move_alarm_info_xml(m) == parse_move_alarm_info_xml(m, "SetMoveAlarmParameter")
parse_move_alarm_info_result_xml(m) == parse_result_action_xml(m, "SetMoveAlarmParameterResponse")

parse_get_lost_alarm_info_xml(m) == parse_request_action_xml(m, "GetVideoLostAlarmParameter")
parse_lost_alarm_info_response_xml(m) == parse_lost_alarm_info_xml(m, "GetVideoLostAlarmParameterResponse")
parse_set_lost_alarm_info_xml(m) == parse_lost_alarm_info_xml(m, "SetVideoLostAlarmParameter")
parse_lost_alarm_info_result_xml(m) == parse_result_action_xml(m, "SetVideoLostAlarmParameterResponse")

parse_get_hide_alarm_info_xml(m) == parse_request_action_xml(m, "GetHideAlarmParameter")
parse_hide_alarm_info_response_xml(m) == parse_hide_alarm_info_xml(m, "GetHideAlarmParameterResponse")
parse_set_hide_alarm_info_xml(m) == parse_hide_alarm_info_xml(m, "SetHideAlarmParameter")
parse_hide_alarm_info_result_xml(m) == parse_result_action_xml(m, "SetHideAlarmParameterResponse")

parse_get_io_alarm_info_xml(m) == parse_request_action_xml(m, "GetIoAlarmParameter")
parse_io_alarm_info_response_xml(m) == parse_io_alarm_info_xml(m, "GetIoAlarmParameterResponse")
parse_set_io_alarm_info_xml(m) == parse_io_alarm_info_xml(m, "SetIoAlarmParameter")
parse_io_alarm_info_result_xml(m) == parse_result_action_xml(m, "SetIoAlarmParameterResponse")

parse_get_joint_action_info_xml(m) == parse_request_action_xml(m, "GetJointParameter")
parse_joint_action_info_response_xml(m) == parse_joint_info_xml(m, "GetJointParameterResponse")
parse_set_joint_action_info_xml(m) == parse_joint_info_xml(m, "SetJointParameter")
parse_joint_action_info_result_xml(m) == parse_result_action_xml(m, "SetJointParameterResponse")

parse_user_login_result_xml(m) == parse_result_info_xml(m, "UserLoginResponse")

parse_firmware_upgrade_request_xml(m) == parse_firmware_upgrade_info_xml(m, "FirmwareUpgrade")
parse_firmware_upgrade_response_xml(m) == parse_firmware_upgrade_info_xml(m, "FirmwareUpgradeResponse")

parse_add_user_result_xml(m) == parse_result_info_xml(m, "AddUserResponse")

parse_del_user_result_xml(m) == parse_result_info_xml(m, "DelUserResponse")

parse_modify_password_result_xml(m) == parse_result_info_xml(m, "ModifyPasswordResponse")

parse_add_device_result_xml(m) == parse_result_info_xml(m, "AddProxyDeviceResponse")

parse_del_device_request_xml(m) == parse_device_id_xml(m, "DelProxyDevice")
parse_del_device_result_xml(m) == parse_result_info_xml(m, "DelProxyDeviceResponse")

parse_get_device_info_result_xml(m) == parse_proxy_device_info_xml(m, "GetProxyDeviceInfoResponse")
parse_set_device_info_request_xml(m) == parse_proxy_device_info_xml(m, "SetProxyDeviceInfo")
parse_set_device_info_result_xml(m) == parse_result_info_xml(m, "SetProxyDeviceInfoResponse")

parse_proxy_factory_list_xml(m) == parse_proxy_factory_info_xml(m, "FactoryListInfo")

parse_get_def_display_info_request_xml(m) == parse_request_action_xml(m, "GetDefDisplayParameter")
parse_get_def_display_info_response_xml(m) == parse_display_parameter_xml(m, "GetDefDisplayParameterResponse")

parse_get_transparent_param_response_xml(m) == parse_transparent_param_xml(m, "GetTransparentParamResponse")

parse_set_transparent_param_response_xml(m) == parse_result_info_xml(m, "SetTransparentParamResponse")
parse_transparent_notify_enevt_xml(m) == parse_transparent_param_xml(m, "NotifyEvent")
parse_transparent_control_device_xml(m) == parse_transparent_param_xml(m, "ControlDevice")

parse_get_preset_point_set_request_xml(m) == parse_request_action_xml(m, "GetPresetPointSet")
parse_get_preset_point_set_response_xml(m) == parse_preset_point_set(m, "GetPresetPointSetResponse")

parse_set_preset_point_request_xml(m) == parse_preset_point_info(m, "SetPresetPoint")
parse_set_preset_point_result_xml(m) == parse_result_action_xml(m, "SetPresetPointResponse")

parse_get_cruise_way_set_request_xml(m) == parse_request_action_xml(m, "GetCruiseWaySet")
parse_get_cruise_way_set_response_xml(m) == parse_cruise_way_set(m, "GetCruiseWaySetResponse")

parse_set_cruise_way_request_xml(m) == parse_cruise_config(m, "SetCruiseWay")
parse_set_cruise_way_result_xml(m) == parse_result_action_xml(m, "SetCruiseWayResponse")

parse_get_cruise_way_request_xml(m) == parse_request_action_xml(m, "GetCruiseWay")
parse_get_cruise_way_response_xml(m) == parse_config_cruise_way(m, "GetCruiseWayResponse")
parse_add_cruise_way_request_xml(m) == parse_config_cruise_way(m, "AddCruiseWay")
parse_add_cruise_way_result_xml(m) == parse_result_action_xml(m, "AddCruiseWayResponse")
parse_modify_cruise_way_request_xml(m) == parse_config_cruise_way(m, "ModifyCruiseWay")
parse_modify_cruise_way_result_xml(m) == parse_result_action_xml(m, "ModifyCruiseWayResponse")

parse_3d_control_request_xml(m) == parse_3d_control(m, "3DControl")
parse_3d_control_result_xml(m) == parse_result_action_xml(m, "3DControlResponse")
parse_3d_goback_request_xml(m) == parse_request_action_xml(m, "3DGoback")
parse_3d_goback_result_xml(m) == parse_result_action_xml(m, "3DGobackResponse")

parse_alarm_link_io_result_xml(m) == parse_result_action_xml(m, "AlarmLinkIOResponse")

parse_alarm_link_preset_result_xml(m) == parse_result_action_xml(m, "AlarmLinkPresetResponse")
======================================================================
