------------------------------- MODULE XmlRegistry -------------------------------
(***************************************************************************)
(* The table of messages of hmxml, in the order in which init_jpf_xml_msg   *)
(* registers them (hm_xmlmsg.c): the number of a message, here its name,    *)
(* the type that the message carries, the handler that writes it and the    *)
(* one that reads it.                                                       *)
(***************************************************************************)
EXTENDS Sequences

\* A kind of message that has no such handler.
NULL == "NULL"

Entries1 == <<
  <<"PU_GET_CSS_REQUEST_ID", "PuGetCss",
     "create_get_css_request", "parse_get_css_request">>,
  <<"PU_GET_CSS_RESPONSE_ID", "PuGetCssResponse",
     "create_get_css_request", "parse_get_css_response">>,
  <<"REGISTER_CSS_REQUEST_ID", "PuRegister",
     "create_pu_register_css", "parse_pu_register_css">>,
  <<"REGISTER_CSS_RESPONSE_ID", "PuRegisterResponse",
     "create_register_css_response", "parse_register_css_response">>,
  <<"REGISTER_REQUEST_ID", "PuRegister",
     "create_register_request", "parse_register_request">>,
  <<"REGISTER_RESPONSE_ID", "PuRegisterResponse",
     "create_register_response", "parse_register_response">>,
  <<"HEART_BEAT_REQUEST_ID", "PuHeart",
     "create_heart_beat_request", "parse_heart_beat_request">>,
  <<"HEART_BEAT_RESPONSE_ID", "PuHeartResponse",
     "create_heart_beat_response", "parse_heart_beat_response">>,
  <<"GET_MDS_INFO_REQUEST_ID", "GetMdsInfo",
     "create_get_mds_info_request", "parse_get_mds_info_request">>,
  <<"GET_MDS_INFO_RESPONSE_ID", "GetMdsInfoResponse",
     "create_get_mds_info_response", "parse_get_mds_info_response">>,
  <<"CHANGE_DISPATCH_REQUEST_ID", "ChangeDispatch",
     "create_change_dispatch_request", "parse_change_dispatch_request">>,
  <<"CHANGE_DISPATCH_RESULT_ID", "ChangeDispatchResponse",
     "create_change_dispatch_result", "parse_change_dispatch_result">>,
  <<"GET_DEVICE_INFO_ID", "GetDeviceInfo",
     "create_get_device_info", "parse_get_device_info">>,
  <<"DEVICE_INFO_RESPONSE_ID", "GetDeviceInfoResponse",
     "create_device_info_response", "parse_device_info_response">>,
  <<"GET_DEVICE_NTP_INFO_ID", "GetDeviceNTPInfo",
     "create_get_device_ntp_info", "parse_get_device_ntp_info">>,
  <<"DEVICE_NTP_INFO_RESPONSE_ID", "GetDeviceNTPInfoResponse",
     "create_device_ntp_info_response", "parse_device_ntp_info_response">>,
  <<"SET_DEVICE_NTP_INFO_ID", "SetDeviceNTPInfo",
     "create_set_device_ntp_info", "parse_set_device_ntp_info">>,
  <<"DEVICE_NTP_INFO_RESULT_ID", "SetDeviceNTPInfoResponse",
     "create_device_ntp_info_result", "parse_device_ntp_info_result">>,
  <<"GET_DEVICE_TIME_ID", "GetDeviceTime",
     "create_get_device_time", "parse_get_device_time">>,
  <<"DEVICE_TIME_RESPONSE_ID", "GetDeviceTimeResponse",
     "create_device_time_response", "parse_device_time_response">>,
  <<"SET_DEVICE_TIME_ID", "SetDeviceTime",
     "create_set_device_time", "parse_set_device_time">>,
  <<"DEVICE_TIME_RESULT_ID", "SetDeviceTimeResponse",
     "create_device_time_result", "parse_device_time_result">>,
  <<"GET_PLATFORM_INFO_ID", "GetPlatformInfo",
     "create_get_platform_info", "parse_get_platform_info">>,
  <<"PLATFORM_INFO_RESPONSE_ID", "GetPlatformInfoResponse",
     "create_platform_info_response", "parse_platform_info_response">>,
  <<"SET_PLATFORM_INFO_ID", "SetPlatformInfo",
     "create_set_platform_info", "parse_set_platform_info">>,
  <<"PLATFORM_INFO_RESULT_ID", "SetPlatformInfoResponse",
     "create_platform_info_result", "parse_platform_info_result">>,
  <<"GET_NETWORK_INFO_ID", "GetNetworkInfo",
     "create_get_network_info", "parse_get_network_info">>,
  <<"NETWORK_INFO_RESPONSE_ID", "GetNetworkInfoResponse",
     "create_network_info_response", "parse_network_info_response">>,
  <<"SET_NETWORK_INFO_ID", "SetNetworkInfo",
     "create_set_network_info", "parse_set_network_info">>,
  <<"NETWORK_INFO_RESULT_ID", "SetNetworkInfoResponse",
     "create_network_info_result", "parse_network_info_result">>,
  <<"GET_PPPOE_INFO_ID", "GetPPPOEInfo",
     "create_get_pppoe_info", "parse_get_pppoe_info">>,
  <<"PPPOE_INFO_RESPONSE_ID", "GetPPPOEInfoResponse",
     "create_pppoe_info_response", "parse_pppoe_info_response">>,
  <<"SET_PPPOE_INFO_ID", "SetPPPOEInfo",
     "create_set_pppoe_info", "parse_set_pppoe_info">>,
  <<"PPPOE_INFO_RESULT_ID", "SetPPPOEInfoResponse",
     "create_pppoe_info_result", "parse_pppoe_info_result">>,
  <<"GET_ENCODE_PARAMETER_ID", "GetEncodeParameter",
     "create_get_encode_parameter", "parse_get_encode_parameter">>,
  <<"ENCODE_PARAMETER_RESPONSE_ID", "GetEncodeParameterResponse",
     "create_encode_parameter_response", "parse_encode_parameter_response">>,
  <<"SET_ENCODE_PARAMETER_ID", "SetEncodeParameter",
     "create_set_encode_parameter", "parse_set_encode_parameter">> >>

Entries2 == <<
  <<"ENCODE_PARAMETER_RESULT_ID", "SetEncodeParameterResponse",
     "create_encode_parameter_result", "parse_encode_parameter_result">>,
  <<"GET_DISPLAY_PARAMETER_ID", "GetDisplayParameter",
     "create_get_display_parameter", "parse_get_display_parameter">>,
  <<"DISPLAY_PARAMETER_RESPONSE_ID", "GetDisplayParameterResponse",
     "create_display_parameter_response", "parse_display_parameter_response">>,
  <<"SET_DISPLAY_PARAMETER_ID", "SetDisplayParameter",
     "create_set_display_parameter", "parse_set_display_parameter">>,
  <<"DISPLAY_PARAMETER_RESULT_ID", "SetDisplayParameterResponse",
     "create_display_parameter_result", "parse_display_parameter_result">>,
  <<"GET_RECORD_PARAMETER_ID", "GetRecordParameter",
     "create_get_record_parameter", "parse_get_record_parameter">>,
  <<"RECORD_PARAMETER_RESPONSE_ID", "GetRecordParameterResponse",
     "create_record_parameter_response", "parse_record_parameter_response">>,
  <<"SET_RECORD_PARAMETER_ID", "SetRecordParameter",
     "create_set_record_parameter", "parse_set_record_parameter">>,
  <<"RECORD_PARAMETER_RESULT_ID", "SetRecordParameterResponse",
     "create_record_parameter_result", "parse_record_parameter_result">>,
  <<"GET_HIDE_PARAMETER_ID", "GetHideParameter",
     "create_get_hide_parameter", "parse_get_hide_parameter">>,
  <<"HIDE_PARAMETER_RESPONSE_ID", "GetHideParameterResponse",
     "create_hide_parameter_response", "parse_hide_parameter_response">>,
  <<"SET_HIDE_PARAMETER_ID", "SetHideParameter",
     "create_set_hide_parameter", "parse_set_hide_parameter">>,
  <<"HIDE_PARAMETER_RESULT_ID", "SetHideParameterResponse",
     "create_hide_parameter_result", "parse_hide_parameter_result">>,
  <<"GET_SERIAL_PARAMETER_ID", "GetSerialParameter",
     "create_get_serial_parameter", "parse_get_serial_parameter">>,
  <<"SERIAL_PARAMETER_RESPONSE_ID", "GetSerialParameterResponse",
     "create_serial_parameter_response", "parse_serial_parameter_response">>,
  <<"SET_SERIAL_PARAMETER_ID", "SetSerialParameter",
     "create_set_serial_parameter", "parse_set_serial_parameter">>,
  <<"SERIAL_PARAMETER_RESULT_ID", "SetSerialParameterResponse",
     "create_serial_parameter_result", "parse_serial_parameter_result">>,
  <<"GET_OSD_PARAMETER_ID", "GetOSDParameter",
     "create_get_osd_parameter", "parse_get_osd_parameter">>,
  <<"OSD_PARAMETER_RESPONSE_ID", "GetOSDParameterResponse",
     "create_osd_parameter_response", "parse_osd_parameter_response">>,
  <<"SET_OSD_PARAMETER_ID", "SetOSDParameter",
     "create_set_osd_parameter", "parse_set_osd_parameter">>,
  <<"OSD_PARAMETER_RESULT_ID", "SetOSDParameterResponse",
     "create_osd_parameter_result", "parse_osd_parameter_result">>,
  <<"GET_PTZ_PARAMETER_ID", "GetPTZParameter",
     "create_get_ptz_parameter", "parse_get_ptz_parameter">>,
  <<"PTZ_PARAMETER_RESPONSE_ID", "GetPTZParameterResponse",
     "create_ptz_parameter_response", "parse_ptz_parameter_response">>,
  <<"SET_PTZ_PARAMETER_ID", "SetPTZParameter",
     "create_set_ptz_parameter", "parse_set_ptz_parameter">>,
  <<"PTZ_PARAMETER_RESULT_ID", "SetPTZParameterResponse",
     "create_ptz_parameter_result", "parse_ptz_parameter_result">>,
  <<"GET_FTP_PARAMETER_ID", "GetFTPParameter",
     "create_get_ftp_parameter", "parse_get_ftp_parameter">>,
  <<"FTP_PARAMETER_RESPONSE_ID", "GetFTPParameterResponse",
     "create_ftp_parameter_response", "parse_ftp_parameter_response">>,
  <<"SET_FTP_PARAMETER_ID", "SetFTPParameter",
     "create_set_ftp_parameter", "parse_set_ftp_parameter">>,
  <<"FTP_PARAMETER_RESULT_ID", "SetFTPParameterResponse",
     "create_ftp_parameter_result", "parse_ftp_parameter_result">>,
  <<"GET_SMTP_PARAMETER_ID", "GetSMTPParameter",
     "create_get_smtp_parameter", "parse_get_smtp_parameter">>,
  <<"SMTP_PARAMETER_RESPONSE_ID", "GetSMTPParameterResponse",
     "create_smtp_parameter_response", "parse_smtp_parameter_response">>,
  <<"SET_SMTP_PARAMETER_ID", "SetSMTPParameter",
     "create_set_smtp_parameter", "parse_set_smtp_parameter">>,
  <<"SMTP_PARAMETER_RESULT_ID", "SetSMTPParameterResponse",
     "create_smtp_parameter_result", "parse_smtp_parameter_result">>,
  <<"GET_UPNP_PARAMETER_ID", "GetUPNPParameter",
     "create_get_upnp_parameter", "parse_get_upnp_parameter">>,
  <<"UPNP_PARAMETER_RESPONSE_ID", "GetUPNPParameterResponse",
     "create_upnp_parameter_response", "parse_upnp_parameter_response">>,
  <<"SET_UPNP_PARAMETER_ID", "SetUPNPParameter",
     "create_set_upnp_parameter", "parse_set_upnp_parameter">>,
  <<"UPNP_PARAMETER_RESULT_ID", "SetUPNPParameterResponse",
     "create_upnp_parameter_result", "parse_upnp_parameter_result">> >>

Entries3 == <<
  <<"GET_DEVICE_DISK_INFO_ID", "GetDiskInfo",
     "create_get_device_disk_info", "parse_get_device_disk_info">>,
  <<"DEVICE_DISK_INFO_RESPONSE_ID", "GetDiskInfoResponse",
     "create_device_disk_info_response", "parse_device_disk_info_response">>,
  <<"FORMAT_DISK_REQUEST_ID", "FormatDisk",
     "create_format_disk_request", "parse_format_disk_request">>,
  <<"FORMAT_DISK_RESULT_ID", "FormatDiskResponse",
     "create_format_disk_result", "parse_format_disk_result">>,
  <<"SUBMIT_FORMAT_PROGRESS_ID", "SubmitFormatProgress",
     "create_submit_format_progress", "parse_submit_format_progress">>,
  <<"GET_MOVE_ALARM_INFO_ID", "GetMoveAlarmParameter",
     "create_get_move_alarm_info", "parse_get_move_alarm_info">>,
  <<"MOVE_ALARM_INFO_RESPONSE_ID", "GetMoveAlarmParameterResponse",
     "create_move_alarm_info_response", "parse_move_alarm_info_response">>,
  <<"SET_MOVE_ALARM_INFO_ID", "SetMoveAlarmParameter",
     "create_set_move_alarm_info", "parse_set_move_alarm_info">>,
  <<"MOVE_ALARM_INFO_RESULT_ID", "SetMoveAlarmParameterResponse",
     "create_move_alarm_info_result", "parse_move_alarm_info_result">>,
  <<"GET_LOST_ALARM_INFO_ID", "GetVideoLostAlarmParameter",
     "create_get_lost_alarm_info", "parse_get_lost_alarm_info">>,
  <<"LOST_ALARM_INFO_RESPONSE_ID", "GetVideoLostAlarmParameterResponse",
     "create_lost_alarm_info_response", "parse_lost_alarm_info_response">>,
  <<"SET_LOST_ALARM_INFO_ID", "SetVideoLostAlarmParameter",
     "create_set_lost_alarm_info", "parse_set_lost_alarm_info">>,
  <<"LOST_ALARM_INFO_RESULT_ID", "SetVideoLostAlarmParameterResponse",
     "create_lost_alarm_info_result", "parse_lost_alarm_info_result">>,
  <<"GET_HIDE_ALARM_INFO_ID", "GetHideAlarmParameter",
     "create_get_hide_alarm_info", "parse_get_hide_alarm_info">>,
  <<"HIDE_ALARM_INFO_RESPONSE_ID", "GetHideAlarmParameterResponse",
     "create_hide_alarm_info_response", "parse_hide_alarm_info_response">>,
  <<"SET_HIDE_ALARM_INFO_ID", "SetHideAlarmParameter",
     "create_set_hide_alarm_info", "parse_set_hide_alarm_info">>,
  <<"HIDE_ALARM_INFO_RESULT_ID", "SetHideAlarmParameterResponse",
     "create_hide_alarm_info_result", "parse_hide_alarm_info_result">>,
  <<"GET_IO_ALARM_INFO_ID", "GetIoAlarmParameter",
     "create_get_io_alarm_info", "parse_get_io_alarm_info">>,
  <<"IO_ALARM_INFO_RESPONSE_ID", "GetIoAlarmParameterResponse",
     "create_io_alarm_info_response", "parse_io_alarm_info_response">>,
  <<"SET_IO_ALARM_INFO_ID", "SetIoAlarmParameter",
     "create_set_io_alarm_info", "parse_set_io_alarm_info">>,
  <<"IO_ALARM_INFO_RESULT_ID", "SetIoAlarmParameterResponse",
     "create_io_alarm_info_result", "parse_io_alarm_info_result">>,
  <<"GET_JOINT_ACTION_INFO_ID", "GetJointParameter",
     "create_get_joint_action_info", "parse_get_joint_action_info">>,
  <<"JOINT_ACTION_INFO_RESPONSE_ID", "GetJointParameterResponse",
     "create_joint_action_info_response", "parse_joint_action_info_response">>,
  <<"SET_JOINT_ACTION_INFO_ID", "SetJointParameter",
     "create_set_joint_action_info", "parse_set_joint_action_info">>,
  <<"JOINT_ACTION_INFO_RESULT_ID", "SetJointParameterResponse",
     "create_joint_action_info_result", "parse_joint_action_info_result">>,
  <<"CONTROL_PTZ_COMMAND_ID", "ControlPTZCmd",
     "create_control_ptz_cmd", "parse_control_ptz_cmd">>,
  <<"PTZ_COMMAND_RESULT_ID", "ControlPTZCmdResponse",
     "create_ptz_cmd_result", "parse_ptz_cmd_result">>,
  <<"SUBMIT_ALARM_REQUEST_ID", "SubmitAlarm",
     "create_submit_alarm_request", "parse_submit_alarm_request">>,
  <<"GET_MEDIA_URL_REQUEST_ID", "GetMediaURL",
     "create_get_media_url_request", "parse_get_media_url_request">>,
  <<"GET_MEDIA_URL_RESPONSE_ID", "GetMediaURLResponse",
     "create_get_media_url_response", "parse_get_media_url_response">>,
  <<"GET_STORE_LOG_REQUEST_ID", "GetStoreLog",
     "create_get_store_log_request", "parse_get_store_log_request">>,
  <<"GET_STORE_LOG_RESPONSE_ID", "GetStoreLogResponse",
     "create_get_store_log_response", "parse_get_store_log_response">>,
  <<"USER_LONGI_REQUEST_ID", "UserLogin",
     "create_user_login_request", "parse_user_login_request">>,
  <<"USER_LONGI_RESULT_ID", "UserLoginResponse",
     "create_user_login_result", "parse_user_login_result">>,
  <<"USER_HEART_REQUEST_ID", "UserHeart",
     "create_user_heart_request", "parse_user_heart_request">>,
  <<"USER_HEART_RESPONSE_ID", "UserHeartResponse",
     "create_user_heart_response", "parse_user_heart_response">> >>

Entries4 == <<
  <<"FIRMWARE_UPGRADE_REQUEST_ID", "FirmwareUpgrade",
     "create_firmware_upgrade_request", "parse_firmware_upgrade_request">>,
  <<"FIRMWARE_UPGRADE_RESPONSE_ID", "FirmwareUpgradeResponse",
     "create_firmware_upgrade_response", "parse_firmware_upgrade_response">>,
  <<"SUBMIT_UPGRADE_PROGRESS_ID", "SubmitFirmwareUpgradeProgress",
     "create_submit_upgrade_progress", "parse_submit_upgrade_progress">>,
  <<"ADD_USER_REQUEST_ID", "AddUser",
     "create_add_user_request", "parse_add_user_request">>,
  <<"ADD_USER_RESULT_ID", "AddUserResponse",
     "create_add_user_result", "parse_add_user_result">>,
  <<"DEL_USER_REQUEST_ID", "DelUser",
     "create_del_user_request", "parse_del_user_request">>,
  <<"DEL_USER_RESULT_ID", "DelUserResponse",
     "create_del_user_result", "parse_del_user_result">>,
  <<"USER_LIST_INFO_ID", "UserListInfo",
     "create_user_list_info", "parse_user_list_info">>,
  <<"DEVICE_LIST_INFO_ID", "DeviceListInfo",
     "create_device_list_info", "parse_device_list_info">>,
  <<"FACTORY_LIST_INFO_ID", "FactoryListInfo",
     "create_factory_list_info", "parse_factory_list_info">>,
  <<"GET_FACTORY_REQUEST_ID", "GetFactoryInfo",
     NULL, "parse_get_factory_info_request">>,
  <<"GET_FACTORY_RESPONSE_ID", "GetFactoryInfoResponse",
     "create_get_factory_info_response", "parse_get_factory_info_response">>,
  <<"FUZZY_FIND_USER_REQUEST_ID", "FuzzyFindUser",
     "create_fuzzy_find_user_request", "parse_fuzzy_find_user_request">>,
  <<"FUZZY_FIND_USER_RESULT_ID", "FuzzyFindUserResponse",
     "create_fuzzy_find_user_result", "parse_fuzzy_find_user_result">>,
  <<"MODIFY_PASSWORD_REQUEST_ID", "ModifyPassword",
     "create_modify_password_request", "parse_modify_password_request">>,
  <<"MODIFY_PASSWORD_RESULT_ID", "ModifyPasswordResponse",
     "create_modify_password_result", "parse_modify_password_result">>,
  <<"ADD_DEVICE_REQUEST_ID", "AddProxyDevice",
     "create_add_device_request", "parse_add_device_request">>,
  <<"ADD_DEVICE_RESULT_ID", "AddProxyDeviceResponse",
     "create_add_device_result", "parse_add_device_result">>,
  <<"DEL_DEVICE_REQUEST_ID", "DelProxyDevice",
     "create_del_device_request", "parse_del_device_request">>,
  <<"DEL_DEVICE_RESULT_ID", "DelProxyDeviceResponse",
     "create_del_device_result", "parse_del_device_result">>,
  <<"GET_DEVICE_INFO_REQUEST_ID", "GetProxyDeviceInfo",
     "create_get_device_info_request", "parse_get_device_info_request">>,
  <<"GET_DEVICE_INFO_RESULT_ID", "GetProxyDeviceInfoResponse",
     "create_get_device_info_result", "parse_get_device_info_result">>,
  <<"SET_DEVICE_INFO_REQUEST_ID", "SetProxyDeviceInfo",
     "create_set_device_info_request", "parse_set_device_info_request">>,
  <<"SET_DEVICE_INFO_RESULT_ID", "SetProxyDeviceInfoResponse",
     "create_set_device_info_result", "parse_set_device_info_result">>,
  <<"GET_ALL_DEVICE_ID_REQUEST_ID", "GetAllDeviceId",
     "create_get_all_device_id_request", "parse_get_all_device_id_request">>,
  <<"GET_ALL_DEVICE_ID_RESULT_ID", "GetAllDeviceIdResponse",
     "create_get_all_device_id_result", "parse_get_all_device_id_result">>,
  <<"GET_USER_INFO_REQUEST_ID", "GetUserInfo",
     NULL, "parse_proxy_page_user_request">>,
  <<"GET_USER_INFO_RESPONSE_ID", "GetUserInfoResponse",
     "create_proxy_page_user_response", NULL>>,
  <<"BROADCAST_ADD_USER_ID", "BroadcastAddUser",
     "create_broadcast_add_user", NULL>>,
  <<"BROADCAST_DEL_USER_ID", "BroadcastDelUser",
     "create_broadcast_del_user", NULL>>,
  <<"BROADCAST_ADD_DEVICE_ID", "BroadcastAddDevice",
     "create_broadcast_add_device", NULL>>,
  <<"BROADCAST_DEL_DEVICE_ID", "BroadcastDelDevice",
     "create_broadcast_del_device", NULL>>,
  <<"BROADCAST_MODIFY_DEVICE_ID", "BroadcastModifyDevice",
     "create_broadcast_modify_device", NULL>>,
  <<"BROADCAST_DEVICE_STATUS_ID", "BroadcastDeviceStatus",
     "create_broadcast_device_status", NULL>> >>

Entries5 == <<
  <<"GET_SERVER_CONFIG_REQUEST_ID", "GetServerConfig",
     "create_get_server_config_request", "parse_get_server_config_request">>,
  <<"GET_SERVER_CONFIG_RESPONSE_ID", "GetServerConfigResponse",
     "create_get_server_config_response", "parse_get_server_config_response">>,
  <<"SET_SERVER_CONFIG_REQUEST_ID", "SetServerConfig",
     "create_set_server_config_request", "parse_set_server_config_request">>,
  <<"SET_SERVER_CONFIG_RESULT_ID", "SetServerConfigResponse",
     "create_set_server_config_result", "parse_set_server_config_result">>,
  <<"DOWNLOAD_DATA_REQUEST_ID", "DownloadData",
     "create_download_request", "parse_download_request">>,
  <<"DOWNLOAD_DATA_RESPONSE_ID", "DownloadDataResponse",
     "create_download_response", "parse_download_response">>,
  <<"UPLOAD_DATA_REQUEST_ID", "UploadData",
     "create_upload_request", "parse_upload_request">>,
  <<"UPLOAD_DATA_RESPONSE_ID", "UploadDataResponse",
     "create_upload_response", "parse_upload_response">>,
  <<"LIMIT_BROADCASE_STATUE_ID", "LimitBroadcastDeviceStatus",
     NULL, "parse_limit_broadcast_status">>,
  <<"GET_CHANNEL_INFO_REQUEST_ID", "GetChannelInfo",
     "create_get_channel_info_request", "parse_get_channel_info_request">>,
  <<"GET_CHANNEL_INFO_RESPONSE_ID", "GetChannelInfoResponse",
     "create_get_channel_info_response", "parse_get_channel_info_response">>,
  <<"SET_CHANNEL_INFO_REQUEST_ID", "SetChannelInfo",
     "create_set_channel_info_request", "parse_set_channel_info_request">>,
  <<"SET_CHANNEL_INFO_RESULT_ID", "SetChannelInfoResponse",
     "create_set_channel_info_result", "parse_set_channel_info_result">>,
  <<"GET_PICTURE_INFO_REQUEST_ID", "GetPictureInfo",
     "create_get_picture_info_request", "parse_get_picture_info_request">>,
  <<"GET_PICTURE_INFO_RESPONSE_ID", "GetPictureInfoResponse",
     "create_get_picture_info_response", "parse_get_picture_info_response">>,
  <<"SET_PICTURE_INFO_REQUEST_ID", "SetPictureInfo",
     "create_set_picture_info_request", "parse_set_picture_info_request">>,
  <<"SET_PICTURE_INFO_RESULT_ID", "SetPictureInfoResponse",
     "create_set_picture_info_result", "parse_set_picture_info_result">>,
  <<"GET_WIFI_CONFIG_REQUEST_ID", "GetWifiConfig",
     "create_get_wifi_config_request", "parse_get_wifi_config_request">>,
  <<"GET_WIFI_CONFIG_RESPONSE_ID", "GetWifiConfigResponse",
     "create_get_wifi_config_response", "parse_get_wifi_config_response">>,
  <<"SET_WIFI_CONFIG_REQUEST_ID", "SetWifiConfig",
     "create_set_wifi_config_request", "parse_set_wifi_config_request">>,
  <<"SET_WIFI_CONFIG_RESULT_ID", "SetWifiConfigResponse",
     "create_set_wifi_config_result", "parse_set_wifi_config_result">>,
  <<"WIFI_SEARCH_REQUEST_ID", "WifiSearch",
     "create_wifi_search_request", "parse_wifi_search_request">>,
  <<"WIFI_SEARCH_RESPONSE_ID", "WifiSearchResponse",
     "create_wifi_search_response", "parse_wifi_search_response">>,
  <<"GET_NETWORK_STATUS_REQUEST_ID", "GetNetworkStatus",
     "create_get_network_status_request", "parse_get_network_status_request">>,
  <<"GET_NETWORK_STATUS_RESPONSE_ID", "GetNetworkStatusResponse",
     "create_get_network_status_response", "parse_get_network_status_response">>,
  <<"CONTROL_DEVICE_REQUEST_ID", "ControlDevice",
     "create_control_device_request", "parse_control_device_request">>,
  <<"CONTROL_DEVICE_RESULT_ID", "ControlDeviceResponse",
     "create_control_device_result", "parse_control_device_result">>,
  <<"GET_DDNS_CONFIG_REQUEST_ID", "GetDdnsConfig",
     "create_get_ddns_config_request", "parse_get_ddns_config_request">>,
  <<"GET_DDNS_CONFIG_RESPONSE_ID", "GetDdnsConfigResponse",
     "create_get_ddns_config_response", "parse_get_ddns_config_response">>,
  <<"SET_DDNS_CONFIG_REQUEST_ID", "SetDdnsConfig",
     "create_set_ddns_config_request", "parse_set_ddns_config_request">>,
  <<"SET_DDNS_CONFIG_RESULT_ID", "SetDdnsConfigResponse",
     "create_set_ddns_config_result", "parse_set_ddns_config_result">>,
  <<"GET_DEF_DISPLAY_INFO_REQUEST_ID", "GetDefDisplayParameter",
     "create_get_def_display_info_requst", "parse_get_def_display_info_request">> >>

Entries6 == <<
  <<"GET_DEF_DISPLAY_INFO_RESPONSE_ID", "GetDefDisplayParameterResponse",
     "create_get_def_display_info_response", "parse_get_def_display_info_response">>,
  <<"GET_DEF_PICTURE_INFO_REQUEST_ID", "GetDefPictureInfo",
     "create_get_def_picture_info_request", "parse_get_def_picture_info_request">>,
  <<"GET_DEF_PICTURE_INFO_RESPONSE_ID", "GetDefPictureInfoResponse",
     "create_get_def_picture_info_response", "parse_get_def_picture_info_response">>,
  <<"GET_AVD_CONFIG_REQUEST_ID", "GetAvdConfig",
     "create_get_avd_config_request", "parse_get_avd_config_request">>,
  <<"GET_AVD_CONFIG_RESPONSE_ID", "GetAvdConfigResponse",
     "create_get_avd_config_response", "parse_get_avd_config_response">>,
  <<"SET_AVD_CONFIG_REQUEST_ID", "SetAvdConfig",
     "create_set_avd_config_request", "parse_set_avd_config_request">>,
  <<"SET_AVD_CONFIG_RESULT_ID", "SetAvdConfigResponse",
     "create_set_avd_config_result", "parse_set_avd_config_result">>,
  <<"GET_TRANSPARENTPARAM_REQUEST_ID", "GetTransparentParam",
     "create_get_transparent_param_request", "parse_get_transparent_param_request">>,
  <<"GET_TRANSPARENTPARAM_RESPONSE_ID", "GetTransparentParamResponse",
     "create_get_transparent_param_response", "parse_get_transparent_param_response">>,
  <<"SET_TRANSPARENTPARAM_REQUEST_ID", "SetTransparentParam",
     "create_set_transparent_param_request", "parse_set_transparent_param_request">>,
  <<"SET_TRANSPARENTPARAM_RESPONSE_ID", "SetTransparentParamResponse",
     "create_set_transparent_param_response", "parse_set_transparent_param_response">>,
  <<"TRANSPARENTPARAM_NOTIFYEVENT_ID", "NotifyEvent",
     "create_transparent_notify_enevt", "parse_transparent_notify_enevt">>,
  <<"TRANSPARENTPARAM_CONTROLDEVICE_ID", "ControlDevice",
     "create_transparent_control_device", "parse_transparent_control_device">>,
  <<"QUERY_DIVISION_MODE_REQUEST_ID", "QueryDivisionMode",
     "create_query_division_mode_request", "parse_query_division_mode_request">>,
  <<"QUERY_DIVISION_MODE_RESPONSE_ID", "QueryDivisionModeResponse",
     "create_query_division_mode_response", "parse_query_division_mode_response">>,
  <<"GET_SCREEN_STATE_REQUEST_ID", "GetScreenState",
     "create_get_screen_state_request", "parse_get_screen_state_request">>,
  <<"GET_SCREEN_STATE_RESPONSE_ID", "GetScreenStateResponse",
     "create_get_screen_state_response", "parse_get_screen_state_response">>,
  <<"SET_DIVISION_MODE_REQUEST_ID", "ChangeDivisionMode",
     "create_set_division_mode_request", "parse_set_division_mode_request">>,
  <<"SET_DIVISION_MODE_RESULT_ID", "ChangeDivisionModeResponse",
     "create_set_division_mode_response", "parse_set_division_mode_response">>,
  <<"SET_FULL_SCREEN_REQUEST_ID", "FullScreen",
     "create_set_full_screen_request", "parse_set_full_screen_request">>,
  <<"SET_FULL_SCREEN_RESULT_ID", "FullScreenResponse",
     "create_set_full_screen_response", "parse_set_full_screen_response">>,
  <<"EXIT_FULL_SCREEN_REQUEST_ID", "ExitFullScreen",
     "create_exit_full_screen_request", "parse_exit_full_screen_request">>,
  <<"EXIT_FULL_SCREEN_RESULT_ID", "ExitFullScreenResponse",
     "create_exit_full_screen_response", "parse_exit_full_screen_response">>,
  <<"TV_WALL_PLAY_REQUEST_ID", "TwPlay",
     "create_tv_wall_play_request", "parse_tv_wall_play_request">>,
  <<"TV_WALL_PLAY_RESULT_ID", "TwPlayResponse",
     "create_tv_wall_play_response", "parse_tv_wall_play_response">>,
  <<"CLEAR_DIVISION_REQUEST_ID", "ClearDivision",
     "create_clear_division_request", "parse_clear_division_request">>,
  <<"CLEAR_DIVISION_RESULT_ID", "ClearDivisionResponse",
     "create_clear_division_response", "parse_clear_division_response">>,
  <<"GET_OPERATION_LOG_REQUEST_ID", "GetOperationLog",
     "create_get_operation_log_request", "parse_get_operation_log_request">>,
  <<"GET_OPERATION_LOG_RESPONSE_ID", "GetOperationLogResponse",
     "create_get_operation_log_response", "parse_get_operation_log_response">>,
  <<"SET_ALARM_UPLOAD_CONFIG_REQUEST_ID", "SetAlarmUploadConfig",
     "create_set_alarm_upload_config_request", "parse_set_alarm_upload_config_request">>,
  <<"SET_ALARM_UPLOAD_CONFIG_RESULT_ID", "SetAlarmUploadConfigResponse",
     "create_set_alarm_upload_config_response", "parse_set_alarm_upload_config_response">> >>

Entries7 == <<
  <<"GET_PRESET_POINT_SET_REQUEST_ID", "GetPresetPointSet",
     "create_get_preset_point_set_request", "parse_get_preset_point_set_request">>,
  <<"GET_PRESET_POINT_SET_RESPONSE_ID", "GetPresetPointSetResponse",
     "create_get_preset_point_set_response", "parse_get_preset_point_set_response">>,
  <<"SET_PRESET_POINT_REQUEST_ID", "SetPresetPoint",
     "create_set_preset_point_request", "parse_set_preset_point_request">>,
  <<"SET_PRESET_POINT_RESULT_ID", "SetPresetPointResponse",
     "create_set_preset_point_result", "parse_set_preset_point_result">>,
  <<"GET_CRUISE_WAY_SET_REQUEST_ID", "GetCruiseWaySet",
     "create_get_cruise_way_set_request", "parse_get_cruise_way_set_request">>,
  <<"GET_CRUISE_WAY_SET_RESPONSE_ID", "GetCruiseWaySetResponse",
     "create_get_cruise_way_set_response", "parse_get_cruise_way_set_response">>,
  <<"SET_CRUISE_WAY_REQUEST_ID", "SetCruiseWay",
     "create_set_cruise_way_request", "parse_set_cruise_way_request">>,
  <<"SET_CRUISE_WAY_RESULT_ID", "SetCruiseWayResponse",
     "create_set_cruise_way_result", "parse_set_cruise_way_result">>,
  <<"GET_CRUISE_WAY_REQUEST_ID", "GetCruiseWay",
     "create_get_cruise_way_request", "parse_get_cruise_way_request">>,
  <<"GET_CRUISE_WAY_RESPONSE_ID", "GetCruiseWayResponse",
     "create_get_cruise_way_response", "parse_get_cruise_way_response">>,
  <<"ADD_CRUISE_WAY_REQUEST_ID", "AddCruiseWay",
     "create_add_cruise_way_request", "parse_add_cruise_way_request">>,
  <<"ADD_CRUISE_WAY_RESULT_ID", "AddCruiseWayResponse",
     "create_add_cruise_way_result", "parse_add_cruise_way_result">>,
  <<"MODIFY_CRUISE_WAY_REQUEST_ID", "ModifyCruiseWay",
     "create_modify_cruise_way_request", "parse_modify_cruise_way_request">>,
  <<"MODIFY_CRUISE_WAY_RESULT_ID", "ModifyCruiseWayResponse",
     "create_modify_cruise_way_result", "parse_modify_cruise_way_result">>,
  <<"_3D_CONTROL_REQUEST_ID", "3DControl",
     "create_3d_control_request", "parse_3d_control_request">>,
  <<"_3D_CONTROL_RESULT_ID", "3DControlResponse",
     "create_3d_control_result", "parse_3d_control_result">>,
  <<"_3D_GOBACK_REQUEST_ID", "3DGoback",
     "create_3d_goback_request", "parse_3d_goback_request">>,
  <<"_3D_GOBACK_RESULT_ID", "3DGobackResponse",
     "create_3d_goback_result", "parse_3d_goback_result">>,
  <<"ALARM_LINK_IO_REQUEST_ID", "AlarmLinkIO",
     "create_alarm_link_io_request", "parse_alarm_link_io_request">>,
  <<"ALARM_LINK_IO_RESULT_ID", "AlarmLinkIOResponse",
     "create_alarm_link_io_result", "parse_alarm_link_io_result">>,
  <<"ALARM_LINK_PRESET_REQUEST_ID", "AlarmLinkPreset",
     "create_alarm_link_preset_request", "parse_alarm_link_preset_request">>,
  <<"ALARM_LINK_PRESET_RESULT_ID", "AlarmLinkPresetResponse",
     "create_alarm_link_preset_result", "parse_alarm_link_preset_result">>,
  <<"GET_RESOLUTION_INFO_REQUEST_ID", "GetResolutionInfo",
     "create_get_resolution_info_request", "parse_get_resolution_info_request">>,
  <<"GET_RESOLUTION_INFO_RESPONSE_ID", "GetResolutionInfoResponse",
     "create_get_resolution_info_response", "parse_get_resolution_info_response">>,
  <<"SET_RESOLUTION_INFO_REQUEST_ID", "SetResolutionInfo",
     "create_set_resolution_info_request", "parse_set_resolution_info_request">>,
  <<"SET_RESOLUTION_INFO_RESULT_ID", "SetResolutionInfoResponse",
     "create_set_resolution_info_result", "parse_set_resolution_info_result">>,
  <<"GET_IRCUT_CONTROL_REQUEST_ID", "GetIrcutControlInfo",
     "create_get_ircut_control_info_request", "parse_get_ircut_control_info_request">>,
  <<"GET_IRCUT_CONTROL_RESPONSE_ID", "GetIrcutControlInfoResponse",
     "create_get_ircut_control_info_response", "parse_get_ircut_control_info_response">>,
  <<"SET_IRCUT_CONTROL_REQUEST_ID", "SetIrcutControlInfo",
     "create_set_ircut_control_info_request", "parse_set_ircut_control_info_request">>,
  <<"SET_IRCUT_CONTROL_RESULT_ID", "SetIrcutControlInfoResponse",
     "create_set_ircut_control_info_result", "parse_set_ircut_control_info_result">>,
  <<"GET_EXTRANET_PORT_REQUEST_ID", "CssGetExtranetPort",
     "create_get_extranet_port_request", "parse_get_extranet_port_request">>,
  <<"GET_EXTRANET_PORT_RESPONSE_ID", "CssGetExtranetPortResponse",
     "create_get_extranet_port_response", "parse_get_extranet_port_response">>,
  <<"GET_HERD_ANALYSE_REQUEST_ID", "GetHerdAnalyseParameter",
     "create_get_herd_analyse_info_request", "parse_get_herd_analyse_info_request">> >>

Entries8 == <<
  <<"GET_HERD_ANALYSE_RESPONSE_ID", "GetHerdAnalyseParameterResponse",
     "create_get_herd_analyse_info_response", "parse_get_herd_analyse_info_response">>,
  <<"SET_HERD_ANALYSE_REQUEST_ID", "SetHerdAnalyseParameter",
     "create_set_herd_analyse_info_request", "parse_set_herd_analyse_info_request">>,
  <<"SET_HERD_ANALYSE_RESULT_ID", "SetHerdAnalyseParameterResponse",
     "create_set_herd_analyse_info_result", "parse_set_herd_analyse_info_result">>,
  <<"GET_GRASS_PERCENT_REQUEST_ID", "GetGrassPercentInfo",
     "create_get_grass_percent_request", "parse_get_grass_percent_request">>,
  <<"GET_GRASS_PERCENT_RESPONSE_ID", "GetGrassPercentInfoResponse",
     "create_get_grass_percent_response", "parse_get_grass_percent_response">>,
  <<"GET_P2P_ID_REQUEST_ID", "PuGetP2PId",
     "create_get_p2p_id_request", "parse_get_p2p_id_request">>,
  <<"GET_P2P_ID_RESPONSE_ID", "PuGetP2PIdResponse",
     "create_get_p2p_id_response", "parse_get_p2p_id_response">> >>

\* register_xml_table appends: of two entries with the same number or the same
\* type the first one is found.
entries == Entries1 \o Entries2 \o Entries3 \o Entries4 \o Entries5 \o Entries6 \o Entries7 \o Entries8

Entry(e) == [id |-> e[1], command |-> e[2], func_c |-> e[3], func_p |-> e[4]]
n_entries == Len(entries)
==============================================================================
