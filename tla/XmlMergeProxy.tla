---------------------------- MODULE XmlMergeProxy ----------------------------
(*****************************************************************************)
(* What the merge functions of hmxml write of media addresses, store logs,   *)
(* users, proxied devices and transfers (xml-merge.c). A function takes the  *)
(* packet of a message, and the type of the message when several share it,   *)
(* and gives the elements of the message: what they are called, which field  *)
(* each one carries and whether it is written as a number, a string or a     *)
(* date.                                                                     *)
(*****************************************************************************)
EXTENDS XmlMergeDevice

merge_control_ptz_xml(p, command) ==
  Message(command,
    Nums(p, [resultCode |-> "result.code", direction |-> "action", param |-> "param"])
    \cup Strs(p, [sessionId |-> "session_id", domainId |-> "domain_id", guId |-> "gu_id"]))

merge_submit_alarm_request_xml(p) ==
  Message("SubmitAlarm",
    Nums(p, [channel |-> "channel", alarmType |-> "alarm_type",
             actionType |-> "action_type"])
    \cup Strs(p, [puId |-> "pu_id", data |-> "data"])
    \cup Times(p, [alarmTime |-> "alarm_time"]))

merge_media_url_xml(p, command) ==
  Message(command,
    Strs(p, [sessionId |-> "session_id", domainId |-> "domain_id", guId |-> "gu_id"])
    \cup CASE command = "GetMediaURLResponse" ->
                Nums(p, [resultCode |-> "result.code"]) \cup Strs(p, [url |-> "url"])
           [] command = "GetMediaURL" ->
                Nums(p, [media |-> "media_type"]) \cup Strs(p, [cmsIp |-> "ip"])
           [] OTHER -> {})

merge_store_log_info(p, command) ==
  LET recNodes == Rows("recNode", List(p, "store"), LAMBDA r :
                    Nums(r, [recType |-> "rec_type", fileSize |-> "file_size"])
                    \cup Times(r, [begTime |-> "beg_time", endTime |-> "end_time"])
                    \cup Strs(r, [property |-> "property"]))
  IN Message(command,
       Strs(p, [sessionId |-> "session_id", domainId |-> "domain_id", guId |-> "gu_id"])
       \cup Nums(p, [sessId |-> "sess_id"])
       \cup (IF command = "GetStoreLogResponse"
               THEN Nums(p, [resultCode |-> "result.code", logCount |-> "total_count"])
                    \cup {create_attr(Group("recInfo", recNodes), "count",
                                      Value(p, "node_count"))}
               ELSE Nums(p, [recType |-> "rec_type", begNode |-> "beg_node",
                             endNode |-> "end_node"])
                    \cup Times(p, [begTime |-> "beg_time", endTime |-> "end_time"])))

merge_get_store_log_request_xml(p) == merge_store_log_info(p, "GetStoreLog")
merge_get_store_log_response_xml(p) == merge_store_log_info(p, "GetStoreLogResponse")

\* A user without a password has no password element.
merge_user_info_xml(p, command) ==
  Message(command, Strs(p, [userName |-> "username"])
                   \cup (IF Value(p, "password") = Zero THEN {}
                         ELSE Strs(p, [password |-> "password"])))

\* The packet is the number alone.
merge_result_info_xml(p, command) == Message(command, Nums(p, [resultCode |-> "int"]))

merge_user_login_request_xml(p) == merge_user_info_xml(p, "UserLogin")

\* The number is the time between heartbeats: -1 reports a failure.
merge_user_login_result_xml(p) ==
  LET keep_time == Value(p, "int")
      result == CASE keep_time = "-1" -> "-1" [] keep_time = Zero -> "1" [] OTHER -> Zero
  IN Message("UserLoginResponse",
       {create_child("resultCode", "num", result),
        create_child("keepAliveTime", "num", keep_time)})

merge_user_heart_request_xml(p) == Message("UserHeart", {})

merge_user_heart_response_xml(p) ==
  Message("UserHeartResponse", Times(p, [serverTime |-> "server_time"]))

merge_firmware_upgrade_request_xml(p) ==
  Message("FirmwareUpgrade",
    Nums(p, [dataLen |-> "data_len", fileLen |-> "file_len"])
    \cup Strs(p, [sessionId |-> "session_id", domainId |-> "domain_id",
                  puId |-> "pu_id", addr |-> "addr", data |-> "data"]))

merge_firmware_upgrade_response_xml(p) ==
  Message("FirmwareUpgradeResponse",
    Nums(p, [resultCode |-> "result.code", sessId |-> "sess_id"])
    \cup Strs(p, [sessionId |-> "session_id", domainId |-> "domain_id",
                  puId |-> "pu_id", addr |-> "addr"]))

merge_submit_upgrade_progress_xml(p) ==
  Message("SubmitFirmwareUpgradeProgress",
    Nums(p, [percent |-> "percent"])
    \cup Strs(p, [puId |-> "pu_id"]))

merge_add_user_request_xml(p) == merge_user_info_xml(p, "AddUser")
merge_add_user_result_xml(p) == merge_result_info_xml(p, "AddUserResponse")
merge_del_user_request_xml(p) == merge_user_info_xml(p, "DelUser")
merge_del_user_result_xml(p) == merge_result_info_xml(p, "DelUserResponse")

\* Every user is an element with the name as its tag and the password as its
\* text.  The first one is taken even from an empty list: its name is empty and
\* no element is written.
merge_proxy_user_list_xml(p) ==
  LET users == List(p, "user_info")
  IN Message("UserListInfo",
       {[create_child(Value(users[i], "username"), "str", Value(users[i], "password"))
           EXCEPT !.at = i] : i \in DOMAIN users})

merge_fuzzy_find_user_request_xml(p) == merge_user_info_xml(p, "FuzzyFindUser")

\* Only the names of the users are sent.
merge_fuzzy_find_user_result_xml(p) ==
  Message("FuzzyFindUserResponse",
    Nums(p, [resultCode |-> "result"])
    \cup {create_attr(
            Group("userList",
                  TextRows("userName", "str", List(p, "user_info"), "username")),
            "count", Value(p, "count"))})

merge_modify_password_request_xml(p) ==
  Message("ModifyPassword",
    Strs(p, [userName |-> "username", oldPassword |-> "old_pwd",
             newPassword |-> "new_pwd"]))

merge_modify_password_result_xml(p) == merge_result_info_xml(p, "ModifyPasswordResponse")

\* What every message about a device of the proxy says of it.
ProxyDevice(p) ==
  Nums(p, [machineType |-> "pu_type", protocol |-> "protocol",
           devicePort |-> "device_port", platformPort |-> "platform_port"])
  \cup Strs(p, [puId |-> "pu_id", factoryName |-> "factory",
                sdkVersion |-> "sdk_version", userName |-> "username",
                password |-> "password", deviceIp |-> "device_ip",
                platformIp |-> "platform_ip"])

merge_device_info_xml(p, command) ==
  Message(command,
    ProxyDevice(p)
    \cup (IF command = "AddProxyDevice"
            THEN Nums(p, [deviceId |-> "device_id"]) ELSE {})
    \cup (IF command = "GetProxyDeviceInfoResponse"
            THEN Nums(p, [resultCode |-> "result"]) ELSE {}))

merge_device_id_xml(p, command) == Message(command, Nums(p, [deviceId |-> "int"]))

merge_proxy_device_list_xml(p) ==
  Message("DeviceListInfo", 
    MarkedRows("device", List(p, "device_info"), "id", "device_id", ProxyDevice))

merge_add_device_request_xml(p) == merge_device_info_xml(p, "AddProxyDevice")
merge_add_device_result_xml(p) == merge_result_info_xml(p, "AddProxyDeviceResponse")
merge_del_device_request_xml(p) == merge_device_id_xml(p, "DelProxyDevice")
merge_del_device_result_xml(p) == merge_result_info_xml(p, "DelProxyDeviceResponse")

\* A page without devices is answered with -1 and nothing else.
merge_proxy_page_device_info_xml(p, command) ==
  LET found == List(p, "dev_info") # << >>
      device(d) == ProxyDevice(d) \cup Nums(d, [status |-> "device_st",
                                                errCode |-> "device_err"])
  IN Message(command,
       {create_child("resultCode", "num", IF found THEN Zero ELSE "-1")}
       \cup (IF ~found THEN {}
             ELSE {Group("condition",
                     Strs(p, [factoryName |-> "factory_name", sdkVersion |-> "sdk_version"])
                     \cup Nums(p, [machineType |-> "machine_type", deviceId |-> "dev_id"])),
                   create_attr(
                     Group("deviceList", MarkedRows("device", List(p, "dev_info"),
                                                    "id", "device_id", device)),
                     "count", Value(p, "count"))}
                  \cup Nums(p, [totalCount |-> "total", offset |-> "offset"])))

merge_get_device_info_request_xml(p) == merge_proxy_page_device_info_xml(p, "GetProxyDeviceInfo")
merge_get_device_info_result_xml(p) == merge_proxy_page_device_info_xml(p, "GetProxyDeviceInfoResponse")
merge_set_device_info_request_xml(p) == merge_device_info_xml(p, "SetProxyDeviceInfo")
merge_set_device_info_result_xml(p) == merge_result_info_xml(p, "SetProxyDeviceInfoResponse")
merge_get_all_device_id_request_xml(p) == Message("GetAllDeviceId", {})

\* The answer goes out under the name of the request.
merge_get_all_device_id_result_xml(p) ==
  Message("GetAllDeviceId",
    {create_attr(Group("deviceIdList",
                       TextRows("deviceId", "num", List(p, "device_id"), "device_id")),
                 "count", Value(p, "count"))})

\* The versions of a machine follow it as its next sibling.
merge_proxy_factory_info_xml(p, command) ==
  LET versions(machine) ==
        create_attr(Group("versionList",
                          TextRows("sdkVersion", "str", machine.sdk_version, "version")),
                    "count", Value(machine, "ver_count"))
      machines(f) == TextRows("machineType", "num", f.type, "type")
                     \cup {[versions(f.type[i]) EXCEPT !.at = i] : i \in DOMAIN f.type}
  IN Message(command,
       Rows("factory", List(p, "factory"), LAMBDA f :
         Strs(f, [factoryName |-> "factory_name"])
         \cup {create_attr(Group("machineList", machines(f)), "count",
                           Value(f, "type_count"))}))

merge_proxy_factory_list_xml(p) == merge_proxy_factory_info_xml(p, "FactoryListInfo")

\* Three functions that write nothing and return 0.
merge_get_factory_info_request_xml(p) == NoMessage

merge_set_factory_info_request_xml(p) == NoMessage
merge_get_factory_info_response_xml(p) == merge_proxy_factory_info_xml(p, "GetFactoryInfoResponse")
merge_set_factory_info_response_xml(p) == NoMessage

merge_proxy_page_user_response_xml(p) ==
  LET found == List(p, "user_info") # << >>
  IN Message("GetUserInfoResponse",
       {create_child("resultCode", "num", IF found THEN Zero ELSE "-1")}
       \cup (IF ~found THEN {}
             ELSE Strs(p, [userName |-> "username"])
                  \cup Nums(p, [totalCount |-> "total", offset |-> "offset"])
                  \cup {create_attr(
                          Group("userList", TextRows("userName", "str",
                                                     List(p, "user_info"), "username")),
                          "count", Value(p, "count"))}))

merge_broadcast_user_xml(p, command) == Message(command, Strs(p, [userName |-> "username"]))
merge_broadcast_add_user_xml(p) == merge_broadcast_user_xml(p, "BroadcastAddUser")
merge_broadcast_del_user_xml(p) == merge_broadcast_user_xml(p, "BroadcastDelUser")
merge_broadcast_add_device_xml(p) == merge_device_id_xml(p, "BroadcastAddDevice")
merge_broadcast_del_device_xml(p) == merge_device_id_xml(p, "BroadcastDelDevice")
merge_broadcast_modify_device_xml(p) == merge_device_id_xml(p, "BroadcastModifyDevice")

merge_broadcast_device_status_xml(p) ==
  Message("BroadcastDeviceStatus",
    {create_attr(Group("device", Nums(p, [status |-> "dev_state", errCode |-> "err_code"])),
                 "id", Value(p, "dev_id"))})

\* Only the answer has a result: -1 when a port is not configured.
merge_server_config_xml(p, command) ==
  LET result == IF Zero \in {Value(p, "listen_port"), Value(p, "rtsp_port")}
                  THEN "-1" ELSE Zero
  IN Message(command,
       (IF command = "GetServerConfigResponse"
          THEN {create_child("resultCode", "num", result)} ELSE {})
       \cup {Group("serverConfig",
                   Strs(p, [serverIp |-> "server_ip"])
                   \cup Nums(p, [listenPort |-> "listen_port", rtspPort |-> "rtsp_port"]))})

merge_get_server_config_request_xml(p) == merge_server_config_xml(p, "GetServerConfig")
merge_get_server_config_response_xml(p) == merge_server_config_xml(p, "GetServerConfigResponse")
merge_set_server_config_request_xml(p) == merge_server_config_xml(p, "SetServerConfig")
merge_set_server_config_result_xml(p) == merge_result_info_xml(p, "SetServerConfigResponse")
merge_download_request_xml(p) == Message("DownloadData", {})

\* The details of a transfer follow only a result of 0.
merge_download_response_xml(p) ==
  Message("DownloadDataResponse",
    Nums(p, [resultCode |-> "result"])
    \cup (IF Value(p, "result") # Zero THEN {}
          ELSE Nums(p, [magic |-> "magic", port |-> "port", fileSize |-> "size"])))

merge_upload_request_xml(p) == Message("UploadData", Nums(p, [fileSize |-> "size"]))

merge_upload_response_xml(p) ==
  Message("UploadDataResponse",
    Nums(p, [resultCode |-> "result"])
    \cup (IF Value(p, "result") # Zero THEN {}
          ELSE Nums(p, [magic |-> "magic", port |-> "port"])))
==============================================================================
