---------------------------- MODULE XmlParseProxy ----------------------------
(*****************************************************************************)
(* What the parse functions of hmxml read of media addresses, store logs,    *)
(* users, proxied devices and transfers (xml-parse.c). A function takes the  *)
(* elements of a message, and the type it must have when several share it,   *)
(* and gives the fields that it fills: which element each one comes from and *)
(* whether its text is read as a number, a string or a date.                 *)
(*****************************************************************************)
EXTENDS XmlParseDevice

parse_media_url_xml(m, command) ==
  Accept(m, command,
    ReadNums(m.kids, [resultCode |-> "result.code", media |-> "media_type"])
    @@ ReadStrs(m.kids, [sessionId |-> "session_id", domainId |-> "domain_id",
                         guId |-> "gu_id", cmsIp |-> "ip", url |-> "url",
                         cuIp |-> "cu_ip"]))

parse_get_media_url_request_xml(m) == parse_media_url_xml(m, "GetMediaURL")
parse_get_media_url_response_xml(m) == parse_media_url_xml(m, "GetMediaURLResponse")

parse_recode_info(kids) ==
  ReadRows(kids, "recNode", LAMBDA node :
    ReadNums(node, [recType |-> "rec_type", fileSize |-> "file_size"])
    @@ ReadTimes(node, [begTime |-> "beg_time", endTime |-> "end_time"])
    @@ ReadStrs(node, [property |-> "property"]))

\* The result of the query is not read; the records are counted by the
\* attribute of their list.
parse_store_log_info(m, command) ==
  Accept(m, command,
    ReadStrs(m.kids, [sessionId |-> "session_id", domainId |-> "domain_id",
                      guId |-> "gu_id"])
    @@ ReadNums(m.kids, [recType |-> "rec_type", begNode |-> "beg_node",
                         endNode |-> "end_node", logCount |-> "total_count",
                         sessId |-> "sess_id"])
    @@ ReadTimes(m.kids, [begTime |-> "beg_time", endTime |-> "end_time"])
    @@ ReadAttr(m.kids, "recInfo", "count", "node_count")
    @@ ("store" :> parse_recode_info(Under(m.kids, "recInfo"))))

parse_get_store_log_request_xml(m) == parse_store_log_info(m, "GetStoreLog")
parse_get_store_log_response_xml(m) == parse_store_log_info(m, "GetStoreLogResponse")

parse_user_info_xml(m, command) ==
  Accept(m, command,
    ReadStrs(m.kids, [userName |-> "username", password |-> "password"]))

parse_result_info_xml(m, command) ==
  Accept(m, command, ReadNums(m.kids, [resultCode |-> "int"]))

parse_user_login_request_xml(m) == parse_user_info_xml(m, "UserLogin")

\* The name of the user is found and not kept.
parse_user_heart_request_xml(m) == Accept(m, "UserHeart", << >>)

parse_user_heart_response_xml(m) ==
  Accept(m, "UserHeartResponse",
    ReadTimes(m.kids, [serverTime |-> "server_time"]))

parse_firmware_upgrade_info_xml(m, command) ==
  Accept(m, command,
    ReadNums(m.kids, [resultCode |-> "result.code", dataLen |-> "data_len",
                      fileLen |-> "file_len", sessId |-> "sess_id"])
    @@ ReadStrs(m.kids, [sessionId |-> "session_id", domainId |-> "domain_id",
                         puId |-> "pu_id", addr |-> "addr", data |-> "data"]))

parse_submit_upgrade_progress_xml(m) ==
  Accept(m, "SubmitFirmwareUpgradeProgress",
    ReadNums(m.kids, [percent |-> "percent"])
    @@ ReadStrs(m.kids, [puId |-> "pu_id"]))

parse_add_user_request_xml(m) == parse_user_info_xml(m, "AddUser")
parse_del_user_request_xml(m) == parse_user_info_xml(m, "DelUser")

\* Whatever the elements are called, each is a user.
parse_proxy_user_list_xml(m) ==
  LET users == SetToSortSeq(m.kids, LAMBDA a, b : a.at < b.at)
  IN Accept(m, "UserListInfo",
       [count     |-> Num(Len(users)),
        user_info |-> [i \in DOMAIN users |->
                         [username |-> users[i].tag, password |-> Contact(users[i]).of]]])

parse_fuzzy_find_user_request_xml(m) == parse_user_info_xml(m, "FuzzyFindUser")

\* An answer without users is returned before its tree is deleted.
parse_fuzzy_find_user_result_xml(m) ==
  LET users == ReadTexts(Under(m.kids, "userList"), "userName", "str", "username")
      read == Accept(m, "FuzzyFindUserResponse",
                ReadNums(m.kids, [resultCode |-> "result"])
                @@ ("user_info" :> users) @@ ("count" :> Num(Len(users))))
  IN IF read.ok /\ users = << >> THEN LeavesTree(read) ELSE read

parse_modify_password_request_xml(m) ==
  Accept(m, "ModifyPassword",
    ReadStrs(m.kids, [userName |-> "username", oldPassword |-> "old_pwd",
                      newPassword |-> "new_pwd"]))

get_proxy_device_info(kids) ==
  ReadNums(kids, [resultCode |-> "result", deviceId |-> "device_id",
                  machineType |-> "pu_type", protocol |-> "protocol",
                  devicePort |-> "device_port", platformPort |-> "platform_port"])
  @@ ReadStrs(kids, [puId |-> "pu_id", factoryName |-> "factory",
                     sdkVersion |-> "sdk_version", userName |-> "username",
                     password |-> "password", deviceIp |-> "device_ip",
                     platformIp |-> "platform_ip"])

parse_proxy_device_info_xml(m, command) ==
  Accept(m, command, get_proxy_device_info(m.kids))

parse_proxy_device_list_xml(m) ==
  LET devices == ReadMarked(m.kids, "device", "id", "device_id", get_proxy_device_info)
  IN Accept(m, "DeviceListInfo",
       [device_info |-> devices, count |-> Num(Len(devices))])

parse_add_device_request_xml(m) == parse_proxy_device_info_xml(m, "AddProxyDevice")

parse_device_id_xml(m, command) ==
  Accept(m, command, ReadNums(m.kids, [deviceId |-> "int"]))

parse_page_device_info_xml(m, command) ==
  Accept(m, command,
    ReadStrs(Under(m.kids, "condition"), [factoryName |-> "factory_name",
                                          sdkVersion |-> "sdk_version"])
    @@ ReadNums(Under(m.kids, "condition"), [machineType |-> "machine_type",
                                             deviceId |-> "dev_id"])
    @@ ReadNums(m.kids, [offset |-> "offset", count |-> "count"]))

parse_get_device_info_request_xml(m) == parse_page_device_info_xml(m, "GetProxyDeviceInfo")
parse_get_all_device_id_request_xml(m) == Accept(m, "GetAllDeviceId", << >>)

\* The identifiers are looked for beside their list, where there are none, and
\* the function returns without deleting its tree.
parse_get_all_device_id_result_xml(m) ==
  LET first == \E n \in m.kids : n.tag = "deviceIdList"
      read == Accept(m, "GetAllDeviceIdResponse", << >>)
  IN IF read.ok /\ first THEN LeavesTree(read) ELSE read

\* All the machines of a list share one place: the last one's type stays, and
\* the versions of all of them follow it.
parse_proxy_factory_info_xml(m, command) ==
  LET machine(kids) ==
        LET types == Found(kids, "machineType")
            versions == ReadTexts(Under(kids, "versionList"), "sdkVersion", "str", "version")
        IN ReadNums(IF types = << >> THEN {} ELSE {types[Len(types)]},
                    [machineType |-> "type"])
           @@ ("sdk_version" :> versions) @@ ("ver_count" :> Num(Len(versions)))
      factory(kids) ==
        LET lists == Found(kids, "machineList")
        IN ReadStrs(kids, [factoryName |-> "factory_name"])
           @@ ("type" :> [i \in DOMAIN lists |-> machine(lists[i].kids)])
           @@ ("type_count" :> Num(Len(lists)))
      factories == ReadRows(m.kids, "factory", factory)
  IN Accept(m, command,
       [factory |-> factories, count |-> Num(Len(factories))])

parse_get_factory_info_request_xml(m) == Accept(m, "GetFactoryInfo", << >>)

\* Two functions that read nothing and return 0.
parse_set_factory_info_request_xml(m) == Accept(m, m.type, << >>)

parse_get_factory_info_response_xml(m) == parse_proxy_factory_info_xml(m, "GetFactoryInfoResponse")
parse_set_factory_info_response_xml(m) == Accept(m, m.type, << >>)

parse_proxy_page_user_request_xml(m) ==
  Accept(m, "GetUserInfo",
    ReadNums(m.kids, [offset |-> "offset", count |-> "count"])
    @@ ReadStrs(m.kids, [userName |-> "username"]))

\* snprintf is given the size of *pvalue, one byte: the name stays empty.
parse_broadcast_add_user_xml(m) == Accept(m, "BroadcastAddUser", << >>)

parse_server_config_xml(m, command) ==
  Accept(m, command,
    ReadStrs(Under(m.kids, "serverConfig"), [serverIp |-> "server_ip"])
    @@ ReadNums(Under(m.kids, "serverConfig"), [listenPort |-> "listen_port",
                                                rtspPort |-> "rtsp_port"]))

parse_get_server_config_request_xml(m) == parse_server_config_xml(m, "GetServerConfig")
parse_get_server_config_response_xml(m) == parse_server_config_xml(m, "GetServerConfigResponse")
parse_set_server_config_request_xml(m) == parse_server_config_xml(m, "SetServerConfig")
parse_set_server_config_result_xml(m) == parse_result_info_xml(m, "SetServerConfigResponse")

parse_backup_xml(m, command) ==
  Accept(m, command,
    ReadNums(m.kids, [resultCode |-> "result", magic |-> "magic", port |-> "port",
                      fileSize |-> "size"]))

parse_download_request_xml(m) == parse_backup_xml(m, "DownloadData")
parse_download_response_xml(m) == parse_backup_xml(m, "DownloadDataResponse")
parse_upload_request_xml(m) == parse_backup_xml(m, "UploadData")
parse_upload_response_xml(m) == parse_backup_xml(m, "UploadDataResponse")

parse_limit_broadcast_status_xml(m) ==
  Accept(m, "LimitBroadcastDeviceStatus",
    ReadNums(m.kids, [startDeviceId |-> "start", endDeviceId |-> "end"]))
==============================================================================
