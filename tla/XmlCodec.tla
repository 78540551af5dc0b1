------------------------------- MODULE XmlCodec -------------------------------
(***************************************************************************)
(* Two programs that talk in the messages of hmxml (hm_xmlmsg.c,           *)
(* hm_xmlhandler.c): the writer fills an object and has it written by the  *)
(* handler of its number, the reader finds the handler by the type of the  *)
(* message and gets an object of its own, which it releases in the end.    *)
(* A message passes through two lookups in one table: by number when it is *)
(* written, by type and then by number when it is read.                    *)
(***************************************************************************)
EXTENDS XmlHandlers, XmlRegistry

VARIABLES ready,    \* the ends that registered the table
          object,   \* what the writer is about to send
          wire,     \* the message in transit, with the object it was made of
          given,    \* what parse_xml returned, with the same
          lost,     \* blocks that the reader allocated and nobody can release
          crashed   \* the number of the message whose handler is NULL

vars == <<ready, object, wire, given, lost, crashed>>

Ends == {"writer", "reader"}
None == [id |-> ""]

\* The first entry of a number, and the number of the first entry of a type.
Numbered(id) ==
  Entry(entries[CHOOSE e \in 1..n_entries :
          entries[e][1] = id /\ \A d \in 1..(e - 1) : entries[d][1] # id])
\* A mutant: the last entry of a type is taken.
get_msg_cmd_type_last(command) ==
  entries[CHOOSE e \in 1..n_entries :
            entries[e][2] = command /\ \A d \in (e + 1)..n_entries : entries[d][2] # command][1]

get_msg_cmd_type(command) ==
  entries[CHOOSE e \in 1..n_entries :
            entries[e][2] = command /\ \A d \in 1..(e - 1) : entries[d][2] # command][1]

Ids == {entries[e][1] : e \in 1..n_entries}

-----------------------------------------------------------------------------
(* The objects: every field holds its own path, so that a value found where *)
(* it does not belong is seen.                                              *)

\* What a variant of an object changes: how many rows its lists have, the
\* number of the first day of a week, and the fields that the codec looks at.
Success == [rows |-> 1, first |-> 0,
            as |-> [f \in {"result.code", "result", "int", "ircut_mode",
                           "scr_state.fs_mode", "rtsp_port"} |-> Zero]]
Failure == [rows |-> MaxRows, first |-> 0,
            as |-> [f \in {"type", "int"} |-> "-1"] @@ ("ircut_mode" :> IRCUT_TIMER)]
OfGroup == [rows |-> MaxRows, first |-> 1,
            as |-> ("pu_or_gu_id" :> GuId) @@ ("result.code" :> Zero)
                   @@ ("ircut_mode" :> IRCUT_RTC)]
Empty   == [rows |-> 0, first |-> 0,
            as |-> [f \in {"username", "password"} |-> Blank]]
LongData == [rows |-> 0, first |-> 0,
             as |-> ("data" :> Long) @@ ("length" :> LongLength)]

\* Only the data of a transparent packet are not limited by an array.
Variants(packet) ==
  {Success, Failure, OfGroup, Empty}
  \cup (IF packet = TransparentPacket THEN {LongData} ELSE {})

RECURSIVE Fill(_, _, _, _)
Fill(packet, path, i, v) ==
  [f \in DOMAIN packet |->
     CASE packet[f].kind = "value" -> IF f \in DOMAIN v.as THEN v.as[f] ELSE path \o f
       [] packet[f].kind = "index" -> Num(IF f = "day_id" THEN i - 1 + v.first ELSE i - 1)
       [] packet[f].kind = "count" -> Num(v.rows)
       [] OTHER -> [j \in 1..v.rows |->
                      Fill(packet[f].row, path \o f \o ToString(j) \o ".", j, v)]]

-----------------------------------------------------------------------------
Init ==
  /\ ready = {}
  /\ object = None
  /\ wire = << >>
  /\ given = << >>
  /\ lost = 0
  /\ crashed = ""

init_jpf_xml_msg(end) ==
  /\ end \notin ready
  /\ ready' = ready \cup {end}
  /\ UNCHANGED <<object, wire, given, lost, crashed>>

\* jpf_xml_msg_new with the structure that the creator expects.  One message
\* at a time: the codec keeps nothing between two of them.
NewObject(id) ==
  /\ object = None /\ wire = << >> /\ given = << >> /\ crashed = ""
  /\ LET func_c == Numbered(id).func_c
         packet == IF func_c = NULL THEN << >> ELSE Create(func_c, << >>).packet
     IN \E v \in Variants(packet) :
          object' = [id |-> id, packet |-> packet, first |-> v.first,
                     fields |-> Fill(packet, "=", 1, v)]
  /\ lost' = 0
  /\ UNCHANGED <<ready, wire, given, crashed>>

\* create_xml and jpf_xml_msg_destroy.  Before the table was registered, or
\* when the buffer is too small, -1 is returned and nothing is sent.
create_xml ==
  /\ object # None
  /\ object' = None
  /\ \/ /\ UNCHANGED <<wire, crashed>>
     \/ /\ "writer" \in ready
        /\ LET func_c == Numbered(object.id).func_c
           IN IF func_c = NULL
                THEN crashed' = object.id /\ UNCHANGED wire
                ELSE /\ wire' = << [message |-> Create(func_c, object.fields).message,
                                    of |-> object] >>
                     /\ UNCHANGED crashed
  /\ UNCHANGED <<ready, given, lost>>

\* parse_xml finds the handler by the type of the message; without a table no
\* type is known (E_COMMAND_INVALID).
parse_xml ==
  /\ wire # << >>
  /\ wire' = << >>
  /\ IF "reader" \notin ready
       THEN UNCHANGED <<given, lost, crashed>>
       ELSE LET message == [wire[1].message EXCEPT !.kids = xml_tree_parse_by_mxml(@)]
                func_p == Numbered(get_msg_cmd_type(message.type)).func_p
            IN IF func_p = NULL
                 THEN crashed' = wire[1].of.id /\ UNCHANGED <<given, lost>>
                 ELSE /\ given' = << [got |-> Parse(func_p, message), of |-> wire[1].of,
                                      message |-> wire[1].message] >>
                      /\ lost' = lost + given'[1].got.lost
                      /\ UNCHANGED crashed
  /\ UNCHANGED <<ready, object>>

\* A mutant: the packet is released without the list that hangs from it.
jpf_xml_msg_destroy_packet ==
  /\ given # << >>
  /\ given' = << >>
  /\ LET got == given[1].got
     IN lost' = lost + (IF got.kept > 2 THEN got.kept - 2 ELSE 0)
  /\ UNCHANGED <<ready, object, wire, crashed>>

\* A list hangs from a block that the destructor releases when the count of
\* its rows is not zero.
jpf_xml_msg_destroy ==
  /\ given # << >>
  /\ given' = << >>
  /\ LET got == given[1].got
     IN lost' = lost + (IF got.kept > 2 /\ Value(got.fields, "count") = Zero
                           /\ got.packet # TransparentPacket
                          THEN got.kept - 2 ELSE 0)
  /\ UNCHANGED <<ready, object, wire, crashed>>

Next ==
  \/ \E end \in Ends : init_jpf_xml_msg(end)
  \/ \E id \in Ids : NewObject(id)
  \/ create_xml
  \/ parse_xml
  \/ jpf_xml_msg_destroy

Spec == Init /\ [][Next]_vars

-----------------------------------------------------------------------------
(* What the table and the handlers get wrong.  The properties say that they *)
(* get nothing else wrong.                                                  *)

\* Written under the type of another message: the table has the type twice, or
\* the creator is that of another number.
Renamed == {"PU_GET_CSS_RESPONSE_ID", "REGISTER_REQUEST_ID", "REGISTER_RESPONSE_ID",
            "GET_ALL_DEVICE_ID_RESULT_ID", "TRANSPARENTPARAM_CONTROLDEVICE_ID"}

\* The parser is that of the answer and refuses the request.
Unread == {"GET_P2P_ID_REQUEST_ID"}

\* An end that has no handler calls NULL.
NoCreator == {"GET_FACTORY_REQUEST_ID", "GET_USER_INFO_REQUEST_ID",
              "LIMIT_BROADCASE_STATUE_ID"}
NoParser == {"GET_USER_INFO_RESPONSE_ID", "BROADCAST_ADD_USER_ID",
             "BROADCAST_DEL_USER_ID", "BROADCAST_ADD_DEVICE_ID",
             "BROADCAST_DEL_DEVICE_ID", "BROADCAST_MODIFY_DEVICE_ID",
             "BROADCAST_DEVICE_STATUS_ID"}

\* The handler allocates one structure and the parser fills another.
Misplaced == {"GET_DEVICE_TIME_ID", "DEVICE_TIME_RESPONSE_ID",
              "GET_HERD_ANALYSE_RESPONSE_ID", "SET_HERD_ANALYSE_REQUEST_ID"}

\* The list that was read is copied with the packet and never released.
Leaky == {"FUZZY_FIND_USER_RESULT_ID", "GET_FACTORY_RESPONSE_ID"}

\* The fields that are sent and do not arrive, or arrive in another row: of an
\* answer the result that says it failed, of a result who it is for, of a
\* request what is asked, of a list its rows.
Ignored(id) ==
  CASE id \in {"SET_DEVICE_TIME_ID", "DEVICE_TIME_RESPONSE_ID", "GET_STORE_LOG_RESPONSE_ID",
               "GET_EXTRANET_PORT_RESPONSE_ID"} -> {"result.code"}
    [] id = "USER_LONGI_RESULT_ID" -> {"int"}
    [] id \in {"GET_TRANSPARENTPARAM_REQUEST_ID", "GET_TRANSPARENTPARAM_RESPONSE_ID",
               "SET_TRANSPARENTPARAM_REQUEST_ID", "TRANSPARENTPARAM_NOTIFYEVENT_ID"} ->
         {"type"}
    [] id \in {"SET_PICTURE_INFO_RESULT_ID", "SET_WIFI_CONFIG_RESULT_ID",
               "CONTROL_DEVICE_RESULT_ID", "SET_DDNS_CONFIG_RESULT_ID",
               "SET_AVD_CONFIG_RESULT_ID"} -> {"session_id", "domain_id", "pu_or_gu_id"}
    [] id = "SET_CHANNEL_INFO_RESULT_ID" ->
         {"session_id", "domain_id", "pu_or_gu_id", "result.code"}
    [] id = "GET_MDS_INFO_RESPONSE_ID" -> {"cms_ip"}
    [] id \in {"NETWORK_INFO_RESPONSE_ID", "SET_NETWORK_INFO_ID"} -> {"auto_dns_enable"}
    [] id = "GET_OPERATION_LOG_REQUEST_ID" ->
         {"opt_log.cond." \o f : f \in DOMAIN JOperationLogCond}
    [] id = "GET_DEVICE_INFO_REQUEST_ID" -> {"total", "dev_info"}
    [] id = "GET_DEVICE_INFO_RESULT_ID" -> DOMAIN prx_page_device
    [] id \in {"FACTORY_LIST_INFO_ID", "GET_FACTORY_RESPONSE_ID"} -> {"factory"}
    [] id = "WIFI_SEARCH_RESPONSE_ID" -> {"wifi_ap"}
    [] id \in {"GET_AVD_CONFIG_RESPONSE_ID", "SET_AVD_CONFIG_REQUEST_ID"} -> {"sched_time"}
    [] id = "QUERY_DIVISION_MODE_RESPONSE_ID" -> {"div_mode.mode"}
    [] id = "GET_SCREEN_STATE_RESPONSE_ID" -> {"scr_state.division"}
    [] OTHER -> {}

\* What the days of a week hold arrives only when they are numbered from 0.
Weeks(packet) == {f \in DOMAIN packet : packet[f].kind = "rows" /\ packet[f].row = JDay}
Dropped(of) == Ignored(of.id) \cup (IF of.first = 0 THEN {} ELSE Weeks(of.packet))

\* The requests whose last field says what they ask about (hm_packet.h:18): a
\* serial port or a cruise way.  The question about the linkage of an alarm does
\* not name the alarm, its writer tests for the serial port twice.
Asking == {"GET_SERIAL_PARAMETER_ID", "GET_CRUISE_WAY_REQUEST_ID"}

-----------------------------------------------------------------------------
\* The values that a message carries.
RECURSIVE Carried(_)
Carried(kids) == UNION {{n.text.of, n.attr.of, n.tag} \cup Carried(n.kids) : n \in kids}

\* A row is there when one of its values is.
RECURSIVE Mentioned(_, _, _)
Mentioned(packet, row, on) ==
  \E f \in DOMAIN packet :
    \/ packet[f].kind = "value" /\ row[f] # Zero /\ row[f] \in on
    \/ packet[f].kind = "rows"
       /\ \E j \in DOMAIN row[f] : Mentioned(packet[f].row, row[f][j], on)

\* The fields of an object that do not arrive as they were sent: a value that
\* was written is read into the same field and no other is; a count is that of
\* the rows that arrived.
RECURSIVE Wrong(_, _, _, _)
Wrong(packet, was, is, on) ==
  {f \in DOMAIN packet :
     CASE packet[f].kind = "rows" ->
            LET sent == {j \in DOMAIN was[f] : Mentioned(packet[f].row, was[f][j], on)}
            IN \/ DOMAIN List(is, f) # sent
               \/ \E j \in sent :
                    Wrong(packet[f].row, was[f][j], List(is, f)[j], on) # {}
       [] packet[f].kind = "count" ->
            Value(is, f) # Num(Len(List(is, packet[f].array)))
       [] packet[f].kind = "index" -> FALSE
       [] OTHER ->
            Value(is, f) # (IF was[f] \in on \ {Blank} THEN was[f] ELSE Zero)}

Delivered == IF given = << >> THEN FALSE ELSE given[1].got.given

\* A parser writes only into the structure that its handler allocated.
OwnStructure ==
  Delivered => \/ DOMAIN given[1].got.fields \subseteq DOMAIN given[1].got.packet
               \/ given[1].of.id \in Misplaced

\* A message is given to its reader under the number it was written with, in a
\* structure that has room for what was read, and no end calls a handler that
\* does not exist.
Dispatched ==
  /\ OwnStructure
  /\ given # << >> =>
       LET id == given[1].of.id  got == given[1].got
       IN /\ got.given <=> id \notin Unread
          /\ got.given => (got.id = id <=> id \notin Renamed)
  /\ crashed \in {""} \cup NoCreator \cup NoParser

\* What was written is read back, every value in the field it came from, and a
\* question is written with what it is about.
RoundTrip ==
  Delivered /\ given[1].of.id \notin Renamed =>
    LET of == given[1].of  got == given[1].got.fields
    IN /\ Wrong(of.packet, of.fields, got, Carried(given[1].message.kids))
            \subseteq Dropped(of)
       /\ of.id \in Asking => Value(got, "reserve") = of.fields["reserve"]

\* The reader releases every block: the message, its packet and its list.
Current == IF wire # << >> THEN wire[1].of ELSE given[1].of
NothingLost == [][lost' > lost => Current.id \in Leaky]_vars
==============================================================================
