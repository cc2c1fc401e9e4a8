------------------------------ MODULE Protocol ------------------------------
(***************************************************************************)
(* The command protocol of src/app/src/command.c and the decoding half of *)
(* mqtt_command_handler in main.c, as operators over abstract messages.   *)
(*                                                                         *)
(* A command key is the topic suffix after "cmd/hsfib-tib/req/", kept as  *)
(* the sequence of its '/'-separated segments, so <<"mems", "yj_ao_fei">> *)
(* is the string "mems/yj_ao_fei".  Lengths are the real string lengths.  *)
(* An inbound MQTT message is a record                                     *)
(*   [key, msgType, payloadFits, rtopic, corr]                             *)
(* where msgType is the msg_type field of the JSON payload (NONE when     *)
(* absent or unparsable), payloadFits says whether the payload is shorter *)
(* than MAX_PAYLOAD_LEN, rtopic is the length of the response-topic       *)
(* property (NONE when absent) and corr the length of the correlation     *)
(* data (0 when absent).  Topics and payload text are abstracted to what  *)
(* the code tests of them.                                                 *)
(***************************************************************************)
EXTENDS Integers, Sequences

CONSTANT NONE

MAX_TOPIC_LEN == 64
MAX_KEY_LEN == 48
MAX_CORRELATION_DATA == 16
MQTT_QOS_1_AT_LEAST_ONCE == 1

\* The length of the key string: segments plus the '/' between them.
KeyLen(key) ==
  LET RECURSIVE L(_)
      L(s) == IF s = <<>> THEN 0 ELSE Len(Head(s)) + L(Tail(s))
  IN IF key = <<>> THEN 0 ELSE L(key) + Len(key) - 1

-----------------------------------------------------------------------------
(* parse_msg_type_from_payload: strncasecmp against "get" and "set".      *)

CaseFold == [v \in {"get", "GET", "Get", "set", "SET", "Set"} |->
              IF v \in {"get", "GET", "Get"} THEN "get" ELSE "set"]

ParseMsgType(t) ==
  IF t \in DOMAIN CaseFold
  THEN IF CaseFold[t] = "get" THEN "GET" ELSE "SET"
  ELSE NONE

\* parse_key_pair(key, name, 15, setting, 15): a '/' must follow a name of
\* 1..14 characters, and the setting up to the next '/' must be 1..14 long.
KeyPairOK(key) ==
  /\ Len(key) >= 2
  /\ Len(key[1]) > 0 /\ Len(key[1]) < 15
  /\ Len(key[2]) > 0 /\ Len(key[2]) < 15

-----------------------------------------------------------------------------
(* Responses: _msg_builder and the four canned error responses.  A        *)
(* Command is [key, verb, rtopic, corr, payloadLen]; the fields a command *)
(* zero-initialised by mqtt_command_handler has not reached yet are 0.    *)

EmptyCommand == [key |-> <<>>, verb |-> "GET", rtopic |-> 0, corr |-> 0, payloadLen |-> 0]

MsgBuilder(cmd, kind, tag) ==
  [kind  |-> kind,
   tag   |-> tag,
   qos   |-> MQTT_QOS_1_AT_LEAST_ONCE,
   topic |-> IF cmd.rtopic > 0 /\ cmd.rtopic < MAX_TOPIC_LEN THEN "reply" ELSE "default",
   corr  |-> IF cmd.corr > 0 /\ cmd.corr < MAX_CORRELATION_DATA THEN cmd.corr ELSE 0]

InvalidCommandResponse(cmd) == MsgBuilder(cmd, "RESP_ERROR", "invalid")
UnknownResponse(cmd) == MsgBuilder(cmd, "RESP_ERROR", "unknown")
UnsupportedResponse(cmd) == MsgBuilder(cmd, "RESP_ERROR", "unsupported")
BusyResponse(cmd) == MsgBuilder(cmd, "RESP_ERROR", "busy")

-----------------------------------------------------------------------------
(* The dispatch table, find_dispatch and dispatch_command.                 *)

DispatchTable ==
  << [key |-> "memsroute", get |-> "memsroute_get", set |-> "memsroute_set"],
     [key |-> "mems",      get |-> "mems_get",      set |-> "mems_set"],
     [key |-> "laser",     get |-> "laser_setting_get", set |-> "laser_setting_set"],
     [key |-> "power",     get |-> "power_get",     set |-> "power_set"],
     [key |-> "atten",     get |-> "atten_setting_get", set |-> "atten_setting_set"],
     [key |-> "status",    get |-> "status_get",    set |-> NONE],
     [key |-> "sleep",     get |-> NONE,            set |-> "sleep_set"] >>

\* strcmp(dispatch_table[i].key, key) == 0 on the whole key, first match.
FindDispatch(key) ==
  LET hits == {i \in DOMAIN DispatchTable : key = <<DispatchTable[i].key>>}
  IN IF hits = {} THEN NONE
     ELSE DispatchTable[CHOOSE i \in hits : \A j \in hits : i <= j]

\* The handlers that take a "<device>/<setting>" key, and those that parse
\* a JSON body from cmd->payload over cmd->payload_len bytes.
KeyPairHandlers == {"mems_get", "mems_set", "laser_setting_get", "laser_setting_set",
                    "atten_setting_get", "atten_setting_set"}
BodyHandlers == {"memsroute_set", "mems_set", "laser_setting_set",
                 "atten_setting_set", "power_set", "sleep_set"}

\* What a handler answers, as far as the protocol layer decides it: the
\* key-pair and JSON-body checks every handler starts with.  A handler
\* that gets past them acts on a device (MemsRouter and later modules);
\* power_set and sleep_set then build their {"status":"OK"} as RESP_ERROR.
HandlerResponse(h, cmd) ==
  IF h \in KeyPairHandlers /\ ~KeyPairOK(cmd.key)
  THEN MsgBuilder(cmd, "RESP_ERROR", "key_parse")
  ELSE IF h \in BodyHandlers /\ cmd.payloadLen = 0
  THEN MsgBuilder(cmd, "RESP_ERROR", "json_parse")
  ELSE IF h \in {"power_set", "sleep_set"}
  THEN MsgBuilder(cmd, "RESP_ERROR", h)
  ELSE MsgBuilder(cmd, "RESP_OK", h)

DispatchCommand(cmd) ==
  LET entry == FindDispatch(cmd.key)
      func == IF entry = NONE THEN NONE
              ELSE IF cmd.verb = "SET" THEN entry.set ELSE entry.get
  IN IF entry = NONE THEN UnknownResponse(cmd)
     ELSE IF func = NONE THEN UnsupportedResponse(cmd)
     ELSE HandlerResponse(func, cmd)

-----------------------------------------------------------------------------
(* The decoding steps of mqtt_command_handler, in the code's order.  The  *)
(* result says what the handler does with the message:                     *)
(*   [do |-> "enqueue", cmd]   try to put cmd on the inbound queue,        *)
(*   [do |-> "respond", resp]  put resp on the outbound queue (no wait),   *)
(*   [do |-> "drop"]           return without any response.               *)
(* cmd.payloadLen stays 0: the handler copies the payload bytes but never *)
(* sets payload_len.                                                       *)

Decode(msg) ==
  LET klen == KeyLen(msg.key)
      verb == ParseMsgType(msg.msgType)
      keyed == [EmptyCommand EXCEPT !.key = msg.key]
  IN IF klen = 0 \/ klen >= MAX_KEY_LEN
     THEN [do |-> "respond", resp |-> InvalidCommandResponse(EmptyCommand)]
     ELSE IF ~msg.payloadFits
     THEN [do |-> "drop"]
     ELSE IF verb = NONE
     THEN [do |-> "respond", resp |-> InvalidCommandResponse(keyed)]
     ELSE IF msg.rtopic = NONE \/ msg.rtopic >= MAX_TOPIC_LEN
     THEN [do |-> "respond", resp |-> InvalidCommandResponse([keyed EXCEPT !.verb = verb])]
     ELSE [do |-> "enqueue",
           cmd |-> [key |-> msg.key, verb |-> verb, rtopic |-> msg.rtopic,
                    corr |-> IF msg.corr > 0 /\ msg.corr < MAX_CORRELATION_DATA
                             THEN msg.corr ELSE 0,
                    payloadLen |-> 0]]

=============================================================================
