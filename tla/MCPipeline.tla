----------------------------- MODULE MCPipeline -----------------------------
(* Pipeline with small queues and message shapes that reach every branch *)
(* of mqtt_command_handler: accepted, answered with an error, dropped.    *)
EXTENDS Pipeline

Msg(key, t, fits, rt, c) ==
  [key |-> key, msgType |-> t, payloadFits |-> fits, rtopic |-> rt, corr |-> c]

\* status get with a response topic and 5 bytes of correlation data; an
\* unparsable msg_type; an oversized payload.
MCMessages ==
  { Msg(<<"status">>, "get", TRUE, 20, 5),
    Msg(<<"power">>, "put", TRUE, 20, 5),
    Msg(<<"status">>, "get", FALSE, 20, 5) }

\* Commands the spec routes to a handler: a sub-keyed mems get, a
\* memsroute set with a body, and a status get carrying the full 16 bytes
\* of correlation data the spec allows.
MCMessagesRouted ==
  { Msg(<<"mems", "yj_cal_laser">>, "get", TRUE, 20, 3),
    Msg(<<"memsroute">>, "SET", TRUE, 20, 0),
    Msg(<<"status">>, "get", TRUE, 20, 16) }

MCIds == 1..2
MCIds3 == 1..3
=============================================================================
