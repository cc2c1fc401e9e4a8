------------------------------ MODULE Pipeline ------------------------------
(***************************************************************************)
(* The concurrency and queueing core of src/app/src/main.c, command.c and  *)
(* photodiode.c: four units of execution around three k_msgq queues.       *)
(*                                                                         *)
(*  main thread   connect; loop { feed watchdog; drain outbound_queue to   *)
(*                mqtt_publish; coo_mqtt_process, which runs the ingress   *)
(*                callback mqtt_command_handler }; on error reconnect      *)
(*  executor      k_msgq_get(inbound) -> dispatch_command ->               *)
(*                k_msgq_put(outbound, K_FOREVER)                          *)
(*  photodiode    every 20 ms a sample into photodiode_queue, purging it   *)
(*                when full                                                *)
(*  work item     every 10 ms moves photodiode_queue into outbound_queue,  *)
(*                dropping what does not fit                               *)
(*                                                                         *)
(* main() first arms the watchdog (watchdog_init, which may fail and     *)
(* leave the board without one), then brings up the network and the MQTT *)
(* client; when that returns or blocks for good main() never reaches its *)
(* loop ("stalled"), and only then are the executor thread and the work   *)
(* item started.  A watchdog reset can only come while the main loop does *)
(* not feed it: in coo_mqtt_connect or stalled; it clears all RAM.        *)
(* Every inbound MQTT message is tagged with an id from Ids so that its   *)
(* response can be followed; the ids are bookkeeping, not program data.   *)
(***************************************************************************)
EXTENDS Integers, Sequences, SequencesExt, Protocol

CONSTANTS
  Messages,     \* the MQTT messages the broker may deliver (Protocol records)
  Ids,          \* tags for in-flight messages, a finite set of naturals
  InboundCap,   \* depth of inbound_queue (MAX_PENDING_COMMANDS = 2)
  OutboundCap,  \* depth of outbound_queue (8)
  SampleCap,    \* depth of photodiode_queue (4)
  SampleMod,    \* number of distinct sample values
  MSG_ID_BITS,  \* width of main()'s msg_id (uint16_t: 16)
  WdtCanFail    \* whether watchdog_init can leave the board without a watchdog

ASSUME /\ Ids \subseteq Nat /\ Ids # {}
       /\ \A c \in {InboundCap, OutboundCap, SampleCap, SampleMod} : c \in Nat \ {0}
       /\ MSG_ID_BITS \in Nat \ {0}
       /\ WdtCanFail \in BOOLEAN

VARIABLES
  inbound,      \* inbound_queue: <<[id, cmd]>>
  exec,         \* the executor: NONE when waiting, else the response it puts
                \* and whether it is blocked on a full outbound_queue
  outbound,     \* outbound_queue: <<[src, id, resp]>>
  pdq,          \* photodiode_queue: sample values
  sample,       \* the value of the last sample taken
  main,         \* main(): "init", "stalled", or its loop: "connect",
                \* "drain" or "process"
  wdt,          \* whether watchdog_init armed the watchdog
  link,         \* whether the broker connection is up
  msgId,        \* main()'s static msg_id
  req           \* the message each id was delivered with, NONE once its
                \* answer went out on a live connection (history)

vars == <<inbound, exec, outbound, pdq, sample, main, wdt, link, msgId,
          req>>

-----------------------------------------------------------------------------
\* Mutant: a put that never checks for room.
PutUnbounded(q, cap, x) == Append(q, x)

\* k_msgq_put(q, x, K_NO_WAIT): appended when there is room, else lost.
PutNoWait(q, cap, x) == IF Len(q) < cap THEN Append(q, x) ELSE q

\* The tags of messages delivered and not yet answered; a tag is only
\* used again once its answer went out or a reset forgot it.
Open == {i \in Ids : req[i] # NONE}

\* The outbound_queue entry of the executor's response.
ExecEntry(e) == [src |-> "exec", id |-> e.id, resp |-> e.resp]

MsgIdNext(m) == (m + 1) % (2 ^ MSG_ID_BITS)

\* Whether mqtt_publish hands entry e to the broker: the connection must be
\* up, and a QoS 1 publish needs a non-zero packet identifier (MQTT makes
\* 0 a malformed packet), which msg_id++ gives once it has wrapped.
Delivered(e, id) ==
  link /\ ~(e.resp.qos = MQTT_QOS_1_AT_LEAST_ONCE /\ id = 0)

\* The history after the head entry e was published with identifier id.
Answered(e, id) ==
  IF e.id # NONE /\ Delivered(e, id) THEN [req EXCEPT ![e.id] = NONE] ELSE req

\* watchdog_init: armed when the device is ready and the timeout is
\* installed and set up; on any failure main() goes on without it.
WatchdogInitOutcomes == IF WdtCanFail THEN BOOLEAN ELSE {TRUE}

\* The executor thread and the work item exist once main() has created
\* them, just before its loop.
Running == main \notin {"init", "stalled"}

Boot ==
  /\ inbound = <<>>
  /\ exec = NONE
  /\ outbound = <<>>
  /\ pdq = <<>>
  /\ main = "init"
  /\ wdt = FALSE
  /\ link = FALSE
  /\ msgId = 1

Init ==
  /\ Boot
  /\ sample = 0
  /\ req = [i \in Ids |-> NONE]

-----------------------------------------------------------------------------
(* The main thread.                                                        *)

\* main() up to its loop: watchdog_init, the device set-up, then the
\* network and coo_mqtt_init.  No interface, a failed MQTT init (main()
\* returns) or a network that never comes up (coo_network_wait_ready
\* blocks) leave main() stalled; otherwise it starts the executor thread
\* and the publish work item and enters the loop.
Startup ==
  /\ main = "init"
  /\ wdt' \in WatchdogInitOutcomes
  /\ main' \in {"connect", "stalled"}
  /\ UNCHANGED <<inbound, exec, outbound, pdq, sample, link, msgId, req>>

\* coo_mqtt_connect returns once the broker connection is up; subscribe.
Connect ==
  /\ main = "connect"
  /\ main' = "drain"
  /\ link' = TRUE
  /\ UNCHANGED <<inbound, exec, outbound, pdq, sample, wdt, msgId, req>>

\* Mutant: a get that frees the slot without waking a blocked writer.
PublishNoHandOver ==
  /\ main = "drain"
  /\ outbound # <<>>
  /\ outbound' = Tail(outbound)
  /\ msgId' = MsgIdNext(msgId)
  /\ req' = Answered(Head(outbound), msgId)
  /\ UNCHANGED <<inbound, exec, pdq, sample, main, wdt, link>>

\* One k_msgq_get(outbound, K_NO_WAIT) and mqtt_publish with msg_id++.
\* A failed publish (connection gone, identifier 0) is only logged: the
\* message is gone either way and its requester never hears.  The
\* kernel's get hands the freed slot straight to a writer blocked in
\* k_msgq_put (the executor), before any K_NO_WAIT writer can take it.
Publish ==
  /\ main = "drain"
  /\ outbound # <<>>
  /\ LET handOver == exec # NONE /\ exec.blocked
     IN /\ outbound' = IF handOver THEN Append(Tail(outbound), ExecEntry(exec))
                      ELSE Tail(outbound)
        /\ exec' = IF handOver THEN NONE ELSE exec
        /\ msgId' = MsgIdNext(msgId)
        /\ req' = Answered(Head(outbound), msgId)
  /\ UNCHANGED <<inbound, pdq, sample, main, wdt, link>>

\* The drain loop ends when k_msgq_get finds outbound_queue empty.
DrainDone ==
  /\ main = "drain"
  /\ outbound = <<>>
  /\ main' = "process"
  /\ UNCHANGED <<inbound, exec, outbound, pdq, sample, wdt, link, msgId, req>>

\* coo_mqtt_process returns 0 without a message: back to the loop top.
ProcessIdle ==
  /\ main = "process"
  /\ link
  /\ main' = "drain"
  /\ UNCHANGED <<inbound, exec, outbound, pdq, sample, wdt, link, msgId, req>>

\* coo_mqtt_process fails on a lost connection: break, mqtt_disconnect.
ProcessFail ==
  /\ main = "process"
  /\ ~link
  /\ main' = "connect"
  /\ UNCHANGED <<inbound, exec, outbound, pdq, sample, wdt, link, msgId, req>>

\* coo_mqtt_process delivers message m to mqtt_command_handler.
Receive(m) ==
  /\ main = "process"
  /\ link
  /\ Ids \ Open # {}
  /\ LET id == CHOOSE i \in Ids \ Open : \A j \in Ids \ Open : i <= j
         d == Decode(m)
         busy == BusyResponse(d.cmd)
     IN /\ req' = [req EXCEPT ![id] = m]
        /\ \/ /\ d.do = "enqueue" /\ Len(inbound) < InboundCap
              /\ inbound' = Append(inbound, [id |-> id, cmd |-> d.cmd])
              /\ UNCHANGED outbound
           \/ /\ d.do = "enqueue" /\ Len(inbound) >= InboundCap
              /\ outbound' = PutNoWait(outbound, OutboundCap,
                                       [src |-> "ingress", id |-> id, resp |-> busy])
              /\ UNCHANGED inbound
           \/ /\ d.do = "respond"
              /\ outbound' = PutNoWait(outbound, OutboundCap,
                                       [src |-> "ingress", id |-> id, resp |-> d.resp])
              /\ UNCHANGED inbound
           \/ /\ d.do = "drop"
              /\ UNCHANGED <<inbound, outbound>>
  /\ main' = "drain"
  /\ UNCHANGED <<exec, pdq, sample, wdt, link, msgId>>

\* The broker or the network drops the connection.
LinkLoss ==
  /\ link
  /\ link' = FALSE
  /\ UNCHANGED <<inbound, exec, outbound, pdq, sample, main, wdt, msgId, req>>

\* An armed watchdog expires while main() feeds nothing, blocked in
\* coo_mqtt_connect or stalled before its loop; the SoC resets and every
\* queue and static starts over, and the open requests are forgotten.
WatchdogReset ==
  /\ wdt /\ main \in {"connect", "stalled"}
  /\ inbound' = <<>> /\ exec' = NONE /\ outbound' = <<>> /\ pdq' = <<>>
  /\ main' = "init" /\ wdt' = FALSE /\ link' = FALSE /\ msgId' = 1
  /\ req' = [i \in Ids |-> NONE]
  /\ UNCHANGED sample

-----------------------------------------------------------------------------
(* The executor thread.                                                    *)

\* k_msgq_get(inbound, K_FOREVER) and dispatch_command.
ExecGet ==
  /\ Running
  /\ exec = NONE
  /\ inbound # <<>>
  /\ exec' = [id |-> Head(inbound).id, resp |-> DispatchCommand(Head(inbound).cmd),
               blocked |-> FALSE]
  /\ inbound' = Tail(inbound)
  /\ UNCHANGED <<outbound, pdq, sample, main, wdt, link, msgId, req>>

\* Mutant: the executor puts with K_NO_WAIT and loses a response that
\* does not fit.
ExecPutNoWait ==
  /\ Running
  /\ exec # NONE
  /\ ~exec.blocked
  /\ outbound' = PutNoWait(outbound, OutboundCap, ExecEntry(exec))
  /\ exec' = NONE
  /\ UNCHANGED <<inbound, pdq, sample, main, wdt, link, msgId, req>>

\* k_msgq_put(outbound, K_FOREVER): the response goes in when there is
\* room, else the executor blocks until a get hands it a slot.
ExecPut ==
  /\ Running
  /\ exec # NONE
  /\ ~exec.blocked
  /\ \/ /\ Len(outbound) < OutboundCap
        /\ outbound' = Append(outbound, ExecEntry(exec))
        /\ exec' = NONE
     \/ /\ Len(outbound) = OutboundCap
        /\ exec' = [exec EXCEPT !.blocked = TRUE]
        /\ UNCHANGED outbound
  /\ UNCHANGED <<inbound, pdq, sample, main, wdt, link, msgId, req>>

-----------------------------------------------------------------------------
(* The photodiode thread and the publish work item.                        *)

\* Mutant: a full photodiode_queue keeps its old samples and loses the
\* new one.
SampleDropNewest ==
  /\ sample' = (sample + 1) % SampleMod
  /\ pdq' = IF Len(pdq) < SampleCap THEN Append(pdq, sample') ELSE pdq
  /\ UNCHANGED <<inbound, exec, outbound, main, wdt, link, msgId, req>>

\* One loop of photodiode_thread: while the put fails, purge and retry.
Sample ==
  /\ sample' = (sample + 1) % SampleMod
  /\ pdq' = IF Len(pdq) < SampleCap THEN Append(pdq, sample') ELSE <<sample'>>
  /\ UNCHANGED <<inbound, exec, outbound, main, wdt, link, msgId, req>>

\* One iteration of photodiode_publish_handler's loop.
PdForward ==
  /\ Running
  /\ pdq # <<>>
  /\ pdq' = Tail(pdq)
  /\ outbound' = PutNoWait(outbound, OutboundCap,
                   [src |-> "pd", id |-> NONE,
                    resp |-> [kind |-> "sample", tag |-> "photodiode", qos |-> 0,
                              topic |-> "data", corr |-> 0]])
  /\ UNCHANGED <<inbound, exec, sample, main, wdt, link, msgId, req>>

-----------------------------------------------------------------------------
Next ==
  \/ Startup \/ Connect \/ Publish \/ DrainDone \/ ProcessIdle \/ ProcessFail
  \/ \E m \in Messages : Receive(m)
  \/ LinkLoss \/ WatchdogReset
  \/ ExecGet \/ ExecPut
  \/ Sample \/ PdForward

\* The executor, the work item and the photodiode thread are scheduled
\* whenever they are ready; main() leaves coo_mqtt_process on its poll
\* timeout; the watchdog fires once main() stops feeding it.  The broker,
\* the network and coo_mqtt_connect get no fairness.
Fairness ==
  /\ WF_vars(Startup)
  /\ WF_vars(ExecGet) /\ WF_vars(ExecPut)
  /\ WF_vars(Publish) /\ WF_vars(DrainDone)
  /\ WF_vars(ProcessIdle \/ ProcessFail)
  /\ WF_vars(WatchdogReset)
  /\ WF_vars(Sample) /\ WF_vars(PdForward)

Spec == Init /\ [][Next]_vars
FairSpec == Spec /\ Fairness

-----------------------------------------------------------------------------
(* Properties.                                                             *)

Tags == {"invalid", "unknown", "unsupported", "busy", "key_parse", "json_parse"}
        \cup {DispatchTable[i].get : i \in DOMAIN DispatchTable}
        \cup {DispatchTable[i].set : i \in DOMAIN DispatchTable}
        \cup {"photodiode"}
\* struct OutMsg: its msg_type (or a sample), the branch that built it,
\* qos, topic and the echoed correlation length.
Resp == [kind : {"RESP_OK", "RESP_ERROR", "sample"}, tag : Tags,
         qos : {0, 1}, topic : {"reply", "default", "data"}, corr : Nat]

\* struct Command as the model keeps it: the key's segments, the verb,
\* the response topic and correlation data lengths, payload_len.
Command == [key : Seq(STRING), verb : {"GET", "SET"}, rtopic : Nat, corr : Nat,
            payloadLen : Nat]

TypeOK ==
  /\ inbound \in Seq([id : Ids, cmd : Command])
  /\ Len(inbound) <= InboundCap
  /\ exec \in {NONE} \cup [id : Ids, resp : Resp, blocked : BOOLEAN]
  /\ outbound \in Seq([src : {"exec", "ingress", "pd"}, id : Ids \cup {NONE}, resp : Resp])
  /\ Len(outbound) <= OutboundCap
  /\ pdq \in Seq(0..SampleMod-1) /\ Len(pdq) <= SampleCap
  /\ main \in {"init", "stalled", "connect", "drain", "process"}
  /\ wdt \in BOOLEAN
  /\ link \in BOOLEAN
  /\ msgId \in 0..(2 ^ MSG_ID_BITS - 1)

ExecutorIds == IF exec = NONE THEN <<>> ELSE <<exec.id>>
QueuedResponseIds ==
  LET r == SelectSeq(outbound, LAMBDA m : m.src = "exec") IN [k \in DOMAIN r |-> r[k].id]
InboundIds == [k \in DOMAIN inbound |-> inbound[k].id]

\* The refinement mapping: the line of accepted, unanswered requests is
\* the executor's responses waiting in outbound_queue, then the one the
\* executor holds, then the commands still in inbound_queue.
CommandLine == QueuedResponseIds \o ExecutorIds \o InboundIds

CS == INSTANCE CommandService WITH line <- CommandLine

\* The command path implements CommandService: every step accepts a
\* request at the back of the line, answers the oldest one, forgets all
\* of them on a reset, or leaves the line alone.  No response is lost,
\* duplicated or overtaken between mqtt_command_handler's put, the
\* executor's blocking get and put, and the drain loop of main().
CommandServiceSpec == CS!Spec

\* Every response to a decoded command (its handler's or the busy reply)
\* goes to the requester: to its response topic when that is valid, with
\* its correlation data when present and within the 16-byte bound (spec:
\* correlation/topic fidelity).
ResponseAddressing ==
  \A k \in DOMAIN outbound :
    LET m == outbound[k] IN
    (m.src = "exec" \/ (m.src = "ingress" /\ m.resp.tag = "busy")) =>
      /\ m.resp.topic = "reply"
      /\ m.resp.corr = IF req[m.id].corr \in 1..MAX_CORRELATION_DATA
                       THEN req[m.id].corr ELSE 0

\* "Prefer the freshest sample": whenever photodiode_queue holds samples,
\* the newest one taken is among them, at its tail; overflow discards old
\* samples, never the new one.
FreshestSampleKept ==
  pdq # <<>> => Last(pdq) = sample

\* Under the scheduling of the executor, main() and the work item, an
\* accepted request is eventually answered or forgotten by a reset: the
\* line never stalls, even while photodiode samples keep outbound_queue
\* full and the executor blocked in its put.
CommandServiceLive == CS!LiveSpec

\* Every message mqtt_command_handler takes from the broker is answered
\* on the wire, unless a watchdog reset forgets it: the spec's decode
\* failures yield an Error Response "rather than being discarded
\* silently", and the busy, error and handler replies must all leave
\* through outbound_queue, the drain loop and mqtt_publish.
RequestAnswered ==
  \A i \in Ids : req[i] # NONE ~> req[i] = NONE

\* A command the spec routes to a handler gets that handler's answer:
\* find_dispatch matches on the device part before the first '/' (spec:
\* the routing key is split on the first '/'), so a "<device>/<setting>"
\* key whose device is in dispatch_table is never answered "Unknown
\* request"; and mqtt_command_handler hands the payload and its length to
\* the executor, so a set whose payload arrived whole is never answered
\* with a JSON parse error.  (The messages of the model carry a
\* well-formed body.)
CommandReachesHandler ==
  \A k \in DOMAIN outbound :
    LET m == outbound[k] IN
    m.src = "exec" =>
      /\ (Len(req[m.id].key) > 1
          /\ \E i \in DOMAIN DispatchTable : DispatchTable[i].key = req[m.id].key[1])
           => m.resp.tag # "unknown"
      /\ m.resp.tag # "json_parse"

=============================================================================
