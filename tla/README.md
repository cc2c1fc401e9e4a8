# TLA+ models of the HiSPEC TIB firmware

This directory models the Zephyr application in `src/app/src/` so that TLC can check it. The application takes MQTT commands and drives MEMS optical switches, lasers, attenuators and a power rail. It also streams photodiode samples. `PROJECT.json` lists every component, run, mutant, source mapping, finding and hazard. This file explains them.

## The system

Four units of execution share three Zephyr message queues (`k_msgq`):

| unit | code | what it does |
|---|---|---|
| main thread | `main.c` `main` | Connects to the broker, then loops: feed the watchdog, drain `outbound_queue` into `mqtt_publish` (with `msg_id++`), call `coo_mqtt_process`. When that fails it disconnects and reconnects. |
| MQTT callback | `main.c` `mqtt_command_handler` | Runs inside `coo_mqtt_process` on the main thread. It decodes a request and either puts a `Command` on `inbound_queue` (depth `MAX_PENDING_COMMANDS` = 2) or puts an error / busy reply on `outbound_queue`, both with `K_NO_WAIT`. |
| executor thread | `main.c` `executor_thread_fn` | `k_msgq_get(inbound, K_FOREVER)`, then `dispatch_command`, then `k_msgq_put(outbound, K_FOREVER)`. |
| photodiode thread and work item | `photodiode.c`, `main.c` `photodiode_publish_handler` | Every 20 ms a sample goes into `photodiode_queue` (depth 4); when the queue is full it is purged and the put retried. Every 10 ms a work item moves samples into `outbound_queue` (depth 8) with `K_NO_WAIT`. |

The command layer (`command.c`) works like this:
- `find_dispatch` looks the topic suffix up in `dispatch_table`.
- `dispatch_command` picks the get or set handler.
- Each handler parses a `<device>/<setting>` key (`parse_key_pair`) and/or a JSON body, acts on a device, and builds the reply with `_msg_builder`. The reply goes to the request's response topic and carries its correlation data.

The MEMS router (`mems_switching.c`, with the tables of `devices.c`) holds 8 latching switches and 16 routes. A route is a list of (switch, position) steps.

The lasers are MAIMAN drivers on a Modbus line (`maiman.c`), all behind one power pin. `laser_setting_get/set` resolve the name part of the key to a node (`get_laser_channel`) and the setting to a register address (`register_table`), switch the rail on and sleep the boot time if it was off, then read or write one register. `power_set` and `sleep_set` switch the same pin without waiting. The attenuators (`attenuator.c`) are six DAC channels, each with two calibration polynomials and the last commanded voltage; `atten_setting_get/set` use the same name lookup to pick one.

Before its loop `main()` arms the watchdog (`watchdog_init`, which only logs when it fails), sets the devices up, brings the network and the MQTT client up, and only then starts the executor thread and the work item; a missing interface or a failed `coo_mqtt_init` makes `main()` return, and `coo_network_wait_ready` may block for good. The photodiode thread is started at boot by `K_THREAD_DEFINE`. The watchdog (5 s) is fed only inside the connected loop. The board therefore resets when `coo_mqtt_connect` blocks for longer than that. A reset clears RAM. It does not move the latching switches.

## Modules

| module | models | state | actions |
|---|---|---|---|
| `Protocol` | `command.c` dispatch and reply building, the decode steps of `mqtt_command_handler` | (operators only) | `Decode`, `DispatchCommand`, `FindDispatch`, `HandlerResponse`, `MsgBuilder`, `ParseMsgType`, `KeyPairOK` |
| `CommandService` | what the command path promises, with no threads or queues: one FIFO line of accepted requests, answered oldest first, emptied by a reset | `line` | `Accept(i)`, `Answer`, `Reset` |
| `Pipeline` | the threads and queues above, composed with `Protocol`, and shown to implement `CommandService` | `inbound`, `exec`, `outbound`, `pdq`, `sample`, `main` (`init`, `stalled`, `connect`, `drain`, `process`), `wdt` (watchdog armed), `link`, `msgId`, and the history variable `req` (the message each tag was delivered with, cleared once its answer is handed to the broker or a reset forgets it) | `Startup`, `Connect`, `Publish`, `DrainDone`, `ProcessIdle`, `ProcessFail`, `Receive(m)`, `LinkLoss`, `WatchdogReset`, `ExecGet`, `ExecPut`, `Sample`, `PdForward` |
| `MemsRouter` | `mems_switching.c`, the switch and route tables of `devices.c`, and the handlers `mems_get`, `mems_set`, `memsroute_get` and `memsroute_set` | `router`, `state` (each `sw->state`), `pos` (physical position), and the histories `lastApplied` and `reply` | `MemsGet`, `MemsSet`, `MemsrouteGet`, `MemsrouteSet`, `Reboot` |
| `LaserChannels` | `get_laser_channel` and the `laser_t` enum (`command.c`) | (operators only) | `GetLaserChannel` |
| `Lasers` | `maiman.c`, `register_table` (`maiman.h`), `enable_power` / `disable_power` / `wait_laser_boot`, and the handlers `laser_setting_get/set`, `power_get`, `status_get`, `power_set`, `sleep_set` | `rail` (power pin and driver boot: off / booting / ready), `modbus` (RTU client set up at boot), `regs` (the drivers' holding registers), and the histories `acked`, `bus` and `reply` | `LaserSettingGet`, `LaserSettingSet`, `PowerGet`, `PowerSet`, `SleepSet`, `BootElapsed`, `Reboot` |
| `Attenuators` | `attenuator.c`, `setup_attenuators` and the handlers `atten_setting_get/set` | `atten` (coefficients and `drv->voltage` per index), `dac` (the code last written per channel), `reply` | `AttenSettingGet`, `AttenSettingSet` |
| `MCPipeline`, `MCMemsRouter`, `MCLasers`, `MCAttenuators` | the instances TLC checks | | |

How the code maps onto the modules:
- **Messages and payload text.** An MQTT message is a record: the key's `/`-separated segments, the `msg_type` string, whether the payload fits, the length of the response topic, and the length of the correlation data. Those are exactly what `mqtt_command_handler` and `_msg_builder` test. Payload text, topics and log lines are left out.
- **Responses.** A response records its kind (`RESP_OK` or `RESP_ERROR`), a tag naming which branch built it, its QoS, whether it goes to the reply topic or the default topic, and the echoed correlation length.
- **Atomicity.** Each action is one uninterrupted stretch of one thread:
  - `Receive` is the whole callback.
  - `ExecGet` is the get plus `dispatch_command`.
  - `ExecPut` is the blocking put. Its second disjunct is the executor going to sleep on a full queue.
  - `Publish` is one iteration of the drain loop. When the executor is blocked, the kernel's `k_msgq_get` copies the blocked writer's message into the freed slot before returning, so `Publish` does the same.
  - `Sample` is one loop of `photodiode_thread`, including the purge-and-retry.
  - `PdForward` is one iteration of the work item's loop.
- **Handler-level driving.** The device handlers run on the executor one at a time, so `MemsRouter`, `Lasers` and `Attenuators` drive them directly, one atomic action per handler, with the handler's whole body (key parse, lookups, power-up and boot wait, bus or DAC calls, reply) in the action. The ingress path cannot reach them in the current code (findings 1 and 2), so composing them with `Pipeline` would only show error replies. A key `laser1028y/CURRENT` is the pair of its parts; the case of names is folded, as `strncasecmp`, `strcasecmp` and `strcaseeq` do.
- **Refinement.** `Pipeline` defines `CommandLine`, the ids of the executor's responses waiting in `outbound_queue`, then the one the executor holds, then the commands in `inbound_queue`, and instantiates `CS == INSTANCE CommandService WITH line <- CommandLine`. `Receive` enqueuing is `Accept`, `Publish` of an executor response is `Answer`, `WatchdogReset` is `Reset`, and every other step (busy and error replies, samples, the executor's get and put) leaves the line unchanged.
- **Faults.**
  - `MemsRouter` chooses the result of the GPIO writes when `GpioCanFail` is TRUE.
  - `Pipeline` chooses whether `watchdog_init` arms the watchdog when `WdtCanFail` is TRUE, and whether start-up reaches the loop or stalls (no interface, `coo_mqtt_init` failing, the network never ready). Only an armed watchdog resets a stalled board.
  - `Lasers` chooses at each boot whether `setup_modbus_client` succeeds (when it fails every transaction fails), and the outcome of each Modbus transaction when `BusCanFail` is TRUE: answered, no answer (the request was lost), or the answer lost after the driver applied a write. A driver that has not finished booting never answers.
  - `Attenuators` chooses whether the DAC ready check, channel setup and write succeed when `DacCanFail` is TRUE.
- **Resets.** `MemsRouter!Reboot` re-runs `setup_mems_switches_and_routes`, which may find the expander not ready and leave the router empty; the physical `pos` is kept. `Lasers!Reboot` drops the power rail (`devices_ready` configures the pin as an inactive output) and sets the Modbus client up again. `Pipeline!WatchdogReset` returns `main()` to `init`, where `Startup` runs `watchdog_init` again. Whether a MAIMAN driver keeps its registers across a power cut is device behaviour outside this repository, so `PowerCut` allows any register contents afterwards.
- **Numbers.** Attenuator voltages, dB values and coefficients are integers in units of 1.024 V, so `MAX_VOLTAGE` is 4; the clamp and the 12-bit DAC code are computed as in the code. A double may also be `NaN`: the clamp's comparisons (`Below`, `Above`) are false for it and the polynomials propagate it, and its conversion to a DAC code, undefined in C, either yields 0 or a code the write refuses (`DacCodes`). The raw value of `atten_setting_set` is `FloatOfBits(n)`: `json_obj_parse` writes the `JSON_TOK_NUMBER` n as an `int32_t` into the `float` field, so the float has n's bits (`-1` is NaN, small positive numbers are denormals, truncated to 0 in the model's unit). Laser set bodies carry a small set of JSON numbers; a register holds their `uint16_t` image (`U16`, the low half the JSON decoder leaves in the 16-bit field) and a get prints it back with `%hd` as a signed short (`Int16`).
- **Publishing.** `Publish` hands the head of `outbound_queue` to the broker only while the link is up and, for a QoS 1 reply, only with a non-zero `msg_id` (`Delivered`): MQTT makes packet identifier 0 malformed for QoS 1, so after the wrap such a reply never reaches its requester. Either way the entry has left the queue.
- **Undefined behaviour.** `get_laser_channel(laser_name + 5)` reads past the terminator for a name part shorter than 5 characters; `ChannelsOf` then allows every result.

## Runs

| run | cfg | expect | shows |
|---|---|---|---|
| `mems_router` | `MCMemsRouter.cfg` | pass | `ReportedRoutesEstablished`: every route `memsroute_get` reports is physically set. `AppliedRouteReported`: a route applied with OK stays reported until a switch is commanded again or the board resets. `ActiveInputsUnique`: no two active routes share an input, which matters because the JSON reply is keyed by input. `RouteTableWellFormed`: the route table has one route per key and only known switches, which `mems_router_define_route` does not check. |
| `mems_gpio_failure` | `MCMemsRouter_gpio.cfg` | violation | A failed GPIO pulse still commits `sw->state`, so a route is reported that the light does not take. |
| `pipeline_safety` | `MCPipeline.cfg` | pass | `CommandServiceSpec`: the queues and the executor implement `CommandService`, so accepted commands and their responses are never lost, duplicated or reordered, with link loss and resets. `FreshestSampleKept`: the photodiode queue always keeps the newest sample. |
| `pipeline_liveness` | `MCPipeline_live.cfg` | pass | `CommandServiceLive`: with the watchdog armed and under the fairness below, the line of accepted commands never stalls: each is eventually published or discarded by a watchdog reset. |
| `handler_dispatch` | `MCPipeline_CommandReachesHandler.cfg` | violation | `CommandReachesHandler`: a command the spec routes to a handler gets that handler's answer. It fails two ways: `mems/yj_cal_laser` is answered "Unknown request" (finding 1) and `memsroute` set with a JSON parse error (finding 2). The counterexample shows the second; with only the `mems` message offered TLC shows the first. |
| `correlation_16` | `MCPipeline_ResponseAddressing.cfg` | violation | `ResponseAddressing`: responses and busy replies go to the requester's topic with its correlation data when it is within the spec's 16 bytes. The counterexample is the busy reply to a `status` get with 16 bytes of correlation data, sent without them (finding 8). |
| `request_answered` | `MCPipeline_answered.cfg` | violation | `RequestAnswered`: under the fairness below, a message taken from the broker stays unanswered for ever with no reset to excuse it. TLC reaches this in several ways (an oversize payload dropped, a reply published on a dead connection or with `msg_id` 0, a reply lost on a full queue); which one a counterexample shows varies from run to run. |
| `lasers` | `MCLasers.cfg` | pass | `BusOnlyForNamedLaser`: only keys naming a laser of the table reach the bus, power the rail or wait for it. |
| `laser_alias` | `MCLasers_alias.cfg` | violation | `LaserReadYourWrites`: a get answered OK returns the value of the last set of that key answered OK (unless a later set failed or power was lost). `laser1028y` and `laser1270j` reach the same driver: a set through one is read back through the other. |
| `laser_boot_wait` | `MCLasers_boot.cfg` | violation | After `power_set` true, the next laser command talks to drivers that are still booting. |
| `attenuators` | `MCAttenuators.cfg` | pass | `TypeOK`: over raw values decoding to NaN, to a voltage above and to one below the range, and calibrations applied on top, `drv->voltage` is NaN or within [0, `MAX_VOLTAGE`] and every code written fits 12 bits: the clamp holds for every number, NaN excepted. |
| `atten_ok_honoured` | `MCAttenuators_inverted.cfg` | violation | `AttenSetHonoured`: a set answered OK did what its key names, and the DAC carries the code of the voltage then reported. With a DAC that can fail it fails three ways (findings 6, 9, 10); the counterexample is `atten1028y/coeff` with a value body, which runs the raw-value branch, keeps the old calibration, and is answered OK after a failed DAC write. |

Each property of a passing run has a mutant in `PROJECT.json`: an operator placed just before the definition it replaces, modelling a plausible bug. When it is substituted, TLC finds that property violated:
- the 'A'/'B' check dropped from `SetState`
- swapped pins in `SetState`
- a route step loop that stops one step early
- a route-table typo
- a route block copied without changing its output
- a `K_NO_WAIT` put that does not check for room
- a `K_NO_WAIT` put by the executor (breaks the refinement: a response is dropped)
- a photodiode queue that drops the newest sample
- a `k_msgq_get` that does not hand the slot to the blocked writer (breaks the liveness of the refinement)
- `laser_setting_get` not checking the register lookup
- `get_laser_channel` comparing only the first five characters
- a clamp without its lower bound

## Findings

1. `find_dispatch` uses `strcmp` on the whole key (`command.c:80`). No `mems/…`, `laser…/…` or `atten…/…` command reaches its handler.
2. `cmd.payload_len` is never set (`main.c:210`). Every set handler parses 0 bytes and fails.
3. `mems_switch_set_state` ignores GPIO errors and commits the state (`mems_switching.c:45-52`).
4. `LASER_1028_Y` and `LASER_1270_J` are both 1 (`command.c:54-55`), and the second `"1430yj"` test makes `LASER_1430_HK` unreachable. Two laser names share one driver and one attenuator.
5. `power_set` powers the rail without the boot wait, and the laser handlers wait only when they powered the rail themselves (`command.c:436`, `628`).
6. The `strcasecmp` tests of `atten_setting_get/set` are inverted (`command.c:500`, `548`, `573`): `coeff` runs the raw-value branch, every other setting the coefficient branch, and `valuedb` and "Invalid setting" are unreachable.
7. A request can go unanswered for good without any reset (`request_answered`). `mqtt_command_handler` returns silently on an oversize payload (`main.c:207`), which the spec says must yield an Error Response. The busy and error replies are put with `K_NO_WAIT` and their result ignored (`main.c:244`). The drain loop takes a response off the queue before `mqtt_publish`, which fails on a dropped connection (`main.c:360`). And `msg_id`, incremented by every publish including 100 samples a second, wraps to 0 about every 11 minutes, so a QoS 1 reply goes out with the forbidden identifier 0 (`main.c:354`).

8. Correlation data of exactly 16 bytes is dropped (`main.c:234`, `command.c:178`), from handler and busy replies alike; the spec allows up to 16, and a 16-byte UUID is a common correlation token.
9. `atten_setting_set` decodes `"value"` with `JSON_TOK_NUMBER` into a `float` (`command.c:577`, `587`). Zephyr's JSON library writes that token type as an `int32_t`, so the float receives the integer's bits: `{"value":2}` sets about 3e-45 V, and `{"value":-1}` sets NaN, which passes both clamp tests (`attenuator.c:46-50`), is stored, answered OK and later printed as `nan` in the get reply. The decoder is outside this repository; `FloatOfBits` models what it does.
10. `attenuator_set` commits `drv->voltage` before the DAC ready check, setup and write (`attenuator.c:51`), and `atten_setting_set` ignores its result: a failed write is answered OK and the reported voltage is not the output.

Observed while modelling, and listed as hazards without a run of their own:
- `power_set` and `sleep_set` answer a change they made with `RESP_ERROR` (`command.c:630`, `646`). No run checks it: `Lasers` models the reply as written, and a unit test of `power_set` shows it directly.
- `parse_key_pair(..., 15, ..., 15)` rejects the 16-character switch names (`command.c:364`) and 11 of the 16 register names (`maiman.h:40-56`).
- A laser name part shorter than 5 characters would make `laser_name + 5` read uninitialised bytes (`command.c:421`), but the laser handlers are dispatched only for the device part `laser` (or, with finding 1 fixed, one that begins with it), so the name part always has 5 characters or more.
- A set body without a `value` field parses and writes 0 (`json_obj_parse` reports missing fields as success).
- Without a watchdog (`watchdog_init` failing, `main.c:103`) a stalled start-up or a reconnect that never succeeds is never recovered: `RequestAnswered` covers it (its run has `WdtCanFail` TRUE), and with `WdtCanFail` TRUE `CommandServiceLive` fails as well.
- `laser_setting_get` prints the `uint16_t` register with `%hd` (`command.c:441`): a value of 32768 or more, written as sent, is read back negative (40000 as -25536). `Lasers` models both conversions. `LaserReadYourWrites` is checked only in `laser_alias`, over -1 and 0, so that its counterexample is the aliasing; a set of 40000 would end it a step earlier with this read-back.
- The coefficient arrays are decoded with `JSON_TOK_FLOAT` (`command.c:553-554`); `CoeffsOK` takes them as the numbers sent. No property depends on their values beyond their being installed.
- A Modbus write whose answer is lost has taken effect although it is reported as failed (`maiman.c:60`). `Lasers` models it (the acknowledgement is withdrawn, the register written); what a client should then believe is stated nowhere, so no property checks it.
- `devices_ready` tests `setup_modbus_client() != 0` although that function returns `true` on success (`devices.c:263`), and stores the int result of `gpio_pin_configure_dt` in its bool `rc`; it reports the wrong readiness, but `main()` ignores the result, so only the log is wrong.
- The executor's 1024-byte stack (`main.c:50`) holds a `struct Command`, a `struct OutMsg` and the handlers' payload buffers, each sized by `MAX_PAYLOAD_LEN`; the photodiode thread's 500-byte stack (`main.c:52`) holds a `struct OutMsg` too. Stack usage is outside what the model represents.

## Bounds and why they are enough

**`MCMemsRouter`: `Sides = {"yj"}`.** This gives 4 switches, 8 routes and 8 ports. The hk half is the same table with "hk" for "yj" (`devices.c` 188-238) and no route crosses halves, so the hk half behaves identically. Every initial physical position is enumerated. Names and states include one unknown name, one unknown port and one invalid state character, so every early return of the handlers is reached. The search is complete (24,712 states), so every sequence of commands and resets is covered.

**`MCPipeline.cfg`: `InboundCap = 2`, the code's `MAX_PENDING_COMMANDS`.**
- `Ids = 1..3` is enough for one command in each of the outbound queue, the executor and the inbound queue, with a third message meeting a full inbound queue (the busy reply).
- `OutboundCap = 3` (the code has 8) lets the queue fill with any mix of samples, replies and responses. That drives the executor's blocked put and the lost-when-full replies.
- `SampleCap = 2` (the code has 4) reaches the purge.
- Three message shapes cover the enqueue, respond and drop branches of the callback.

**`MCPipeline_live.cfg`.** This run uses `InboundCap = 1` and `Ids = 1..2` to keep temporal checking short. Blocking, busy replies and purges still occur at these bounds.

**`MCLasers`.** The keys are two lasers on distinct drivers (1028y, 1430yj), the spec's unresolvable `laser9999x`, `laser1028yz` (a table name with one more character, which a prefix comparison would accept) and the enum's `1430hk`; the settings are `CURRENT`, the too-long `CURRENT_MEASURED` and a non-register. The values are -1 and 0: in `laser_alias` they tell a stale read from a fresh one, and -1 goes through both conversions (stored as 65535, printed back as -1). With `BusCanFail` TRUE every transaction outcome is reached, and power_set, sleep_set, the boot and resets interleave with the handlers in every order, with the Modbus client up or not after each boot (17,600 states). `laser_alias` offers 1028y and 1270j only.

**`MCAttenuators`.** Two attenuators, the unresolvable and an over-long name, the three settings, the numbers -1 (NaN once decoded) and the integers with the bits of 5.0f and -1.0f (above and below the range), an offset calibration and a calibration with a short array. Every branch of both handlers is reached, NaN flows through the clamp and the calibration, and the pass run takes the DAC as working (`DacCanFail` FALSE) because `TypeOK` does not depend on it (12,585 states, 25 s); the violation run lets it fail.

**`WdtCanFail`.** TRUE in the safety runs, so start-up without a watchdog is explored; FALSE in the liveness run, whose property holds only with an armed watchdog (the spec calls the watchdog the sole recovery path).

**`MCPipeline_answered.cfg`.** The liveness bounds (`InboundCap = 1`, `Ids = 1..2`) with `WdtCanFail` TRUE. The message set includes the oversize payload, and an outbound depth of 2 lets samples fill the queue, so every way of losing a reply is within reach.

**`MSG_ID_BITS = 1`.** This scales the 16-bit counter down so that its wrap happens inside the bounds; the order of events is unchanged.

## Fairness

`FairSpec` assumes weak fairness of:
- the executor's get and put;
- one drain-loop publish and the end of the drain;
- the return of `coo_mqtt_process`;
- the photodiode thread and the work item;
- `main()`'s start-up;
- the watchdog reset once main is stuck in connect or stalled.

These are all threads or timers that run whenever they are ready: the executor and the sampler loop for ever, the work item reschedules itself, `coo_mqtt_process` returns on its poll timeout, and the watchdog's hardware timer fires 5 s after the last feed. The broker, the network (`Receive`, `LinkLoss`) and a successful `coo_mqtt_connect` get no fairness. A run may therefore stay disconnected for ever, and then only a reset resolves the queued commands. Weak fairness also lets the drain loop go on for ever while the work item refills the queue between two publishes; that lasso shows up in the tail of `request_answered` counterexamples, but it is not what leaves the request unanswered: the reply has already been lost by then.

The device modules have no fairness and no liveness property: their handlers run only when a client sends a command, and `BootElapsed` is only needed for safety (a boot that never ends only makes laser commands fail).

## Not modelled, and the plan

**Planned checks:**
- A run that composes the device modules with the ingress path once findings 1 and 2 are taken as fixed.
- An abstract specification of a device register (read returns the last acknowledged write) refined by `Lasers` with the alias removed.

**Out of reach or pure I/O:**
- Modbus framing and the ADC and DAC drivers: only the outcome of a transaction or a DAC write is modelled.
- Case folding of names: the model uses one spelling per name.
- The typed accessors of `maiman.c` (`maiman_get_*`, `maiman_set_*`, `maiman_is_*`, `maiman_to_signed`): no handler calls them; the handlers use `maiman_read_u16` / `maiman_write_u16` directly.
- Network bring-up, `conn_mgr`, and the internals of the coo-common MQTT helper (not in this repository).
- The settings handler: `setting_handler` reads one byte into a local and prints it; it changes no state.
- JSON text encoding: payloads are abstracted to the fields the code tests.
