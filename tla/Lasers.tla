------------------------------- MODULE Lasers -------------------------------
(***************************************************************************)
(* The laser side of src/app/src/command.c and maiman.c: the handlers      *)
(* laser_setting_get / laser_setting_set, power_get / status_get,          *)
(* power_set and sleep_set, the shared laser power rail behind             *)
(* enable_power / disable_power, and the MAIMAN drivers on the Modbus,     *)
(* driven at handler level like MemsRouter (each handler runs to the end  *)
(* on the executor thread before the next one starts).                     *)
(*                                                                         *)
(* A key "laser1028y/CURRENT" is the pair <<"laser1028y", "CURRENT">>.     *)
(* Setting names are kept in the spelling of register_table; strcaseeq    *)
(* makes the case of the key irrelevant.  Values are the JSON numbers a   *)
(* set may carry; a register holds their uint16 images.                   *)
(*                                                                         *)
(* The rail is "off", "booting" (pin high, drivers not yet answering) or   *)
(* "ready".  wait_laser_boot sleeps the fixed boot time, so a handler that *)
(* powers the rail itself finds it ready; BootElapsed is that time passing *)
(* for a rail powered by power_set.  A driver that is not ready does not   *)
(* answer and the Modbus call times out.  When BusCanFail the bus may     *)
(* also lose the request or the answer; a lost answer to a write leaves    *)
(* the register written although the call reports failure.                 *)
(***************************************************************************)
EXTENDS Integers, Sequences, Protocol, LaserChannels

CONSTANTS
  Devices,     \* first key parts offered to the laser handlers
  Settings,    \* second key parts offered to the laser handlers
  Values,      \* numbers offered as the "value" of a set body
  BusCanFail   \* whether a Modbus transaction can fail on a ready driver

-----------------------------------------------------------------------------
(* register_table of maiman.h and maiman_get_register_address.            *)

RegisterTable ==
  [TEC_TEMPERATURE_MEASURED |-> 4096, PCB_TEMPERATURE_MEASURED |-> 4097,
   TEC_TEMPERATURE_VALUE |-> 4098, CURRENT_MEASURED |-> 4099, CURRENT |-> 4100,
   VOLTAGE_MEASURED |-> 4101, CURRENT_MAX_LIMIT |-> 4102,
   CURRENT_PROTECTION_THRESHOLD |-> 4103, CURRENT_SET_CALIBRATION |-> 4104,
   NTC_COEFFICIENT |-> 4105, TEC_CURRENT_MEASURED |-> 4106, TEC_VOLTAGE |-> 4107,
   SERIAL_NUMBER |-> 4108, FREQUENCY |-> 4109, DURATION |-> 4110,
   STATE_OF_DEVICE_COMMAND |-> 4112]

MaimanGetRegisterAddress(name) ==
  IF name \in DOMAIN RegisterTable THEN RegisterTable[name] ELSE NONE

\* The driver nodes and registers the offered keys can reach.
Nodes == UNION {ChannelsOf(d) : d \in Devices} \ {LASER_UNKNOWN}
Addresses == {RegisterTable[s] : s \in Settings \cap DOMAIN RegisterTable}

RailStates == {"off", "booting", "ready"}

\* json_obj_parse decodes a JSON_TOK_NUMBER as an int32_t into the uint16
\* field of struct json_value_uint16; on the little-endian target the
\* field keeps the low half.
U16(n) == n % 65536

\* snprintf's %hd prints the register as a signed short.
Int16(r) == IF r >= 32768 THEN r - 65536 ELSE r

RegValues == {U16(v) : v \in Values}

\* enable_power() followed by wait_laser_boot() when it returned true.
Powered(rail) == IF rail = "off" THEN "ready" ELSE rail

\* setup_modbus_client, called by devices_ready at boot: whether
\* modbus_init_client configured the RTU client.  Its failure is only
\* logged (and devices_ready's result is ignored by main()).
ModbusInitOutcomes == IF BusCanFail THEN BOOLEAN ELSE {TRUE}

\* maiman_read_u16 / maiman_write_u16 on a client that is up (or not):
\* the outcomes of one transaction.
ReadOutcomes(rail, up) == IF ~up \/ rail # "ready" THEN {"no_answer"}
                          ELSE IF BusCanFail THEN {"ok", "no_answer"}
                          ELSE {"ok"}
WriteOutcomes(rail, up) == IF ~up \/ rail # "ready" THEN {"no_answer"}
                           ELSE IF BusCanFail THEN {"ok", "no_answer", "reply_lost"}
                           ELSE {"ok"}

-----------------------------------------------------------------------------
VARIABLES
  rail,    \* the power rail: the power_gpio pin and the drivers' boot
  modbus,  \* whether the Modbus RTU client was initialised at boot
  regs,    \* the holding registers of every MAIMAN driver
  acked,   \* per key, the value of the last set answered OK, NONE when a
           \* later set failed or the drivers lost power (history)
  bus,     \* the Modbus transaction of the last handler, NONE if it made
           \* none (history)
  reply    \* the result of the last handler

vars == <<rail, modbus, regs, acked, bus, reply>>

Keys == Devices \X Settings
NoAcks == [k \in Keys |-> NONE]

Reply(op, key, kind, res, val) ==
  [op |-> op, key |-> key, kind |-> kind, res |-> res, val |-> val]

\* A handler that returns before touching the rail or the bus.
Reject(op, key, res) ==
  /\ reply' = Reply(op, key, "RESP_ERROR", res, NONE)
  /\ bus' = NONE
  /\ UNCHANGED <<rail, modbus, regs, acked>>

\* The rail goes low.  Whether a MAIMAN driver keeps its registers over a
\* power cycle is device behaviour outside this repository, so any
\* contents are possible afterwards; acknowledgements of overwritten
\* registers no longer hold.
PowerCut ==
  /\ rail' = "off"
  /\ regs' \in [Nodes -> [Addresses -> RegValues]]
  /\ acked' = IF regs' = regs THEN acked ELSE NoAcks

Init ==
  /\ rail = "off"
  /\ modbus \in ModbusInitOutcomes
  /\ regs \in [Nodes -> [Addresses -> RegValues]]
  /\ acked = NoAcks
  /\ bus = NONE
  /\ reply = NONE

-----------------------------------------------------------------------------
(* The handlers.                                                           *)

\* Mutant: the register lookup's failure is not checked.
LaserSettingGetUnchecked(dev, s) ==
  LET key == <<dev, s>>
      addr == MaimanGetRegisterAddress(s)
  IN \/ ~KeyPairOK(key) /\ Reject("laser_get", key, "parse_error")
     \/ /\ KeyPairOK(key)
        /\ \E node \in ChannelsOf(dev) :
             \/ node = LASER_UNKNOWN /\ Reject("laser_get", key, "invalid_laser")
             \/ /\ node # LASER_UNKNOWN
                /\ rail' = Powered(rail)
                /\ \E out \in ReadOutcomes(rail', modbus) :
                     /\ bus' = [dev |-> dev, node |-> node, addr |-> addr, rail |-> rail', op |-> "read"]
                     /\ reply' = Reply("laser_get", key, "RESP_ERROR", "bus_failed", NONE)
                /\ UNCHANGED <<modbus, regs, acked>>

\* laser_setting_get: parse the key, resolve the laser and the register,
\* power the rail (waiting for the boot) if it was off, read the register.
LaserSettingGet(dev, s) ==
  LET key == <<dev, s>>
      addr == MaimanGetRegisterAddress(s)
  IN \/ ~KeyPairOK(key) /\ Reject("laser_get", key, "parse_error")
     \/ /\ KeyPairOK(key)
        /\ \E node \in ChannelsOf(dev) :
             \/ node = LASER_UNKNOWN /\ Reject("laser_get", key, "invalid_laser")
             \/ node # LASER_UNKNOWN /\ addr = NONE /\ Reject("laser_get", key, "invalid_setting")
             \/ /\ node # LASER_UNKNOWN /\ addr # NONE
                /\ rail' = Powered(rail)
                /\ \E out \in ReadOutcomes(rail', modbus) :
                     /\ bus' = [dev |-> dev, node |-> node, addr |-> addr, rail |-> rail', op |-> "read"]
                     /\ reply' = IF out = "ok"
                                 THEN Reply("laser_get", key, "RESP_OK", "ok", Int16(regs[node][addr]))
                                 ELSE Reply("laser_get", key, "RESP_ERROR", "bus_failed", NONE)
                /\ UNCHANGED <<modbus, regs, acked>>

\* The effect of one maiman_write_u16 with outcome out, and its reply.
WriteEffect(key, node, addr, v, out) ==
  /\ regs' = IF out \in {"ok", "reply_lost"} THEN [regs EXCEPT ![node][addr] = U16(v)] ELSE regs
  /\ acked' = [acked EXCEPT ![key] = IF out = "ok" THEN v ELSE NONE]
  /\ reply' = IF out = "ok" THEN Reply("laser_set", key, "RESP_OK", "ok", NONE)
              ELSE Reply("laser_set", key, "RESP_ERROR", "bus_failed", NONE)

\* laser_setting_set: parse the key and the JSON value (NONE when the body
\* has no number), then as the get, with a register write.
LaserSettingSet(dev, s, v) ==
  LET key == <<dev, s>>
      addr == MaimanGetRegisterAddress(s)
  IN \/ ~KeyPairOK(key) /\ Reject("laser_set", key, "parse_error")
     \/ KeyPairOK(key) /\ v = NONE /\ Reject("laser_set", key, "json_error")
     \/ /\ KeyPairOK(key) /\ v # NONE
        /\ \E node \in ChannelsOf(dev) :
             \/ node = LASER_UNKNOWN /\ Reject("laser_set", key, "invalid_laser")
             \/ node # LASER_UNKNOWN /\ addr = NONE /\ Reject("laser_set", key, "invalid_setting")
             \/ /\ node # LASER_UNKNOWN /\ addr # NONE
                /\ rail' = Powered(rail)
                /\ \E out \in WriteOutcomes(rail', modbus) :
                     /\ bus' = [dev |-> dev, node |-> node, addr |-> addr, rail |-> rail', op |-> "write"]
                     /\ WriteEffect(key, node, addr, v, out)
                /\ UNCHANGED modbus

\* status_get and power_get: report power_enabled(), the pin level.
PowerGet(op) ==
  /\ reply' = Reply(op, NONE, "RESP_OK", IF rail = "off" THEN "off" ELSE "on", NONE)
  /\ bus' = NONE
  /\ UNCHANGED <<rail, modbus, regs, acked>>

\* power_set: {"value":true} calls enable_power (no boot wait), false
\* calls disable_power; both are no-ops in the requested state.  The
\* reply is built as RESP_ERROR.
PowerSet(v) ==
  \/ v = NONE /\ Reject("power_set", NONE, "json_error")
  \/ /\ v = TRUE
     /\ rail' = IF rail = "off" THEN "booting" ELSE rail
     /\ UNCHANGED <<modbus, regs, acked>>
     /\ bus' = NONE
     /\ reply' = Reply("power_set", NONE, "RESP_ERROR", "ok", NONE)
  \/ /\ v = FALSE
     /\ IF rail = "off" THEN UNCHANGED <<rail, regs, acked>> ELSE PowerCut
     /\ UNCHANGED modbus
     /\ bus' = NONE
     /\ reply' = Reply("power_set", NONE, "RESP_ERROR", "ok", NONE)

\* sleep_set: {"value":true} calls disable_power; false does nothing.
SleepSet(v) ==
  \/ v = NONE /\ Reject("sleep_set", NONE, "json_error")
  \/ /\ v \in BOOLEAN
     /\ IF v /\ rail # "off" THEN PowerCut ELSE UNCHANGED <<rail, regs, acked>>
     /\ UNCHANGED modbus
     /\ bus' = NONE
     /\ reply' = Reply("sleep_set", NONE, "RESP_ERROR", "ok", NONE)

\* The drivers finish booting on a rail that power_set switched on.
BootElapsed ==
  /\ rail = "booting"
  /\ rail' = "ready"
  /\ UNCHANGED <<modbus, regs, acked, bus, reply>>

\* A watchdog reset: devices_ready configures power_gpio as an inactive
\* output, so the rail drops, and sets the Modbus client up again.
Reboot ==
  /\ IF rail = "off" THEN UNCHANGED <<rail, regs, acked>> ELSE PowerCut
  /\ modbus' \in ModbusInitOutcomes
  /\ bus' = NONE
  /\ reply' = NONE

Next ==
  \/ \E d \in Devices, s \in Settings : LaserSettingGet(d, s)
  \/ \E d \in Devices, s \in Settings, v \in Values \cup {NONE} : LaserSettingSet(d, s, v)
  \/ \E op \in {"power_get", "status_get"} : PowerGet(op)
  \/ \E v \in BOOLEAN \cup {NONE} : PowerSet(v)
  \/ \E v \in BOOLEAN \cup {NONE} : SleepSet(v)
  \/ BootElapsed
  \/ Reboot

Spec == Init /\ [][Next]_vars

-----------------------------------------------------------------------------
(* Properties.                                                             *)

TypeOK ==
  /\ rail \in RailStates
  /\ modbus \in BOOLEAN
  /\ regs \in [Nodes -> [Addresses -> 0..65535]]
  /\ acked \in [Keys -> Values \cup {NONE}]
  /\ bus \in {NONE} \cup [dev : Devices, node : Nodes, addr : Addresses,
                          rail : RailStates, op : {"read", "write"}]

\* Read your writes, across laser_setting_set, laser_setting_get, power
\* cycles and bus faults: a get of a key answered OK returns the value of
\* the last set of that key answered OK, unless a later set of it failed
\* or the drivers lost power since.
LaserReadYourWrites ==
  reply # NONE /\ reply.op = "laser_get" /\ reply.res = "ok" /\ acked[reply.key] # NONE
    => reply.val = acked[reply.key]

\* The laser names of get_laser_channel's table.
LaserNames == {LaserNameTable[i][1] : i \in DOMAIN LaserNameTable}

\* A laser handler only talks to a driver (and so only powers the rail
\* and waits for it) when the key names a laser of the table: "laser9999x"
\* is "Invalid laser" with no bus I/O.
BusOnlyForNamedLaser ==
  bus # NONE => Len(bus.dev) >= 5 /\ SubSeq(bus.dev, 6, Len(bus.dev)) \in LaserNames

\* Every Modbus transaction of a laser handler finds the drivers booted:
\* the first access after power-up comes after the boot wait.
BusOnlyWhenBooted ==
  bus # NONE => bus.rail = "ready"

=============================================================================
