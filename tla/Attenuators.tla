----------------------------- MODULE Attenuators -----------------------------
(***************************************************************************)
(* The variable optical attenuators: attenuator.c, setup_attenuators of   *)
(* devices.c and the handlers atten_setting_get / atten_setting_set of    *)
(* command.c, driven at handler level (one handler at a time on the       *)
(* executor thread).                                                       *)
(*                                                                         *)
(* Voltages, dB values and coefficients are integers in a scaled unit of  *)
(* 1.024 V, so MAX_VOLTAGE (4.096 V) is 4 and the DAC code                 *)
(* voltage / MAX_VOLTAGE * DAC_MAX_CODE is computed exactly as in the     *)
(* code, truncated.  A coefficient triple <<c0, c1, c2>> is the code's    *)
(* array c[0..2]; the polynomial is c0 + c2*x*x + c1*x.  A double may     *)
(* also be NaN, which every comparison of the code finds false and every  *)
(* arithmetic operation propagates.                                        *)
(*                                                                         *)
(* A JSON body is NONE when json_obj_parse fails, [value |-> n] for       *)
(* {"value":n} with n an integer number of volts, or [db2volt |-> a, volt2db |-> b] for the coefficient     *)
(* arrays, where an array of the wrong length is a sequence of that       *)
(* length.  A descriptor finds the fields it names and leaves the others  *)
(* zero, as json_obj_parse does.                                           *)
(***************************************************************************)
EXTENDS Integers, Sequences, LaserChannels

CONSTANTS
  Devices,     \* first key parts offered to the atten handlers
  Settings,    \* second key parts offered to the atten handlers
  Bodies,      \* JSON bodies offered to atten_setting_set
  DacCanFail,  \* whether device_is_ready / dac_channel_setup / dac_write_value can fail
  NONE,
  NaN          \* the double not-a-number

DAC_RESOLUTION_BITS == 12
DAC_MAX_CODE == 2^DAC_RESOLUTION_BITS - 1
MAX_VOLTAGE == 4
NUM_ATTENUATORS == 6

\* parse_key_pair(key, name, 15, setting, 15).
KeyPairOK(dev, s) == Len(dev) > 0 /\ Len(dev) < 15 /\ Len(s) > 0 /\ Len(s) < 15

Poly(c, x) == IF x = NaN THEN NaN ELSE c[1] + c[3] * x * x + c[2] * x

\* The comparisons of the clamp: false whenever NaN is involved.
Below(v, x) == v # NaN /\ v < x
Above(v, x) == v # NaN /\ v > x

\* Mutant: only the upper end of the range is clamped.
ClampNoFloor(v) == IF Above(v, MAX_VOLTAGE) THEN MAX_VOLTAGE ELSE v

Clamp(v) == IF Below(v, 0) THEN 0 ELSE IF Above(v, MAX_VOLTAGE) THEN MAX_VOLTAGE ELSE v

Code(v) == (v * DAC_MAX_CODE) \div MAX_VOLTAGE

\* The codes (uint32_t)(voltage / MAX_VOLTAGE * DAC_MAX_CODE) may hand to
\* dac_write_value.  The conversion of NaN is undefined: the Cortex-M
\* conversion yields 0, others a value beyond the 12 bits that the write
\* refuses (NONE).
DacCodes(v) == IF v = NaN THEN {0, NONE} ELSE {Code(v)}

\* The double a float field holds after json_obj_parse wrote the int32 n
\* into it as a JSON_TOK_NUMBER: the float with n's bits, in the model's
\* unit truncated toward zero.  An all-ones exponent with a fraction is
\* NaN; -inf and every negative value are below the range (-0.0 is 0);
\* values under 1.024 V are 0; +inf and values of 8 V and more are above
\* the range (MAX_VOLTAGE + 1).  The fraction is kept to 10 bits.
FloatOfBits(n) ==
  LET low == IF n < 0 THEN (n + 2^30) + 2^30 ELSE n   \* bits 0..30
      e   == low \div 2^23
      m   == low % 2^23
  IN IF e = 255 /\ m # 0 THEN NaN
     ELSE IF n < 0 THEN (IF low = 0 THEN 0 ELSE -1)
     ELSE IF e < 127 THEN 0
     ELSE IF e < 130 THEN (((2^23 + m) \div 2^13) * 2^(e - 127) * 1000) \div 2^20
     ELSE MAX_VOLTAGE + 1

\* What a client asks for with the number n of volts: n / 1.024 units.
Units(n) == IF n < 0 THEN -1 ELSE (n * 1000) \div 1024

Zero3 == <<0, 0, 0>>

\* struct attenuator: the two coefficient arrays and the last voltage,
\* which attenuator_set keeps within the DAC range.
Attenuator == [db2volt : Seq(Int), volt2db : Seq(Int), voltage : 0..MAX_VOLTAGE \cup {NaN}]

\* attenuator_init on the zero-initialised global attenuators[].
AttenuatorInit == [db2volt |-> Zero3, volt2db |-> Zero3, voltage |-> 0]

\* attenuator_get: the stored voltage, or its volt->dB polynomial.
AttenuatorGet(a, raw) == IF raw THEN a.voltage ELSE Poly(a.volt2db, a.voltage)

\* What the JSON descriptors of atten_setting_set read from a body: the
\* "value" number decoded into the float field of json_value_float.
ValueOf(b) == IF b # NONE /\ "value" \in DOMAIN b THEN FloatOfBits(b.value) ELSE 0
CoeffsOK(b) ==
  b # NONE /\ "db2volt" \in DOMAIN b /\ Len(b.db2volt) = 3 /\ Len(b.volt2db) = 3

DacOutcomes == IF DacCanFail THEN BOOLEAN ELSE {TRUE}

-----------------------------------------------------------------------------
VARIABLES
  atten,   \* attenuators[]: coefficients and drv->voltage per index
  dac,     \* the code last written to each DAC channel, NONE if none
  reply    \* the result of the last handler, with its request

vars == <<atten, dac, reply>>

Channels == 0..(NUM_ATTENUATORS - 1)

Reply(op, dev, s, body, res, val) ==
  [op |-> op, dev |-> dev, setting |-> s, body |-> body, res |-> res, val |-> val]

Init ==
  /\ atten = [i \in Channels |-> AttenuatorInit]
  /\ dac = [i \in Channels |-> NONE]
  /\ reply = NONE

\* attenuator_set on attenuators[i], whose contents are a (the handler may
\* have replaced its coefficients just before): compute and clamp the
\* voltage, commit it to drv->voltage, then ready-check, set up and write
\* the DAC; ok is whether those three calls all succeed.
AttenuatorSet(i, a, value, raw, ok) ==
  LET v == Clamp(IF raw THEN value ELSE Poly(a.db2volt, value))
  IN /\ atten' = [atten EXCEPT ![i] = [a EXCEPT !.voltage = v]]
     /\ \E c \in DacCodes(v) :
          dac' = [dac EXCEPT ![i] = IF ok /\ c # NONE THEN c ELSE @]

-----------------------------------------------------------------------------
(* The handlers.  strcasecmp(x, y) is non-zero, i.e. true, when x and y   *)
(* differ; the tests below are written as the code writes them.           *)

\* atten_setting_get: the coefficients when the setting is NOT "coeff",
\* otherwise voltage and dB ("Invalid setting" is unreachable).
AttenSettingGet(dev, s) ==
  LET i == GetLaserChannel(SubSeq(dev, 6, Len(dev))) IN
  /\ reply' =
       IF ~KeyPairOK(dev, s) THEN Reply("atten_get", dev, s, NONE, "parse_error", NONE)
       ELSE IF i = LASER_UNKNOWN THEN Reply("atten_get", dev, s, NONE, "invalid_attenuator", NONE)
       ELSE IF s # "coeff"
            THEN Reply("atten_get", dev, s, NONE, "ok",
                       [db2volt |-> atten[i].db2volt, volt2db |-> atten[i].volt2db])
       ELSE IF s # "value" \/ s # "valuedb"
            THEN Reply("atten_get", dev, s, NONE, "ok",
                       [voltage |-> AttenuatorGet(atten[i], TRUE), db |-> AttenuatorGet(atten[i], FALSE)])
       ELSE Reply("atten_get", dev, s, NONE, "invalid_setting", NONE)
  /\ UNCHANGED <<atten, dac>>

\* atten_setting_set: the coefficient branch when the setting is NOT
\* "coeff" (keep the present dB level under the new calibration), the raw
\* value branch when it is NOT "value"; the valuedb branch and "Invalid
\* setting" are unreachable.  The result of attenuator_set is dropped.
AttenSettingSet(dev, s, b) ==
  LET i == GetLaserChannel(SubSeq(dev, 6, Len(dev)))
      Done(res) == reply' = Reply("atten_set", dev, s, b, res, NONE)
  IN \/ ~KeyPairOK(dev, s) /\ Done("parse_error") /\ UNCHANGED <<atten, dac>>
     \/ KeyPairOK(dev, s) /\ i = LASER_UNKNOWN /\ Done("invalid_attenuator") /\ UNCHANGED <<atten, dac>>
     \/ /\ KeyPairOK(dev, s) /\ i # LASER_UNKNOWN /\ s # "coeff"
        /\ IF ~CoeffsOK(b) THEN Done("improper_arguments") /\ UNCHANGED <<atten, dac>>
           ELSE /\ \E ok \in DacOutcomes :
                     AttenuatorSet(i, [atten[i] EXCEPT !.db2volt = b.db2volt, !.volt2db = b.volt2db],
                                   AttenuatorGet(atten[i], FALSE), FALSE, ok)
                /\ Done("ok")
     \/ /\ KeyPairOK(dev, s) /\ i # LASER_UNKNOWN /\ s = "coeff"
        /\ IF b = NONE THEN Done("json_error") /\ UNCHANGED <<atten, dac>>
           ELSE /\ \E ok \in DacOutcomes : AttenuatorSet(i, atten[i], ValueOf(b), TRUE, ok)
                /\ Done("ok")

Next ==
  \/ \E d \in Devices, s \in Settings : AttenSettingGet(d, s)
  \/ \E d \in Devices, s \in Settings, b \in Bodies : AttenSettingSet(d, s, b)

Spec == Init /\ [][Next]_vars

-----------------------------------------------------------------------------
(* Properties.                                                             *)

\* The type invariant: drv->voltage is NaN or within the clamp's range,
\* and a DAC channel holds a 12-bit code once written.
TypeOK ==
  /\ atten \in [Channels -> Attenuator]
  /\ dac \in [Channels -> 0..DAC_MAX_CODE \cup {NONE}]

\* A set answered OK did what its key names, and the attenuator drives
\* what it then reports: "coeff" installs the body's calibration, "value"
\* the number of volts sent (clamped), "valuedb" the calibrated voltage
\* of the dB value sent, and the DAC channel carries the code of
\* drv->voltage.  atten_setting_set answers OK whatever attenuator_set
\* returned, after a body decoded by json_obj_parse.
AttenSetHonoured ==
  reply # NONE /\ reply.op = "atten_set" /\ reply.res = "ok"
    => LET i == GetLaserChannel(SubSeq(reply.dev, 6, Len(reply.dev)))
           a == atten[i]
           b == reply.body
           sent == IF "value" \in DOMAIN b THEN Units(b.value) ELSE 0
       IN /\ a.voltage # NaN /\ dac[i] = Code(a.voltage)
          /\ CASE reply.setting = "coeff" -> "db2volt" \in DOMAIN b
                                             /\ a.db2volt = b.db2volt /\ a.volt2db = b.volt2db
               [] reply.setting = "value" -> a.voltage = Clamp(sent)
               [] reply.setting = "valuedb" -> a.voltage = Clamp(Poly(a.db2volt, sent))
               [] OTHER -> TRUE

=============================================================================
