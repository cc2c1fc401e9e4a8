---------------------------- MODULE MCAttenuators ----------------------------
(* Attenuator keys and bodies for TLC: two attenuators of the table,     *)
(* the unresolvable "atten9999x" and a name part too long for the key   *)
(* buffer; the three settings the spec names; the number -1, whose bits  *)
(* are a NaN float, and the integers carrying the bits of 5.0f and -1.0f *)
(* (above and below the DAC range); an offset calibration and a          *)
(* calibration with a short array.                                       *)
EXTENDS Attenuators

MCDevices == {"atten1028y", "atten1430yj", "atten9999x", "attenuator1028y"}
MCSettings == {"coeff", "value", "valuedb"}
MCBodies ==
  {NONE, [value |-> -1], [value |-> 1084227584], [value |-> -1082130432],
   [db2volt |-> <<1, 1, 0>>, volt2db |-> <<-1, 1, 0>>],
   [db2volt |-> <<0, 1>>, volt2db |-> <<0, 1, 0>>]}
=============================================================================
