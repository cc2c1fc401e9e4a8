------------------------------- MODULE MCLasers -------------------------------
(* Laser keys for TLC.  Two lasers on distinct drivers, the spec's        *)
(* unresolvable "laser9999x", a name one character longer than a table    *)
(* name, and the enum's 1430hk, which no name reaches.  CURRENT is a      *)
(* settable register; CURRENT_MEASURED is a real register name too long   *)
(* for the key buffer; "BOGUS" is no register.                           *)
EXTENDS Lasers

MCDevices == {"laser1028y", "laser1430yj", "laser9999x", "laser1028yz", "laser1430hk"}
MCDevicesAliased == {"laser1028y", "laser1270j"}
MCSettings == {"CURRENT", "CURRENT_MEASURED", "BOGUS"}
\* -1 is stored as 65535 and printed back by %hd as -1.
MCValues == {-1, 0}
=============================================================================
