---------------------------- MODULE LaserChannels ----------------------------
(***************************************************************************)
(* get_laser_channel and the laser_t enum of src/app/src/command.c, which *)
(* turn the name part of a "laser<name>/..." or "atten<name>/..." key into *)
(* a MAIMAN node id or an index of attenuators[].  Names are strings with *)
(* the case already folded (the code compares with strncasecmp).          *)
(***************************************************************************)
EXTENDS Integers, Sequences


LASER_1028_Y == 1
LASER_1270_J == 1
LASER_1430_YJ == 2
LASER_1430_HK == 3
LASER_1510_H == 4
LASER_2330_K == 5
LASER_UNKNOWN == 6

\* The tests of get_laser_channel, in the code's order (the fourth repeats
\* the third, so it is never the first match).
LaserNameTable ==
  << <<"1028y", LASER_1028_Y>>, <<"1270j", LASER_1270_J>>,
     <<"1430yj", LASER_1430_YJ>>, <<"1430yj", LASER_1430_HK>>,
     <<"1510h", LASER_1510_H>>, <<"2330k", LASER_2330_K>> >>

\* strncasecmp(a, b, n) == 0, with the case already folded.
StrNEq(a, b, n) ==
  SubSeq(a, 1, IF Len(a) < n THEN Len(a) ELSE n) = SubSeq(b, 1, IF Len(b) < n THEN Len(b) ELSE n)

\* Mutant: the names are compared on their first five characters only.
GetLaserChannelPrefix(name) ==
  LET hits == {i \in DOMAIN LaserNameTable : StrNEq(name, LaserNameTable[i][1], 5)}
  IN IF hits = {} THEN LASER_UNKNOWN
     ELSE LaserNameTable[CHOOSE i \in hits : \A j \in hits : i <= j][2]

GetLaserChannel(name) ==
  LET hits == {i \in DOMAIN LaserNameTable : StrNEq(name, LaserNameTable[i][1], 7)}
  IN IF hits = {} THEN LASER_UNKNOWN
     ELSE LaserNameTable[CHOOSE i \in hits : \A j \in hits : i <= j][2]

\* get_laser_channel(laser_name + 5).  For a name of fewer than 5
\* characters the pointer lands past the terminator on uninitialised stack
\* bytes, and any result of get_laser_channel is possible.
ChannelsOf(dev) ==
  IF Len(dev) >= 5 THEN {GetLaserChannel(SubSeq(dev, 6, Len(dev)))}
  ELSE {LASER_1028_Y, LASER_1430_YJ, LASER_1430_HK, LASER_1510_H, LASER_2330_K, LASER_UNKNOWN}

=============================================================================
