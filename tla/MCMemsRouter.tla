---------------------------- MODULE MCMemsRouter ----------------------------
(* The router of one side of the fabric (the yj and hk halves share no     *)
(* switch and have mirrored tables, so one half shows every case).         *)
EXTENDS MemsRouter

MCSides == {"yj"}
MCBadState == "X"
MCUnknownName == "no_such_switch"
MCUnknownPort == "no_port"
=============================================================================
