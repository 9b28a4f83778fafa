---------------------------- MODULE MCBusService ----------------------------
(* BusService for TLC: SetDebug with one and with two pairs, or with none  *)
(* that could be read.                                                     *)
EXTENDS BusService

MCResults == {<<>>, <<TRUE>>, <<FALSE>>, <<FALSE, TRUE>>, <<TRUE, FALSE>>}
=============================================================================
