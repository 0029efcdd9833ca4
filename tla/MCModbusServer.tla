--------------------------- MODULE MCModbusServer ---------------------------
(***************************************************************************)
(* Instances of ModbusServer for TLC: two clients and two control points.  *)
(***************************************************************************)
EXTENDS ModbusServer

CONSTANTS first, second

MCClients == {first, second}
MCOnePoint == <<"speed_setpoint">>
MCOrder == <<"mode", "speed_setpoint">>
=============================================================================
