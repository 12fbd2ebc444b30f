-------------------------- MODULE MCDeviceRegistry --------------------------
(***************************************************************************)
(* Constants of DeviceRegistry for TLC: 0 is a CAN id but no RS485 id.     *)
(***************************************************************************)
EXTENDS DeviceRegistry

MCIds == 0..2
MCReadings == 1..2
=============================================================================
