------------------------------- MODULE MCUplink -------------------------------
(***************************************************************************)
(* Constants of Uplink for TLC.  Periods, batch sizes and capacities are   *)
(* scaled down: the two periods keep their greatest common divisor of 1.   *)
(***************************************************************************)
EXTENDS Uplink

MCCapacity == [b \in Boxes |-> 1]
=============================================================================
