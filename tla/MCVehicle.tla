------------------------------ MODULE MCVehicle ------------------------------
(***************************************************************************)
(* Vehicle for TLC. An age matters as within the timeout, beyond it, and,  *)
(* for the CAN bus, as "stamped after the cycle took its tick": timeouts   *)
(* of less than one tick and one tick of preemption tell these apart.      *)
(*                                                                         *)
(* The liveness runs let the environment present the readings that start a *)
(* drive and those that fault, and leave out the frames of the PCC, which  *)
(* the build discards, and the plausibility bit, which the others stand    *)
(* for.                                                                    *)
(***************************************************************************)
EXTENDS Vehicle

MCCanTimeout    == 0
MCBseTimeout    == 0
MCMaxPreempted  == 1

AllPedals        == Throttles
AllBrakeReadings == Brakes
AllIncoming      == Frames

LivePedals        == {"released", "splitLight"}
LiveBrakeReadings == {{}, {"healthy", "pressed"}}
LiveIncoming      == {"none", "inverter"}
=============================================================================
