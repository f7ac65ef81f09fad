---------------------------- MODULE MCWheelSpeed ----------------------------
(***************************************************************************)
(* WheelSpeed for TLC: a release of threadVCU every 2 ticks and of         *)
(* threadMain every 4; a sound of 4 ticks makes threadVCU miss two.        *)
(***************************************************************************)
EXTENDS WheelSpeed

MCPeriod == [vcu |-> 2, main |-> 4]
=============================================================================
