------------------------------ MODULE MCWatchdog ------------------------------
(***************************************************************************)
(* Watchdog for TLC. One tick is 50 ms: the check, the threshold and the   *)
(* period of threadMain are 2 ticks, the periods of the other threads are  *)
(* rounded up to one. The hardware timeout of 1 s and the sound of 3 s are *)
(* scaled to 5 and 15 ticks, which keeps their order.                      *)
(***************************************************************************)
EXTENDS Watchdog

MCThreads == {"ADC", "CAN", "MAIN", "VCU"}
MCVcuThread == "VCU"
MCPeriod == [t \in MCThreads |-> IF t = "MAIN" THEN 2 ELSE 1]
MCThreshold == 2
MCCheckPeriod == 2
MCHardwareTimeout == 5
MCSoundTime == 15
MCMayHang == {"CAN", "MAIN"}
Nobody == {}
===============================================================================
