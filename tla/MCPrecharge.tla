----------------------------- MODULE MCPrecharge -----------------------------
(***************************************************************************)
(* Precharge for TLC. One tick is 10 ms, the period of the task; the pulse *)
(* measurements delay a cycle by up to 8 ms, so two cycles are 2 to 18 ms  *)
(* apart, which is rounded to 1 or 2 ticks. The hysteresis of 20 ms is 2   *)
(* ticks. A nonzero minimum time below the shortest gap acts as 1 tick.    *)
(* The charger timeout of 1500 ms is scaled down to 3 ticks, still longer  *)
(* than the longest gap. Voltages: 0, a reading below the minimum, and the *)
(* minimum.                                                                *)
(***************************************************************************)
EXTENDS Precharge

MCMaxVoltage    == 2
MCMinAccVoltage == 2
MCTargetPercent == 90
MCHysteresis    == 2
MCMinTime       == 1
MCBmsTimeout    == 3
MCMinGap        == 1
MCMaxGap        == 2

\* The liveness runs: no jitter, and a charger timeout of 2 ticks.
LiveBmsTimeout  == 2
LiveMaxGap      == 1
=============================================================================
