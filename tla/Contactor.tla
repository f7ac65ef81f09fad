------------------------------ MODULE Contactor ------------------------------
(***************************************************************************)
(* What the precharge controller promises about AIR+, the contactor that   *)
(* joins the accumulator to the tractive system: it closes only after it   *)
(* was armed, and it is armed only by a pair of measurements that show the  *)
(* tractive system charged to the target share of the accumulator voltage. *)
(* It may open at any time.                                                *)
(***************************************************************************)
EXTENDS Naturals

CONSTANTS MaxVoltage, TargetPercent

VARIABLES phase,   \* "open", "armed" (still open) or "closed"
          acc, ts  \* the measured voltages

Volts == 0..MaxVoltage

Init == phase = "open" /\ acc \in Volts /\ ts \in Volts

\* A completed precharge; a reading of zero of the accumulator does not show
\* anything, and the code accepts it.
Charged(a, t) == IF a = 0 THEN t > 0 ELSE 100 * t >= TargetPercent * a

Arm   == phase = "open" /\ phase' = "armed" /\ Charged(acc', ts')
Close == phase = "armed" /\ phase' = "closed"
Open  == phase # "open" /\ phase' = "open"
Hold  == UNCHANGED phase

Next ==
    /\ acc' \in Volts /\ ts' \in Volts
    /\ Arm \/ Close \/ Open \/ Hold

Spec == Init /\ [][Next]_<<phase, acc, ts>>
=============================================================================
