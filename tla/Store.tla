-------------------------------- MODULE Store --------------------------------
(***************************************************************************)
(* What the data logger promises of the readings: it takes them in the     *)
(* order they arrived in, though it need not take every one, and each one  *)
(* that it took is written once or lost, and never both. The readings of a *)
(* batch share their fate.                                                 *)
(***************************************************************************)
EXTENDS Naturals

CONSTANT Readings

VARIABLES pending,  \* taken, and neither written nor lost
          written,
          lost

vars == <<pending, written, lost>>

Init == pending = {} /\ written = {} /\ lost = {}

\* A reading behind all that were taken or refused before.
Latest(n) == \A m \in pending \cup written \cup lost : m < n

Take(n) ==
    /\ Latest(n)
    /\ pending' = pending \cup {n}
    /\ UNCHANGED <<written, lost>>

\* There is no room for a reading.
Refuse(n) ==
    /\ Latest(n)
    /\ lost' = lost \cup {n}
    /\ UNCHANGED <<pending, written>>

Write(batch) ==
    /\ written' = written \cup batch
    /\ pending' = pending \ batch
    /\ UNCHANGED lost

Lose(batch) ==
    /\ lost' = lost \cup batch
    /\ pending' = pending \ batch
    /\ UNCHANGED written

Next == \/ \E n \in Readings : Take(n) \/ Refuse(n)
        \/ \E batch \in SUBSET pending : Write(batch) \/ Lose(batch)

Spec == Init /\ [][Next]_vars
=============================================================================
