-------------------------------- MODULE MCDaq --------------------------------
(***************************************************************************)
(* Daq for TLC: the configurations give two of the four workers as model   *)
(* values, and sizes small enough for every queue to be full, a batch to   *)
(* be smaller than the channel and a worker to fail more than once before  *)
(* it reconnects. The records are those of a controller built with either  *)
(* size of an enum, and one in the logger's own layout.                    *)
(***************************************************************************)
EXTENDS Daq

MCRecords ==
    { [sender |-> "ccm", state |-> "PRECHARGING", faults |-> {"OVER_TEMP"},
       fill |-> 1, enumSize |-> 1],
      [sender |-> "ccm", state |-> "PRECHARGING", faults |-> {"OVER_TEMP"},
       fill |-> 1, enumSize |-> 4],
      [sender |-> "logger", state |-> "DRIVING", faults |-> {"APPS", "LOW_BATTERY_VOLTAGE"},
       fill |-> 200, warning |-> 3] }
=============================================================================
