------------------------------- MODULE MCDrive -------------------------------
(***************************************************************************)
(* Drive for TLC. Two reports of the temperatures, with the motor or the   *)
(* inverter hot and one value below zero, can follow each other between    *)
(* any two steps. On the bus that is read first a behaviour has one other  *)
(* kind of frame: a packet of the inverter with values of either sign, the *)
(* report of the PCC, or the battery at 60 degrees. The data of the frames *)
(* is written out in the byte order of its sender.                         *)
(***************************************************************************)
EXTENDS Drive

MCFrame ==
     "motorHot" :>
     [id |-> 8769, data |-> <<255, 206, 3, 82, 255, 0, 0, 0>>,
      says |-> [controllerTemp |-> -50, motorTemp |-> 850, faultCode |-> 255]]
  @@ "inverterHot" :>
     [id |-> 8769, data |-> <<3, 232, 0, 250, 0, 0, 0, 0>>,
      says |-> [controllerTemp |-> 1000, motorTemp |-> 250, faultCode |-> 0]]
  @@ "packet1" :>
     [id |-> 8001, data |-> <<2, 254, 212, 14, 15, 1, 0, 0>>,
      says |-> [controlMode |-> 2, targetLq |-> -300,
              motorPosition |-> 3599, isMotorStill |-> 1]]
  @@ "packet2" :>
     [id |-> 8257, data |-> <<255, 254, 238, 144, 255, 255, 1, 144>>,
      says |-> [eRPM |-> -70000, dutyCycle |-> -1, inputVoltage |-> 400]]
  @@ "packet3" :>
     [id |-> 8513, data |-> <<250, 255, 2, 88, 0, 0, 0, 0>>,
      says |-> [acCurrent |-> -1281, dcCurrent |-> 600]]
  @@ "packet5" :>
     [id |-> 9025, data |-> <<255, 254, 238, 144, 1, 2, 3, 4>>,
      says |-> [focLd |-> -70000, focLq |-> 16909060]]
  @@ "packet6" :>
     [id |-> 9281, data |-> <<100, 255, 129, 1, 2, 4, 0, 0>>,
      says |-> [throttleInput |-> 100, brakeInput |-> -1, digital |-> 129,
              driveEnabled |-> 1, limits |-> 2, limits2 |-> 4]]
  @@ "packet7" :>
     [id |-> 9537, data |-> <<5, 220, 3, 132, 255, 56, 255, 236>>,
      says |-> [maxAC_Current |-> 1500, avMaxAC_Current |-> 900,
              minAC_Current |-> -200, avMinAC_Current |-> -20]]
  @@ "packet8" :>
     [id |-> 9793, data |-> <<2, 88, 1, 104, 255, 236, 255, 254>>,
      says |-> [maxDC_Current |-> 600, avMaxDC_Current |-> 360,
              minDC_Current |-> -20, avMinDC_Current |-> -2]]
  @@ "battery" :>
     [id |-> 1713, data |-> <<44, 1, 20, 0, 60, 246, 0, 0>>,
      says |-> [dischargeLimit |-> 300, chargeLimit |-> 20, highTemp |-> 60, lowTemp |-> -10]]
  @@ "pcc" :>
     [id |-> 546, data |-> <<3, 0, 136, 19, 136, 19, 95, 0>>, says |-> <<>>]

MCSenders ==
    {[can2 |-> {"motorHot", "inverterHot"}, can3 |-> {other}] :
        other \in DOMAIN MCFrame \ {"motorHot", "inverterHot"}}

MCPedals == {"released", "full"}
MCTorqueMap == [p \in MCPedals |-> IF p = "full" THEN 800 ELSE 0]
=============================================================================
