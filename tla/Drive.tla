-------------------------------- MODULE Drive --------------------------------
(***************************************************************************)
(* The path of the torque command through the vehicle controller: frames   *)
(* wait in the FIFOs of two CAN controllers, threadBus takes one a cycle   *)
(* and stores its values, and threadVCU, which threadBus preempts at will, *)
(* reads three temperatures of them one after another, derates limits and  *)
(* torque by the smallest factor, and sends them to the inverter.          *)
(*                                                                         *)
(* Which state of the vehicle follows which, and when, is the business of  *)
(* the module Vehicle, as is the ageing of the bus in threadBus; here any  *)
(* cycle may take any of the transitions.                                  *)
(***************************************************************************)
EXTENDS Frames

CONSTANTS FifoSize,  \* frames a controller holds
          Frame,     \* the frames that may be sent, by name
          Senders,   \* which of them are sent on each bus: a behaviour has one of these
          Pedals,    \* positions of the pedal
          TorqueMap  \* the target torque of each, in tenths of a newton metre

Buses == {"can2", "can3"}

Temperatures == {"motorTemp", "controllerTemp"}
Signed16 == {v \in Int : -32768 <= v /\ v <= 32767}

ASSUME DriveAssumption ==
    /\ FifoSize \in Nat \ {0}
    /\ Senders \subseteq [Buses -> SUBSET DOMAIN Frame]
    /\ TorqueMap \in [Pedals -> 0..800]  \* CAPPED_MOTOR_TORQUE

VARIABLES
  sends,         \* for each bus, the names of the frames that are sent on it
  fifo,          \* for each bus, the frames received and not read
  record,        \* dtiData, dtiExtra, bmsData and imdData, by packet
  vehicleState,  \* VehicleState
  step,          \* where threadVCU is in its cycle
  targetTorque,  \* its local variables: the torque of this cycle's pedal,
  factor,        \* and the smallest factor so far, in thousandths
  coolest,       \* history: the lowest values of the temperatures in this cycle
  meant,         \* history: the values last given to the DTI_ functions
  inverter       \* the commands the inverter heard last

envVars == <<sends, fifo>>
localVars == <<targetTorque, factor>>
commandVars == <<meant, inverter>>
vars == <<envVars, record, vehicleState, step, localVars, coolest, commandVars>>

Held == [sensor \in Temperatures |-> record[34][sensor]]

FifosOK ==
    /\ fifo \in [Buses -> Seq(DOMAIN Frame)]
    /\ \A bus \in Buses : fifo[bus] \in Seq(sends[bus]) /\ Len(fifo[bus]) <= FifoSize

RecordsOK ==
    /\ DOMAIN record = DOMAIN Packets
    /\ \A key \in DOMAIN Packets :
          /\ DOMAIN record[key] = Names(Packets[key])
          /\ \A field \in Packets[key] : record[key][field.name] \in Values(field)

TypeOK ==
    /\ sends \in Senders
    /\ FifosOK
    /\ RecordsOK
    /\ vehicleState \in {"PRECHARGING", "IDLE", "DRIVING", "FAULT"}
    /\ step \in {"start", "act", "motor", "inverter", "send"}
    /\ targetTorque \in 0..800
    /\ factor \in 200..1000
    /\ coolest \in [Temperatures -> Signed16]
    /\ meant \in [Commands -> Signed16]
    /\ inverter \in [Commands -> Signed16]

\* The *_Init functions called by setup(); the inverter has not heard a command.
Init ==
    /\ sends \in Senders
    /\ fifo = [bus \in Buses |-> <<>>]
    /\ record = Initially
    /\ vehicleState = "PRECHARGING"
    /\ step = "start"
    /\ targetTorque = 0
    /\ factor = 1000
    /\ coolest = [sensor \in Temperatures |-> 0]
    /\ meant = [command \in Commands |-> 0]
    /\ inverter = [command \in Commands |-> 0]

-----------------------------------------------------------------------------
(* The buses and threadBus *)

\* A frame is sent. A controller that is full loses it, and nothing changes.
Arrive(bus, name) ==
    /\ name \in sends[bus]
    /\ Len(fifo[bus]) < FifoSize
    /\ fifo' = [fifo EXCEPT ![bus] = Append(@, name)]
    /\ UNCHANGED <<sends, record, vehicleState, step, localVars, coolest, commandVars>>

\* Mutant of Served: the second bus is never read.
ServedFirst == "can3"

\* can3.read(rx_msg) || can2.read(rx_msg): the second bus is read when the first has
\* no frame.
Served == IF fifo["can3"] # <<>> THEN "can3" ELSE "can2"

\* switch (rx_id >> 8)
DispatchKey(name) == Frame[name].id \div 256

\* What the case of a frame stores, if it has one: the values of one packet.
Stored ==
    [name \in DOMAIN Frame |->
       [key \in {DispatchKey(name)} \cap DOMAIN Packets |-> Decode(key, Frame[name].data)]]

\* Frames have eight bytes. They come from the inverter, or have an identifier of another
\* sender.
ASSUME FrameAssumption ==
    \A name \in DOMAIN Frame :
        /\ Frame[name].data \in Seq(Byte) /\ Len(Frame[name].data) = 8
        /\ Frame[name].id \notin OtherIds
             => \E key \in DOMAIN InverterPackets : OfInverter(Frame[name], key)

Min2(a, b) == IF a < b THEN a ELSE b

\* A cycle of threadBus that finds a frame: its case, if it has one, stores the values
\* in a critical section. Without a frame nothing changes.
BusCycle ==
    /\ fifo[Served] # <<>>
    /\ fifo' = [fifo EXCEPT ![Served] = Tail(@)]
    /\ record' = Over(Stored[Head(fifo[Served])], record)
    /\ coolest' = IF step = "start" THEN coolest
                  ELSE [sensor \in Temperatures |-> Min2(coolest[sensor], Held[sensor]')]
    /\ UNCHANGED <<sends, vehicleState, step, localVars, commandVars>>

-----------------------------------------------------------------------------
(* threadVCU *)

\* Messages to the inverter, which hears them in their order.
Send(values) ==
    /\ meant' = [c \in Commands |-> IF c \in DOMAIN values THEN values[c] ELSE meant[c]]
    /\ inverter' = [c \in Commands |-> IF c \in DOMAIN values THEN Heard(c, CAN_Send(c, values[c]))
                                       ELSE inverter[c]]

\* DTI_SendEnableCommand, DTI_SetDCLimits, DTI_SetACLimits and DTI_SendAccelCommand (the
\* control mode is TORQUE): the numbers they are given, times ten.
Enable(b) == [c \in {SetDriveEnable} |-> IF b THEN 1 ELSE 0]
Limits(permille) ==
    [c \in {SetMaxCurrentDC, SetMaxBrakeCurrentDC, SetMaxCurrentAC, SetMaxBrakeCurrentAC} |->
       CASE c = SetMaxCurrentDC      -> (600 * permille) \div 1000
         [] c = SetMaxBrakeCurrentDC -> -20
         [] c = SetMaxCurrentAC      -> (1500 * permille) \div 1000
         [] c = SetMaxBrakeCurrentAC -> -200]
Accel(permille) == [c \in {SetRelativeCurrent} |-> (targetTorque * permille) \div 1000]

\* Mutant of VCU_Derate: the temperature is not limited to the range.
VCU_DerateOpen(tenths) == 1000 - (800 * (tenths - 700)) \div 300

\* The factor of a temperature, in thousandths: all at 70 degrees, 0.2 at 100.
VCU_Derate(tenths) ==
    LET t == IF tenths < 700 THEN 700 ELSE Min2(tenths, 1000)
    IN 1000 - (800 * (t - 700)) \div 300

\* The pedal is sampled, and Faults_HandleFaults finds a fault or none.
CycleStarts(pedal) ==
    /\ step = "start"
    /\ step' = "act"
    /\ targetTorque' = TorqueMap[pedal]
    /\ vehicleState' \in {vehicleState, "FAULT"}
    /\ coolest' = Held
    /\ UNCHANGED <<envVars, record, factor, commandVars>>

\* The cycle ends.
CycleEnds ==
    /\ step' = "start"
    /\ targetTorque' = 0 /\ factor' = 1000  \* they are dead until the next cycle sets them

\* case STATE_PRECHARGING
Precharging ==
    /\ step = "act" /\ vehicleState = "PRECHARGING"
    /\ Send(Over(Enable(FALSE), Limits(1000)))
    /\ vehicleState' \in {"PRECHARGING", "IDLE"}
    /\ CycleEnds
    /\ UNCHANGED <<envVars, record, coolest>>

\* case STATE_IDLE, with or without a start
Idle ==
    /\ step = "act" /\ vehicleState = "IDLE"
    /\ Send(Enable(FALSE))
    /\ vehicleState' \in {"IDLE", "DRIVING"}
    /\ CycleEnds
    /\ UNCHANGED <<envVars, record, coolest>>

\* case STATE_FAULT: nothing is sent.
Fault ==
    /\ step = "act" /\ vehicleState = "FAULT"
    /\ vehicleState' \in {"FAULT", "DRIVING"}
    /\ CycleEnds
    /\ UNCHANGED <<envVars, record, coolest, commandVars>>

\* case STATE_DRIVING without a request: back to IDLE without a command.
DriveEnds ==
    /\ step = "act" /\ vehicleState = "DRIVING"
    /\ vehicleState' = "IDLE"
    /\ CycleEnds
    /\ UNCHANGED <<envVars, record, coolest, commandVars>>

\* case STATE_DRIVING: the motor is enabled, and the battery's factor is the first.
ReadBattery ==
    /\ step = "act" /\ vehicleState = "DRIVING"
    /\ step' = "motor"
    /\ Send(Enable(TRUE))
    /\ factor' = VCU_Derate(10 * record[OBMS2]["highTemp"])
    /\ UNCHANGED <<envVars, record, vehicleState, targetTorque, coolest>>

ReadMotor ==
    /\ step = "motor"
    /\ step' = "inverter"
    /\ factor' = Min2(factor, VCU_Derate(Held["motorTemp"]))
    /\ UNCHANGED <<envVars, record, vehicleState, targetTorque, coolest, commandVars>>

\* Mutant of ReadInverter: the last factor is taken, not the smallest.
ReadInverterOnly ==
    /\ step = "inverter"
    /\ step' = "send"
    /\ factor' = VCU_Derate(Held["controllerTemp"])
    /\ UNCHANGED <<envVars, record, vehicleState, targetTorque, coolest, commandVars>>

ReadInverter ==
    /\ step = "inverter"
    /\ step' = "send"
    /\ factor' = Min2(factor, VCU_Derate(Held["controllerTemp"]))
    /\ UNCHANGED <<envVars, record, vehicleState, targetTorque, coolest, commandVars>>

\* Limits and torque are scaled by one factor. enableRegen is never set: no brake command.
SendCommands ==
    /\ step = "send"
    /\ Send(Over(Limits(factor), Accel(factor)))
    /\ CycleEnds
    /\ UNCHANGED <<envVars, record, vehicleState, coolest>>

Vcu == \/ \E pedal \in Pedals : CycleStarts(pedal)
       \/ Precharging \/ Idle \/ Fault \/ DriveEnds
       \/ ReadBattery \/ ReadMotor \/ ReadInverter \/ SendCommands

Next == \/ \E bus \in Buses : \E name \in sends[bus] : Arrive(bus, name)
        \/ BusCycle \/ Vcu

Spec == Init /\ [][Next]_vars

\* Both threads are released again and again, and blocked by higher ones for bounded times.
Fairness == WF_vars(BusCycle) /\ WF_vars(Vcu)

FairSpec == Spec /\ Fairness

-----------------------------------------------------------------------------
(* Safety *)

\* Each case of threadBus converts its fields one by one, big-endian ones of the inverter
\* and little-endian ones of the monitors: a record holds what one frame of its sender
\* said, values of either sign included, or what Bus_Init left there. No frame is taken
\* for one of another kind.
RecordedAsSent ==
    \A key \in DOMAIN Packets :
        \/ record[key] = Initially[key]
        \/ \E bus \in Buses : \E name \in sends[bus] :
              Frame[name].id \in Ids(key) /\ record[key] = Frame[name].says

\* The inverter hears the numbers the controller means, negative limits included.
HeardAsMeant == inverter = meant

\* The temperatures are read one after another, and a frame may come between any two: the
\* commands of a cycle are derated in full if the motor, or the inverter, was at 100
\* degrees throughout the cycle, and in part if it was above 70.
DeratedForEach ==
    [][ step = "send" /\ step' # "send" =>
          \A sensor \in Temperatures :
            /\ coolest[sensor] >= 1000 => /\ inverter'[SetMaxCurrentDC] <= 120
                                          /\ inverter'[SetMaxCurrentAC] <= 300
                                          /\ inverter'[SetRelativeCurrent] <= 160
            /\ coolest[sensor] > 700 => /\ inverter'[SetMaxCurrentDC] < 600
                                        /\ inverter'[SetMaxCurrentAC] < 1500
                                        /\ inverter'[SetRelativeCurrent] < 800 ]_vars

-----------------------------------------------------------------------------
(* Liveness *)

\* From some time on, the inverter reports only that it is at 100 degrees or more, again
\* and again.
ReportsHot ==
    /\ []<>(\E i \in DOMAIN fifo["can2"] : DispatchKey(fifo["can2"][i]) = 34)
    /\ <>[](\A i \in DOMAIN fifo["can2"] :
              DispatchKey(fifo["can2"][i]) = 34 => Frame[fifo["can2"][i]].says["controllerTemp"] >= 1000)

\* A hot inverter is heard, behind all other frames, and derates a vehicle that goes on
\* driving: if the bus that is read first falls silent.
HotInverterDerates ==
    (ReportsHot /\ <>[](fifo["can3"] = <<>>) /\ []<>(step = "send"))
        => <>[](vehicleState = "DRIVING" => inverter[SetMaxCurrentDC] <= 120)
=============================================================================
