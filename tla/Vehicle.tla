------------------------------- MODULE Vehicle -------------------------------
(***************************************************************************)
(* The drive path of the vehicle controller (fsae-ccm): threadADC, which   *)
(* judges pedal and brake sensors, threadBus, which judges the CAN bus and *)
(* dispatches its frames, threadVCU, which runs the vehicle state machine, *)
(* and the bitmap of faults they share without a lock (vehicle/faults.cpp).*)
(*                                                                         *)
(* Priorities are fixed: ADC 8, Bus 6, VCU 4. A thread is preempted by     *)
(* higher ones only, so an ADC cycle is one step, the Bus cycle is split   *)
(* where an ADC cycle matters (after its tick is taken, and between load   *)
(* and store of its update of the bitmap), and the VCU runs its steps      *)
(* while the Bus is between two cycles. The hardware watchdog may reset    *)
(* the controller at any time.                                             *)
(*                                                                         *)
(* The open/short test of the pedal sensors can never fail in this build:  *)
(* APPS_UpdateData clamps both voltages into the range the test accepts.   *)
(* RTM_ButtonUpdate is exported and has no caller in this build; the model *)
(* lets the environment call it, and every behaviour of the build is one   *)
(* of the model in which it does not.                                      *)
(***************************************************************************)
EXTENDS Naturals

CONSTANTS CanTimeout,   \* CAN_FAULT_TIME_THRESHOLD_MS, in ticks
          BseTimeout,   \* BSE_FAULT_TIME_THRESHOLD_MS, in ticks
          MaxPreempted, \* most ticks threadBus loses to threadADC in a cycle
          Pedals,       \* the pedal readings, brake readings and frames that the
          BrakeReadings, \* environment may present
          Incoming

VARIABLES
  faultBitMap,      \* the set of bits of faultBitMap that are 1
  vehicleState,     \* VehicleState
  rtmState,         \* the latched ready-to-move request
  throttle,         \* class of APPS_GetAPPSReading()
  brake,            \* what is true of the brake readings held: pressed, hard
  sinceBseHealthy,  \* age of bseLatestHealthyStateTime
  busStep,          \* where threadBus is in its cycle
  loaded,           \* threadBus: the bitmap it has loaded, updated but not stored
  received,         \* threadBus: the frame in rx_id and rx_data
  sinceRun,         \* ticks since can_last_run_tick, while the cycle goes on
  sinceFrame,       \* age of canLatestHealthyStateTime
  pccComplete,      \* the PCC data held: state is 3 and progress at least 90
  vcuStep,          \* where threadVCU is in its cycle
  inverterEnabled,  \* the last enable command sent to the inverter
  lateCommands      \* history: enable commands sent since a fault bit is up

adcVars == <<throttle, brake, sinceBseHealthy>>
busVars == <<busStep, loaded, received, sinceRun, sinceFrame, pccComplete>>
vcuVars == <<vehicleState, vcuStep, inverterEnabled, lateCommands>>
vars == <<faultBitMap, rtmState, adcVars, busVars, vcuVars>>

\* The bits some code of the build can set.
Bits == {"APPS", "BSE", "PLAUSIBILITY", "CAN"}

VehicleStates == {"PRECHARGING", "IDLE", "DRIVING", "FAULT"}

\* The mean of the two readings is below APPS_BSE_PLAUSIBILITY_RESET_THRESHOLD,
\* up to APPS_BSE_PLAUSABILITY_THROTTLE_THRESHOLD, or above it. Readings further
\* apart than APPS_IMPLAUSABILITY_THRESHOLD (20 %) have a mean of 10 % or more.
Throttles == {"released", "light", "deep", "splitLight", "splitDeep"}
Disagreeing == {"splitLight", "splitDeep"}
Deep == {"deep", "splitDeep"}

\* What can be said of the two brake readings: "healthy", both are in range;
\* "pressed", both reach BRAKE_LIGHT_THRESHOLD; "hard", one is above
\* APPS_BSE_PLAUSABILITY_BRAKE_THRESHOLD. A pressed reading out of range is
\* above the range, hence hard.
Brakes == {b \in SUBSET {"healthy", "pressed", "hard"} :
             "pressed" \in b => "healthy" \in b \/ "hard" \in b}

\* The frames that matter: none waiting, one of the inverter, and a PCC report.
Frames == {"none", "inverter", "pccOnline", "pccOther"}

\* Their identifiers on the bus: extended for the inverter (packet 0x20 of node
\* 0x41), standard for the PCC (0x222).
FrameId == [f \in Frames |-> CASE f = "none"     -> 0
                               [] f = "inverter" -> 32 * 256 + 65
                               [] OTHER          -> 546]

ASSUME VehicleAssumption ==
    /\ {CanTimeout, BseTimeout, MaxPreempted} \subseteq Nat
    /\ Pedals \subseteq Throttles
    /\ BrakeReadings \subseteq Brakes
    /\ Incoming \subseteq Frames

TypeOK ==
    /\ faultBitMap \subseteq Bits
    /\ vehicleState \in VehicleStates
    /\ rtmState \in BOOLEAN
    /\ throttle \in Throttles
    /\ brake \in SUBSET {"pressed", "hard"}
    /\ sinceBseHealthy \in 0..(BseTimeout + 1)
    /\ busStep \in {"idle", "started", "loaded"}
    /\ loaded \subseteq Bits
    /\ received \in Frames
    /\ sinceRun \in 0..MaxPreempted
    /\ sinceFrame \in 0..(CanTimeout + MaxPreempted + 1)
    /\ pccComplete \in BOOLEAN
    /\ vcuStep \in {"faults", "act", "speaker"}
    /\ inverterEnabled \in BOOLEAN
    /\ lateCommands \in Nat

\* The *_Init functions called by setup(). The tick count is 0.
Init ==
    /\ faultBitMap = {}
    /\ vehicleState = "PRECHARGING"
    /\ rtmState = FALSE
    /\ throttle = "released"
    /\ brake = {}
    /\ sinceBseHealthy = 0
    /\ busStep = "idle"
    /\ loaded = {}
    /\ received = "none"
    /\ sinceRun = 0
    /\ sinceFrame = 0
    /\ pccComplete = FALSE
    /\ vcuStep = "faults"
    /\ inverterEnabled = FALSE
    /\ lateCommands = 0

-----------------------------------------------------------------------------
(* The fault bitmap *)

\* Faults_SetFault and Faults_ClearFault on a loaded value of the bitmap.
WithFault(map, fault) == map \cup {fault}
WithoutFault(map, fault) == map \ {fault}

\* Bookkeeping of lateCommands, which the code does not have: it starts over when no bit is up.
CountLate(map, sent) ==
    lateCommands' = IF map = {} THEN 0 ELSE lateCommands + (IF sent THEN 1 ELSE 0)

-----------------------------------------------------------------------------
(* threadADC *)

\* Mutant of JudgeApps: readings that agree again do not clear the bit.
JudgeAppsLatched(map, t) == IF t \in Disagreeing THEN WithFault(map, "APPS") ELSE map

\* checkAndHandleAPPSFault: readings that disagree set the bit at once, and
\* agreeing ones clear it.
JudgeApps(map, t) ==
    IF t \in Disagreeing THEN WithFault(map, "APPS") ELSE WithoutFault(map, "APPS")

\* checkAndHandlePlausibilityFault: throttle and brake together set the bit; only
\* a released pedal clears it. The brake is the one of the previous cycle.
JudgePlausibility(map, t) ==
    IF t \in Deep /\ "hard" \in brake THEN WithFault(map, "PLAUSIBILITY")
    ELSE IF t = "released" THEN WithoutFault(map, "PLAUSIBILITY")
    ELSE map

\* BSE_UpdateData: a reading out of range is a fault after the timeout.
JudgeBse(map, b) ==
    IF "healthy" \in b THEN WithoutFault(map, "BSE")
    ELSE IF sinceBseHealthy > BseTimeout THEN WithFault(map, "BSE")
    ELSE map

\* One cycle of threadADC: the pedals, then the brakes.
AdcCycle(t, b) ==
    /\ throttle' = t
    /\ brake' = b \ {"healthy"}
    /\ faultBitMap' = JudgeBse(JudgePlausibility(JudgeApps(faultBitMap, t), t), b)
    /\ sinceBseHealthy' = IF "healthy" \in b THEN 0 ELSE sinceBseHealthy
    /\ CountLate(faultBitMap', FALSE)
    /\ UNCHANGED <<rtmState, busVars, vehicleState, vcuStep, inverterEnabled>>

-----------------------------------------------------------------------------
(* threadBus *)

\* Line 107: the tick of the cycle is taken.
BusStart ==
    /\ busStep = "idle"
    /\ busStep' = "started"
    /\ sinceRun' = 0
    /\ UNCHANGED <<faultBitMap, rtmState, adcVars, vcuVars, loaded, received,
                   sinceFrame, pccComplete>>

\* Mutant of CanExpired: the age is compared for equality.
CanExpiredOnce(f) == f = sinceRun + CanTimeout + 1

\* canAgeMs > CAN_FAULT_TIME_THRESHOLD_MS for a last frame of age f now:
\* can_last_run_tick - canLatestHealthyStateTime, unsigned, is huge when the
\* frame was stamped after the cycle took its tick.
CanExpired(f) == f < sinceRun \/ f - sinceRun > CanTimeout

\* CAN_Receive takes one frame at most and stamps it; the age is judged, and the
\* bitmap is loaded for Faults_SetFault or Faults_ClearFault.
BusReceive(frame) ==
    /\ busStep = "started"
    /\ busStep' = "loaded"
    /\ received' = frame
    /\ sinceFrame' = IF frame = "none" THEN sinceFrame ELSE 0
    /\ loaded' = IF CanExpired(sinceFrame') THEN WithFault(faultBitMap, "CAN")
                                            ELSE WithoutFault(faultBitMap, "CAN")
    /\ sinceRun' = 0
    /\ UNCHANGED <<faultBitMap, rtmState, adcVars, vcuVars, pccComplete>>

\* switch (rx_id >> 8): the key a frame is dispatched by.
DispatchKey(frame) == FrameId[frame] \div 256

\* PCC_PrechargeComplete of the report in a frame: state 3 and 90 % or more.
PCC_PrechargeComplete(frame) == frame = "pccOnline"

\* The bitmap is stored, and the frame is dispatched; case pcc_ID (0x222) takes
\* over a PCC report. The other cases copy a frame into a record of the inverter,
\* the battery or the isolation monitor, which torque, fan and telemetry read.
BusStore ==
    /\ busStep = "loaded"
    /\ busStep' = "idle"
    /\ faultBitMap' = loaded
    /\ pccComplete' = IF DispatchKey(received) = 546
                        THEN PCC_PrechargeComplete(received) ELSE pccComplete
    /\ CountLate(faultBitMap', FALSE)
    /\ loaded' = {}         \* both are dead until the next cycle sets them
    /\ received' = "none"
    /\ UNCHANGED <<rtmState, adcVars, vehicleState, vcuStep, inverterEnabled,
                   sinceRun, sinceFrame>>

-----------------------------------------------------------------------------
(* threadVCU. It runs while no thread of a higher priority does. *)

VcuRuns(step) == vcuStep = step /\ busStep = "idle"

DTI_SendEnableCommand(enable) == inverterEnabled' = enable

\* Mutant of HandleFaults: a fault is handled while driving only.
HandleFaultsDriving ==
    /\ VcuRuns("faults")
    /\ vehicleState' = IF faultBitMap # {} /\ vehicleState = "DRIVING"
                         THEN "FAULT" ELSE vehicleState
    /\ vcuStep' = "act"
    /\ UNCHANGED <<faultBitMap, rtmState, adcVars, busVars, inverterEnabled, lateCommands>>

\* Mutant of HandleFaults: one of the bits is forgotten.
HandleFaultsMasked ==
    /\ VcuRuns("faults")
    /\ vehicleState' = IF faultBitMap \ {"CAN"} # {} THEN "FAULT" ELSE vehicleState
    /\ vcuStep' = "act"
    /\ UNCHANGED <<faultBitMap, rtmState, adcVars, busVars, inverterEnabled, lateCommands>>

\* Faults_HandleFaults: any bit is a fault state, whatever the state was. The code
\* tests the bits one by one, on a word it loads once: no call and no volatile
\* access stands between the tests that fail.
HandleFaults ==
    /\ VcuRuns("faults")
    /\ vehicleState' = IF faultBitMap # {} THEN "FAULT" ELSE vehicleState
    /\ vcuStep' = "act"
    /\ UNCHANGED <<faultBitMap, rtmState, adcVars, busVars, inverterEnabled, lateCommands>>

\* The switch of threadVCU is entered in state s; afterwards the cycle ends.
Act(s) ==
    /\ VcuRuns("act")
    /\ vehicleState = s
    /\ UNCHANGED <<faultBitMap, adcVars, busVars>>

Precharging ==
    /\ Act("PRECHARGING")
    /\ DTI_SendEnableCommand(FALSE)
    /\ vehicleState' = IF pccComplete THEN "IDLE" ELSE "PRECHARGING"
    /\ vcuStep' = "faults"
    /\ UNCHANGED <<rtmState, lateCommands>>

BrakesPressed == "pressed" \in brake

\* Mutant of Idle: without brakes there is no command.
IdleWithBrakes ==
    /\ Act("IDLE")
    /\ ~(BrakesPressed /\ rtmState /\ faultBitMap = {})
    /\ IF BrakesPressed THEN DTI_SendEnableCommand(FALSE) ELSE UNCHANGED inverterEnabled
    /\ rtmState' = (rtmState /\ BrakesPressed)
    /\ vcuStep' = "faults"
    /\ UNCHANGED <<vehicleState, lateCommands>>

\* case STATE_IDLE without a start: a request without brakes is dropped.
Idle ==
    /\ Act("IDLE")
    /\ ~(BrakesPressed /\ rtmState /\ faultBitMap = {})
    /\ DTI_SendEnableCommand(FALSE)
    /\ rtmState' = (rtmState /\ BrakesPressed)
    /\ vcuStep' = "faults"
    /\ UNCHANGED <<vehicleState, lateCommands>>

\* Mutant of StartSpeaker: the disable command is not sent first.
StartSpeakerEnabled ==
    /\ Act("IDLE")
    /\ BrakesPressed /\ rtmState /\ faultBitMap = {}
    /\ vcuStep' = "speaker"
    /\ UNCHANGED <<vehicleState, rtmState, inverterEnabled, lateCommands>>

\* Mutant of StartSpeaker: the sound is left out.
StartSpeakerSilent ==
    /\ Act("IDLE")
    /\ BrakesPressed /\ rtmState /\ faultBitMap = {}
    /\ DTI_SendEnableCommand(FALSE)
    /\ vehicleState' = "DRIVING"
    /\ vcuStep' = "faults"
    /\ UNCHANGED <<rtmState, lateCommands>>

\* case STATE_IDLE with a start: Speaker_Play blocks the thread ...
StartSpeaker ==
    /\ Act("IDLE")
    /\ BrakesPressed /\ rtmState /\ faultBitMap = {}
    /\ DTI_SendEnableCommand(FALSE)
    /\ vcuStep' = "speaker"
    /\ UNCHANGED <<vehicleState, rtmState, lateCommands>>

\* ... and if it returns the vehicle drives. In this build it does not: the sound takes
\* 3 s, and the watchdog resets the controller after 1 s (module Watchdog, SoundCompletes).
\* The reset is the action Reset; what the safety properties say holds with a sound that
\* returns as well, and no fairness promises that it does.
SpeakerReturns ==
    /\ VcuRuns("speaker")
    /\ vehicleState' = "DRIVING"
    /\ vcuStep' = "faults"
    /\ UNCHANGED <<faultBitMap, rtmState, adcVars, busVars, inverterEnabled, lateCommands>>

\* case STATE_DRIVING: enable and torque commands, or back to IDLE without any.
Driving ==
    /\ Act("DRIVING")
    /\ IF rtmState
         THEN /\ DTI_SendEnableCommand(TRUE)
              /\ CountLate(faultBitMap, TRUE)
              /\ UNCHANGED vehicleState
         ELSE /\ vehicleState' = "IDLE"
              /\ UNCHANGED <<inverterEnabled, lateCommands>>
    /\ vcuStep' = "faults"
    /\ UNCHANGED rtmState

\* Mutant of AfterFault: a state of VehicleState the switch has no case for.
AfterFaultStandby == "STANDBY"

\* VCU_ClearFaultState: whatever the state was before the fault, the vehicle drives.
AfterFault == "DRIVING"

\* case STATE_FAULT: nothing is sent, and the state is left when all is clear.
Fault ==
    /\ Act("FAULT")
    /\ vehicleState' = IF faultBitMap = {} THEN AfterFault ELSE "FAULT"
    /\ vcuStep' = "faults"
    /\ UNCHANGED <<rtmState, inverterEnabled, lateCommands>>

\* The steps of threadVCU that do not block.
VcuCycle == HandleFaults \/ Precharging \/ Idle \/ StartSpeaker \/ Driving \/ Fault

Vcu == VcuCycle \/ SpeakerReturns

-----------------------------------------------------------------------------
(* Environment *)

\* The hardware watchdog resets the controller, and setup() runs again: everything is
\* forgotten but what the inverter was told last.
Reset ==
    /\ faultBitMap' = {}
    /\ vehicleState' = "PRECHARGING"
    /\ rtmState' = FALSE
    /\ throttle' = "released"
    /\ brake' = {}
    /\ sinceBseHealthy' = 0
    /\ busStep' = "idle"
    /\ loaded' = {}
    /\ received' = "none"
    /\ sinceRun' = 0
    /\ sinceFrame' = 0
    /\ pccComplete' = FALSE
    /\ vcuStep' = "faults"
    /\ lateCommands' = 0
    /\ UNCHANGED inverterEnabled

\* RTM_ButtonUpdate(1) beyond its debounce time.
ButtonUpdate ==
    /\ rtmState' = ~rtmState
    /\ UNCHANGED <<faultBitMap, adcVars, busVars, vcuVars>>

Grow(age, limit) == IF age > limit THEN age ELSE age + 1

\* The FreeRTOS tick.
Tick ==
    /\ busStep = "started" => sinceRun < MaxPreempted
    /\ sinceRun' = IF busStep = "started" THEN sinceRun + 1 ELSE sinceRun
    /\ sinceFrame' = Grow(sinceFrame, CanTimeout + MaxPreempted)
    /\ sinceBseHealthy' = Grow(sinceBseHealthy, BseTimeout)
    /\ UNCHANGED <<faultBitMap, rtmState, throttle, brake, vcuVars, busStep,
                   loaded, received, pccComplete>>

Adc == \E t \in Pedals, b \in BrakeReadings : AdcCycle(t, b)
Receive == \E frame \in Incoming : BusReceive(frame)

Next == Adc \/ BusStart \/ Receive \/ BusStore \/ Vcu \/ Reset \/ ButtonUpdate \/ Tick

Spec == Init /\ [][Next]_vars

\* The sound is over: it has been played, or the reset has cut it off.
SoundEnds == SpeakerReturns \/ (vcuStep = "speaker" /\ Reset)

\* threadBus is released every tick and only threads with bounded cycles preempt
\* it. threadVCU gets the processor again and again, while no Bus cycle is under
\* way, unless it waits for the sound, which ends one way or the other. An ADC cycle
\* falls between two Bus cycles again and again: both are released by the same tick,
\* and the ADC runs first.
Fairness ==
    /\ WF_vars(BusStart) /\ WF_vars(Receive) /\ WF_vars(BusStore)
    /\ SF_vars(Adc /\ busStep = "idle")
    /\ SF_vars(VcuCycle) /\ WF_vars(SoundEnds)
    /\ WF_vars(Tick)

FairSpec == Spec /\ Fairness

-----------------------------------------------------------------------------
(* Safety *)

\* Once a fault bit is up and until no bit is, the inverter is sent one enable
\* command at most, wherever in the VCU cycle the bit was raised, in whatever
\* state, and whatever bits come and go meanwhile.
OneLateCommand == lateCommands <= 1

\* While the ready-to-drive sound plays the inverter is disabled, also when the
\* vehicle fell back from DRIVING without a disable command (vcu.cpp:106).
SilentWhileSounding == vcuStep = "speaker" => vehicleState = "IDLE" /\ ~inverterEnabled

-----------------------------------------------------------------------------
(* Liveness *)

\* A sensor fault that lasts ends in FAULT for good: no lost update of the bitmap
\* and no state of the VCU keeps the vehicle out of it.
LastingSensorFault ==
    /\ <>[](throttle \in Disagreeing)         => <>[](vehicleState = "FAULT")
    /\ <>[](sinceBseHealthy > BseTimeout)     => <>[](vehicleState = "FAULT")

\* A CAN bus that stays silent ends in FAULT for good.
LastingSilence == <>[](sinceFrame > CanTimeout) => <>[](vehicleState = "FAULT")

\* A motor nobody asks for is stopped: once there is no request and no fault any more,
\* the inverter is disabled for good, also if it was enabled before a fault, which sends
\* no command, before a fall from DRIVING to IDLE, or before a reset of the controller.
NoRequestStops ==
    (<>[](faultBitMap = {} /\ ~rtmState) /\ <>[][~Reset]_vars) => <>[](~inverterEnabled)

\* From IDLE, brakes and a request that are held without a fault get the ready-to-drive
\* sound: neither the steps of the cycle nor the threads that preempt it make the vehicle
\* pass over the request, or drive without the sound. What the watchdog makes of the
\* sound is the subject of the module Watchdog.
StartIsAnswered ==
    (vehicleState = "IDLE" /\ [](BrakesPressed /\ rtmState /\ faultBitMap = {}))
        ~> vcuStep = "speaker"

\* A cycle of threadADC that finds pedal and brake sensors in order, and no throttle.
HealthyCycle == \E b \in BrakeReadings : "healthy" \in b /\ AdcCycle("released", b)

\* Sensors and CAN bus that are in order for good clear the bitmap for good, and the
\* vehicle leaves FAULT for good: an update of the bitmap that is lost may bring a bit
\* back, and never one that stays.
FaultsHeal ==
    (/\ <>[][Adc => HealthyCycle]_vars
     /\ <>[][Receive => ~CanExpired(sinceFrame')]_vars)
        => <>[](faultBitMap = {} /\ vehicleState # "FAULT")

-----------------------------------------------------------------------------
(* What the sources say and the program does not do *)

\* "Play Ready to Drive sound" (vehicle/vcu.cpp:96): a vehicle whose motor is
\* off gets to DRIVING as the sound ends.
DrivingStartsWithSound ==
    [][ vehicleState # "DRIVING" /\ vehicleState' = "DRIVING" /\ ~inverterEnabled
          => vcuStep = "speaker" ]_vars
=============================================================================
