------------------------------ MODULE Precharge ------------------------------
(***************************************************************************)
(* The precharge controller (fsae-pcc): the 10 ms task prechargeTask       *)
(* (src/fsae-pcc/src/precharge.cpp) that commands the AIR+ contactor       *)
(* through SHUTDOWN_CTRL_PIN, and the CAN task (src/fsae-pcc/src/can.cpp)  *)
(* that records the charger status frames of the battery management system.*)
(*                                                                         *)
(* prechargeTask has priority 8 and never blocks inside a cycle, canTask   *)
(* has priority 1: a precharge cycle is one step, while canTask may be     *)
(* preempted between the two unprotected stores of a status frame.         *)
(*                                                                         *)
(* Time passes in Tick. The code keeps time stamps and compares            *)
(* now - stamp with a bound; the model keeps the age now - stamp, which    *)
(* stops growing once no test and no property can tell a larger one apart. *)
(***************************************************************************)
EXTENDS Naturals

CONSTANTS MaxVoltage,     \* largest sampled voltage (bound of the model)
          MinAccVoltage,  \* PCC_MIN_ACC_VOLTAGE
          TargetPercent,  \* PCC_TARGET_PERCENT
          Hysteresis,     \* TIME_HYSTERESIS_MS, in ticks
          MinTime,        \* PCC_MIN_TIME_MS, in ticks
          BmsTimeout,     \* BMS_CAN_TIMEOUT_MS, in ticks
          MinGap, MaxGap  \* least and most ticks between two precharge cycles

\* The bounds are natural numbers and a cycle takes time. Nothing is assumed of
\* the ratio of the time constants.
ASSUME ConstantsAssumption ==
    /\ {MaxVoltage, MinAccVoltage, TargetPercent} \subseteq Nat
    /\ {Hysteresis, MinTime, BmsTimeout, MinGap, MaxGap} \subseteq Nat
    /\ 0 < MinAccVoltage
    /\ 0 < MinGap
    /\ MinGap <= MaxGap

VARIABLES
  state,              \* PrechargeState of the task
  lastState,          \* the state whose handler ran last, for entry actions
  errorCode,          \* the set of ERR_ bits raised since boot
  shutdownPin,        \* level driven on SHUTDOWN_CTRL_PIN: HIGH closes AIR+
  isSafeTemperature,  \* tempData.isSafeTemperature
  accVoltage,         \* filtered accumulator voltage
  tsVoltage,          \* filtered tractive system voltage
  progress,           \* class of pcData.prechargeProgress once cast to uint16_t
  sinceBelow,         \* age of precharge()'s lastTimeBelowThreshold
  sinceStart,         \* age of precharge()'s timePrechargeStart
  safetyActive,       \* chargerData.safetyActive
  sinceStatus,        \* age of chargerData.lastRxTime
  canStep,            \* where canTask is in the handling of a status frame
  sinceCycle          \* ticks since prechargeTask last ran

taskVars   == <<state, lastState, errorCode, shutdownPin, isSafeTemperature>>
sampleVars == <<accVoltage, tsVoltage>>
chargeVars == <<progress, sinceBelow, sinceStart>>
canVars    == <<safetyActive, canStep>>
vars == <<taskVars, sampleVars, chargeVars, canVars, sinceStatus, sinceCycle>>

States == {"STANDBY", "PRECHARGE", "DISCHARGE", "ONLINE", "CHARGING", "ERROR"}
Errors == {"BMS_CAN_TIMEOUT"}
Volts  == 0..MaxVoltage

\* Ages above these are not told apart.
ChargeHorizon == Hysteresis + MinTime
StatusHorizon == BmsTimeout + 2 * MaxGap
Older(age, horizon) == IF age > horizon THEN age ELSE age + 1

\* Everything has its type. STATE_UNDEFINED is a value of lastState only: the
\* default branch of prechargeTask's switch is never taken, and with it
\* ERR_STATE_UNDEFINED is never raised.
TypeOK ==
    /\ state \in States
    /\ lastState \in States \cup {"UNDEFINED"}
    /\ errorCode \subseteq Errors
    /\ shutdownPin \in {"LOW", "HIGH"}
    /\ isSafeTemperature \in BOOLEAN
    /\ accVoltage \in Volts
    /\ tsVoltage \in Volts
    /\ progress \in {"below", "reached", "unrepresentable"}
    /\ sinceBelow \in 0..(ChargeHorizon + 1)
    /\ sinceStart \in 0..(ChargeHorizon + 1)
    /\ safetyActive \in BOOLEAN
    /\ sinceStatus \in 0..(StatusHorizon + 1)
    /\ canStep \in {"idle", "stamp"}
    /\ sinceCycle \in 0..MaxGap

\* prechargeInit and CAN_Init. millis() runs since power up, so the function
\* statics of precharge() (both 0) have any age when the task first runs; the
\* tick count starts with the scheduler, so lastRxTime = 0 is fresh. The pin
\* latch of the processor resets to LOW.
Init ==
    /\ state = "STANDBY"
    /\ lastState = "UNDEFINED"
    /\ errorCode = {}
    /\ shutdownPin = "LOW"
    /\ isSafeTemperature = FALSE
    /\ accVoltage = 0
    /\ tsVoltage = 0
    /\ progress = "below"
    /\ sinceBelow \in 0..(ChargeHorizon + 1)
    /\ sinceStart = sinceBelow
    /\ safetyActive = FALSE
    /\ sinceStatus = 0
    /\ canStep = "idle"
    /\ sinceCycle = MinGap

-----------------------------------------------------------------------------
(* Measurements *)

\* Mutant of LowPass: the old value is not weighted with 1 - alpha.
LowPassUnweighted(raw, old) == {raw + old}

\* LOWPASS_FILTER: a weighted mean of the old value and the raw one; it reaches
\* zero only under raw readings of zero.
LowPass(raw, old) ==
    {v \in Volts : /\ (old <= v /\ v <= raw) \/ (raw <= v /\ v <= old)
                   /\ raw # 0 => v # 0}

\* updateVoltage: the accumulator filter starts from its first nonzero reading.
\* getFrequency reads 0 whenever the sensor's square wave times out.
UpdateVoltage(rawAcc, rawTs) ==
    /\ accVoltage' \in IF accVoltage = 0 /\ rawAcc # 0
                         THEN {rawAcc} ELSE LowPass(rawAcc, accVoltage)
    /\ tsVoltage' \in LowPass(rawTs, tsVoltage)

\* Mutant of PrechargeReached: the quotient is upside down.
PrechargeReachedInverted(acc, ts) ==
    IF acc = 0 THEN ts > 0 ELSE 100 * acc >= TargetPercent * ts

\* prechargeProgress >= PCC_TARGET_PERCENT in IEEE arithmetic: x/0 is infinite
\* for x > 0, and 0/0 is not a number and compares false.
PrechargeReached(acc, ts) ==
    IF acc = 0 THEN ts > 0 ELSE 100 * ts >= TargetPercent * acc

\* What uint16_t(pcData.prechargeProgress) can report: the cast of an infinity,
\* of a NaN or of a quotient above 65535 (a voltage of less than
\* PCC_MIN_ACC_VOLTAGE as divisor) is undefined.
ProgressOf(acc, ts) ==
    (IF acc < MinAccVoltage /\ (acc = 0 \/ PrechargeReached(acc, ts))
       THEN {"unrepresentable"} ELSE {})
    \cup
    (IF acc # 0
       THEN {IF PrechargeReached(acc, ts) THEN "reached" ELSE "below"} ELSE {})

-----------------------------------------------------------------------------
(* One cycle of prechargeTask. The primed voltages are this cycle's samples. *)

\* The temperature check sends every state to DISCHARGE before the switch.
Entry(safe) == IF safe THEN state ELSE "DISCHARGE"

\* What every cycle does first: wait for its period, read the thermistors,
\* measure both voltages, and dispatch on the state s.
BeginCycle(s, safe, rawAcc, rawTs) ==
    /\ sinceCycle >= MinGap
    /\ sinceCycle' = 0
    /\ isSafeTemperature' = safe
    /\ UpdateVoltage(rawAcc, rawTs)
    /\ Entry(safe) = s
    /\ UNCHANGED <<canVars, sinceStatus>>

\* Mutant of AccLow: the voltage is never found low.
AccLowNever == FALSE

\* The accumulator is below what the shutdown circuit needs.
AccLow == accVoltage' < MinAccVoltage

\* Mutant of BmsSilent: the timeout is never found expired.
BmsSilentNever == FALSE

\* No status frame was stamped within the timeout.
BmsSilent == sinceStatus > BmsTimeout

\* Mutant of Logged: the error is masked with the code instead of added to it.
LoggedMasked(error) == errorCode \cap {error}

\* errorCode |= error.
Logged(error) == errorCode \cup {error}

\* Mutant of Standby: the pin keeps its level.
StandbyKeepsPin(safe, rawAcc, rawTs) ==
    /\ BeginCycle("STANDBY", safe, rawAcc, rawTs)
    /\ IF ~AccLow \/ safetyActive
         THEN state' = "PRECHARGE" /\ lastState' = "STANDBY"
         ELSE UNCHANGED <<state, lastState>>
    /\ UNCHANGED <<errorCode, shutdownPin, chargeVars>>

\* standby(): open the contactors and wait for the shutdown circuit or a charger.
Standby(safe, rawAcc, rawTs) ==
    /\ BeginCycle("STANDBY", safe, rawAcc, rawTs)
    /\ shutdownPin' = "LOW"
    /\ IF ~AccLow \/ safetyActive
         THEN state' = "PRECHARGE" /\ lastState' = "STANDBY"
         ELSE UNCHANGED <<state, lastState>>
    /\ UNCHANGED <<errorCode, chargeVars>>

\* Mutant of StartAge: the entry test is missing, every cycle restarts the timer.
StartAgeRestarted == 0

\* The age of timePrechargeStart seen by precharge(): its first run after
\* another state takes the current time.
StartAge == IF lastState # "PRECHARGE" THEN 0 ELSE sinceStart

\* Mutant of PrechargeComplete: the time alone completes the precharge.
PrechargeCompleteByTime == sinceBelow > Hysteresis /\ StartAge >= MinTime

\* precharge() declares the precharge complete: the target is reached, was not
\* missed for more than the hysteresis, and not within PCC_MIN_TIME_MS.
PrechargeComplete ==
    /\ PrechargeReached(accVoltage', tsVoltage')
    /\ sinceBelow > Hysteresis
    /\ StartAge >= MinTime

\* case STATE_PRECHARGE: a low accumulator voltage asks for DISCHARGE, but
\* precharge() runs all the same and may overwrite the state.
DoPrecharge(safe, rawAcc, rawTs) ==
    /\ BeginCycle("PRECHARGE", safe, rawAcc, rawTs)
    /\ lastState' = "PRECHARGE"
    /\ sinceStart' = StartAge
    /\ progress' \in ProgressOf(accVoltage', tsVoltage')
    /\ sinceBelow' = IF PrechargeReached(accVoltage', tsVoltage')
                       THEN sinceBelow ELSE 0
    /\ state' = IF PrechargeComplete
                  THEN IF safetyActive THEN "CHARGING" ELSE "ONLINE"
                  ELSE IF AccLow
                         THEN "DISCHARGE" ELSE "PRECHARGE"
    /\ UNCHANGED <<errorCode, shutdownPin>>

\* case STATE_DISCHARGE: wait for a discharged tractive system. No output changes.
Discharge(safe, rawAcc, rawTs) ==
    /\ BeginCycle("DISCHARGE", safe, rawAcc, rawTs)
    /\ state' = IF tsVoltage' = 0 THEN "STANDBY" ELSE "DISCHARGE"
    /\ UNCHANGED <<lastState, errorCode, shutdownPin, chargeVars>>

\* case STATE_ONLINE without a charger: running() closes AIR+, also in the cycle
\* that leaves for DISCHARGE.
Running(safe, rawAcc, rawTs) ==
    /\ BeginCycle("ONLINE", safe, rawAcc, rawTs)
    /\ ~safetyActive
    /\ state' = IF AccLow THEN "DISCHARGE" ELSE "ONLINE"
    /\ lastState' = "ONLINE"
    /\ shutdownPin' = "HIGH"
    /\ UNCHANGED <<errorCode, chargeVars>>

\* case STATE_ONLINE with a charger: CHARGING, whatever the accumulator voltage.
OnlineToCharging(safe, rawAcc, rawTs) ==
    /\ BeginCycle("ONLINE", safe, rawAcc, rawTs)
    /\ safetyActive
    /\ state' = "CHARGING"
    /\ UNCHANGED <<lastState, errorCode, shutdownPin, chargeVars>>

\* case STATE_CHARGING, the three ways out in the order the code tests them. None
\* of them drives the pin.
LeaveCharging(safe, rawAcc, rawTs) ==
    /\ BeginCycle("CHARGING", safe, rawAcc, rawTs)
    /\ \/ /\ AccLow
          /\ state' = "DISCHARGE"
          /\ UNCHANGED errorCode
       \/ /\ ~AccLow
          /\ ~safetyActive
          /\ state' = "STANDBY"
          /\ UNCHANGED errorCode
       \/ /\ ~AccLow
          /\ safetyActive
          /\ BmsSilent
          /\ state' = "ERROR"
          /\ errorCode' = Logged("BMS_CAN_TIMEOUT")
    /\ UNCHANGED <<lastState, shutdownPin, chargeVars>>

\* case STATE_CHARGING, charging(): close AIR+.
Charging(safe, rawAcc, rawTs) ==
    /\ BeginCycle("CHARGING", safe, rawAcc, rawTs)
    /\ ~AccLow
    /\ safetyActive
    /\ ~BmsSilent
    /\ lastState' = "CHARGING"
    /\ shutdownPin' = "HIGH"
    /\ UNCHANGED <<state, errorCode, chargeVars>>

\* Mutant of ErrorState: a charger that is heard again resumes.
ErrorStateResumes(safe, rawAcc, rawTs) ==
    /\ BeginCycle("ERROR", safe, rawAcc, rawTs)
    /\ state' = IF AccLow THEN "DISCHARGE"
                ELSE IF safetyActive /\ ~BmsSilent
                       THEN "CHARGING" ELSE "ERROR"
    /\ lastState' = "ERROR" /\ shutdownPin' = "LOW"
    /\ UNCHANGED <<errorCode, chargeVars>>

\* case STATE_ERROR: errorState() opens AIR+; only a low accumulator voltage leaves.
ErrorState(safe, rawAcc, rawTs) ==
    /\ BeginCycle("ERROR", safe, rawAcc, rawTs)
    /\ state' = IF AccLow THEN "DISCHARGE" ELSE "ERROR"
    /\ lastState' = "ERROR"
    /\ shutdownPin' = "LOW"
    /\ UNCHANGED <<errorCode, chargeVars>>

PrechargeTask(safe, rawAcc, rawTs) ==
    \/ Standby(safe, rawAcc, rawTs)
    \/ DoPrecharge(safe, rawAcc, rawTs)
    \/ Discharge(safe, rawAcc, rawTs)
    \/ Running(safe, rawAcc, rawTs)
    \/ OnlineToCharging(safe, rawAcc, rawTs)
    \/ LeaveCharging(safe, rawAcc, rawTs)
    \/ Charging(safe, rawAcc, rawTs)
    \/ ErrorState(safe, rawAcc, rawTs)

-----------------------------------------------------------------------------
(* canTask: pollMessages on a status frame (0x185), one step per store. *)

StatusSafety(active) ==
    /\ canStep = "idle"
    /\ canStep' = "stamp"
    /\ safetyActive' = active
    /\ UNCHANGED <<taskVars, sampleVars, chargeVars, sinceStatus, sinceCycle>>

StatusStamp ==
    /\ canStep = "stamp"
    /\ canStep' = "idle"
    /\ sinceStatus' = 0
    /\ UNCHANGED <<taskVars, sampleVars, chargeVars, safetyActive, sinceCycle>>

\* One tick of time. The precharge task, the highest priority of the program,
\* runs before MaxGap ticks have passed since its last cycle.
Tick ==
    /\ sinceCycle < MaxGap
    /\ sinceCycle' = sinceCycle + 1
    /\ sinceBelow' = Older(sinceBelow, ChargeHorizon)
    /\ sinceStart' = Older(sinceStart, ChargeHorizon)
    /\ sinceStatus' = Older(sinceStatus, StatusHorizon)
    /\ UNCHANGED <<taskVars, sampleVars, progress, canVars>>

\* A cycle; checkSafeTemperature may find anything, and so may the sensors.
Cycle == \E safe \in BOOLEAN, rawAcc, rawTs \in Volts :
            PrechargeTask(safe, rawAcc, rawTs)

Next ==
    \/ Cycle
    \/ \E active \in BOOLEAN : StatusSafety(active)
    \/ StatusStamp
    \/ Tick

Spec == Init /\ [][Next]_vars

\* The scheduler never stops the highest-priority task, and time passes.
Fairness == WF_vars(Cycle) /\ WF_vars(Tick)

FairSpec == Spec /\ Fairness

-----------------------------------------------------------------------------
(* Safety *)

\* No precharge begins or goes on with AIR+ commanded closed: whatever way the
\* task took to PRECHARGE - after an overtemperature, an error, a charger lost
\* while charging - standby() has driven the pin LOW on the way. Charging the
\* bus through the resistor is only possible with AIR+ open.
PrechargeStartsOpen == state = "PRECHARGE" => shutdownPin = "LOW"

\* The frame that tells the vehicle controller ONLINE never reports a precharge
\* progress below the target (PCC_PrechargeComplete asks for both), unless the
\* cast of the progress is undefined. The progress is computed in PRECHARGE
\* only, so this relates the report to a computation of earlier cycles.
OnlineReportsComplete == state = "ONLINE" => progress # "below"

\* A charger that falls silent opens AIR+: while charging goes on, or its
\* timeout has just raised ERROR, the contactor is not held closed for longer
\* than the timeout and two cycles after the last status frame was stamped.
SilentChargerOpens ==
    lastState = "CHARGING" /\ state \in {"CHARGING", "ERROR"} /\ shutdownPin = "HIGH"
        => sinceStatus <= BmsTimeout + 2 * MaxGap

\* AIR+ is held closed in ERROR only until the next cycle, and only the charger
\* timeout leads there: an ERROR whose handler ran has opened AIR+, and each
\* ERROR has the code errorState() prints ("Error state, but no error code
\* logged..." is never printed).
ErrorOpensWithCode ==
    state = "ERROR" => /\ errorCode # {}
                       /\ lastState = "ERROR" => shutdownPin = "LOW"

\* ERROR is latched: a charger that is heard again does not resume charging. The
\* way back leads over STANDBY with a discharged tractive system or over
\* DISCHARGE, never directly to a state that closes AIR+.
ErrorIsLatched ==
    [][state = "ERROR" /\ state' # "ERROR"
         => state' = "DISCHARGE" \/ (state' = "STANDBY" /\ tsVoltage' = 0)]_vars

\* What the controller promises the vehicle: AIR+ closes only after a completed
\* precharge (module Contactor).
Promise == INSTANCE Contactor WITH
    phase <- IF shutdownPin = "HIGH" THEN "closed"
             ELSE IF state \in {"ONLINE", "CHARGING"} THEN "armed" ELSE "open",
    acc <- accVoltage,
    ts <- tsVoltage

\* The controller implements the promise.
ContactorPromise == Promise!Spec

-----------------------------------------------------------------------------
(* Liveness, under Fairness *)

\* Nothing more is needed to go on with a precharge.
ChargedBus ==
    /\ isSafeTemperature
    /\ accVoltage >= MinAccVoltage
    /\ PrechargeReached(accVoltage, tsVoltage)

\* A bus that stays charged is connected: from PRECHARGE the hysteresis and the
\* minimum time are overcome and AIR+ is closed - by running(), or by charging()
\* unless the charger is lost, which counts as an answer too (ERROR or STANDBY).
PrechargeCompletes ==
    (state = "PRECHARGE" /\ []ChargedBus)
        ~> (shutdownPin = "HIGH" \/ state \in {"ERROR", "STANDBY"})

\* The car is off: nothing is measured and the charger reports no safety.
Dead ==
    /\ isSafeTemperature
    /\ accVoltage = 0
    /\ tsVoltage = 0
    /\ ~safetyActive

\* Switching everything off resets the controller from every state, the latched
\* ERROR included: it returns to STANDBY with AIR+ open.
OffReturnsToStandby == []Dead ~> (state = "STANDBY" /\ shutdownPin = "LOW")

-----------------------------------------------------------------------------
(* Claims of comments that the code does not keep *)

\* "Check thermistor readings, discharge if exceeded" (precharge.cpp:84): an
\* accumulator that stays too hot has AIR+ opened.
OvertemperatureOpens == [](~isSafeTemperature) ~> shutdownPin = "LOW"
=============================================================================
