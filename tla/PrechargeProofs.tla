--------------------------- MODULE PrechargeProofs ---------------------------
(***************************************************************************)
(* Proofs about module Precharge, for every value of its constants.        *)
(***************************************************************************)
EXTENDS Precharge, TLAPS

USE ConstantsAssumption DEF ConstantsAssumption

\* The entry actions keep track of the way: which handler may have run last in
\* each state that has one.
LastStateAgrees ==
    /\ state = "PRECHARGE" => lastState \in {"STANDBY", "PRECHARGE"}
    /\ state = "ONLINE"    => lastState \in {"PRECHARGE", "ONLINE"}
    /\ state = "CHARGING"  => lastState \in {"PRECHARGE", "ONLINE", "CHARGING"}
    /\ state = "ERROR"     => lastState \in {"PRECHARGE", "ONLINE", "CHARGING", "ERROR"}

\* How old the last status frame can be while charging() holds AIR+ closed: it was
\* within the timeout when the task last ran, and one cycle longer in ERROR.
StatusAge ==
    lastState = "CHARGING" /\ shutdownPin = "HIGH" =>
        /\ state = "CHARGING" => sinceStatus <= BmsTimeout + sinceCycle
        /\ state = "ERROR"    => sinceStatus <= BmsTimeout + MaxGap + sinceCycle

\* The inductive invariant.
IInv ==
    /\ TypeOK
    /\ PrechargeStartsOpen
    /\ OnlineReportsComplete
    /\ ErrorOpensWithCode
    /\ LastStateAgrees
    /\ StatusAge

-----------------------------------------------------------------------------
(* Lemmas about the operators *)

LEMMA Horizons ==
    /\ ChargeHorizon \in Nat
    /\ StatusHorizon \in Nat
    /\ MinGap \in 0..MaxGap
BY DEF ChargeHorizon, StatusHorizon

\* Ageing stays within one above the horizon and adds at most one.
LEMMA OlderBounds ==
    ASSUME NEW horizon \in Nat, NEW age \in 0..(horizon + 1)
    PROVE  /\ Older(age, horizon) \in 0..(horizon + 1)
           /\ Older(age, horizon) <= age + 1
BY DEF Older

\* Both filters return voltages of the model.
LEMMA SampleTyping ==
    ASSUME NEW rawAcc \in Volts, NEW rawTs \in Volts, UpdateVoltage(rawAcc, rawTs)
    PROVE  accVoltage' \in Volts /\ tsVoltage' \in Volts
BY DEF UpdateVoltage, LowPass

\* A progress that is reported reached the target when the test says so.
LEMMA ReachedIsReported ==
    ASSUME NEW acc, NEW ts, PrechargeReached(acc, ts)
    PROVE  "below" \notin ProgressOf(acc, ts)
BY DEF ProgressOf

LEMMA ProgressTyping ==
    ASSUME NEW acc, NEW ts
    PROVE  ProgressOf(acc, ts) \subseteq {"below", "reached", "unrepresentable"}
BY DEF ProgressOf

-----------------------------------------------------------------------------
(* The invariant is inductive *)

LEMMA InitInv == Init => IInv
<1> SUFFICES ASSUME Init PROVE IInv
  OBVIOUS
<1>1. TypeOK
  <2>1. 0 \in Volts /\ 0 \in 0..(StatusHorizon + 1)
    BY Horizons DEF Volts
  <2>2. QED
    BY <2>1, Horizons DEF Init, TypeOK, States
<1>2. PrechargeStartsOpen /\ OnlineReportsComplete /\ ErrorOpensWithCode
  BY DEF Init, PrechargeStartsOpen, OnlineReportsComplete, ErrorOpensWithCode
<1>3. LastStateAgrees /\ StatusAge
  BY DEF Init, LastStateAgrees, StatusAge
<1>4. QED
  BY <1>1, <1>2, <1>3 DEF IInv

\* What every cycle does to the type of the variables it shares with the others.
LEMMA BeginTyping ==
    ASSUME TypeOK, NEW s, NEW safe \in BOOLEAN, NEW rawAcc \in Volts,
           NEW rawTs \in Volts, BeginCycle(s, safe, rawAcc, rawTs)
    PROVE  /\ accVoltage' \in Volts
           /\ tsVoltage' \in Volts
           /\ isSafeTemperature' \in BOOLEAN
           /\ sinceCycle' = 0
           /\ sinceCycle \in 0..MaxGap
           /\ canStep' = canStep
           /\ safetyActive' = safetyActive
           /\ sinceStatus' = sinceStatus
           /\ s # "DISCHARGE" => state = s
           /\ sinceCycle' \in 0..MaxGap
BY SampleTyping DEF BeginCycle, TypeOK, Entry, canVars

LEMMA CycleInv ==
    ASSUME IInv, NEW safe \in BOOLEAN, NEW rawAcc \in Volts, NEW rawTs \in Volts,
           PrechargeTask(safe, rawAcc, rawTs)
    PROVE  IInv'
<1> USE DEF IInv
<1>1. CASE Standby(safe, rawAcc, rawTs)
  <2>1. BeginCycle("STANDBY", safe, rawAcc, rawTs)
    BY <1>1 DEF Standby
  <2>2. TypeOK'
    BY <1>1, <2>1, BeginTyping DEF Standby, TypeOK, States, chargeVars
  <2>3. QED
    BY <1>1, <2>1, <2>2, BeginTyping
    DEF Standby, PrechargeStartsOpen, OnlineReportsComplete, ErrorOpensWithCode,
        LastStateAgrees, StatusAge
<1>2. CASE DoPrecharge(safe, rawAcc, rawTs)
  <2>1. BeginCycle("PRECHARGE", safe, rawAcc, rawTs)
    BY <1>2 DEF DoPrecharge
  <2>2. sinceStart' \in 0..(ChargeHorizon + 1) /\ sinceBelow' \in 0..(ChargeHorizon + 1)
    BY <1>2 DEF DoPrecharge, StartAge, TypeOK, ChargeHorizon
  <2>3. TypeOK'
    BY <1>2, <2>1, <2>2, BeginTyping, ProgressTyping DEF DoPrecharge, TypeOK, States
  <2>4. OnlineReportsComplete'
    <3>1. state' = "ONLINE" => PrechargeReached(accVoltage', tsVoltage')
      BY <1>2 DEF DoPrecharge, PrechargeComplete
    <3>2. QED
      BY <1>2, <3>1, ReachedIsReported DEF DoPrecharge, OnlineReportsComplete
  <2>5. state' \in {"CHARGING", "ONLINE", "DISCHARGE", "PRECHARGE"}
    BY <1>2 DEF DoPrecharge
  <2>6. QED
    BY <1>2, <2>1, <2>3, <2>4, <2>5, BeginTyping
    DEF DoPrecharge, PrechargeStartsOpen, ErrorOpensWithCode, LastStateAgrees, StatusAge
<1>3. CASE Discharge(safe, rawAcc, rawTs)
  <2>1. BeginCycle("DISCHARGE", safe, rawAcc, rawTs)
    BY <1>3 DEF Discharge
  <2>2. TypeOK'
    BY <1>3, <2>1, BeginTyping DEF Discharge, TypeOK, States, chargeVars
  <2>3. QED
    BY <1>3, <2>1, <2>2, BeginTyping
    DEF Discharge, PrechargeStartsOpen, OnlineReportsComplete, ErrorOpensWithCode,
        LastStateAgrees, StatusAge
<1>4. CASE Running(safe, rawAcc, rawTs)
  <2>1. BeginCycle("ONLINE", safe, rawAcc, rawTs)
    BY <1>4 DEF Running
  <2>2. TypeOK'
    BY <1>4, <2>1, BeginTyping DEF Running, TypeOK, States, chargeVars
  <2>3. QED
    BY <1>4, <2>1, <2>2, BeginTyping
    DEF Running, PrechargeStartsOpen, OnlineReportsComplete, ErrorOpensWithCode,
        LastStateAgrees, StatusAge, chargeVars
<1>5. CASE OnlineToCharging(safe, rawAcc, rawTs)
  <2>1. BeginCycle("ONLINE", safe, rawAcc, rawTs)
    BY <1>5 DEF OnlineToCharging
  <2>2. TypeOK'
    BY <1>5, <2>1, BeginTyping DEF OnlineToCharging, TypeOK, States, chargeVars
  <2>3. lastState' \in {"PRECHARGE", "ONLINE"} /\ state' = "CHARGING"
    <3>1. state = "ONLINE"
      BY <2>1 DEF BeginCycle, Entry
    <3>2. QED
      BY <1>5, <3>1 DEF OnlineToCharging, LastStateAgrees
  <2>4. QED
    BY <2>2, <2>3
    DEF PrechargeStartsOpen, OnlineReportsComplete, ErrorOpensWithCode,
        LastStateAgrees, StatusAge
<1>6. CASE LeaveCharging(safe, rawAcc, rawTs)
  <2>1. BeginCycle("CHARGING", safe, rawAcc, rawTs)
    BY <1>6 DEF LeaveCharging
  <2>2. TypeOK'
    BY <1>6, <2>1, BeginTyping
    DEF LeaveCharging, TypeOK, States, Errors, Logged, chargeVars
  <2>3. state' = "ERROR" => errorCode' # {}
    BY <1>6 DEF LeaveCharging, Logged
  <2>4. StatusAge'
    BY <1>6, <2>1, <2>2, BeginTyping DEF LeaveCharging, StatusAge, TypeOK, StatusHorizon
  <2>5. QED
    BY <1>6, <2>1, <2>2, <2>3, <2>4, BeginTyping
    DEF LeaveCharging, PrechargeStartsOpen, OnlineReportsComplete,
        ErrorOpensWithCode, LastStateAgrees
<1>7. CASE Charging(safe, rawAcc, rawTs)
  <2>1. BeginCycle("CHARGING", safe, rawAcc, rawTs)
    BY <1>7 DEF Charging
  <2>2. TypeOK'
    BY <1>7, <2>1, BeginTyping DEF Charging, TypeOK, States, chargeVars
  <2>3. state = "CHARGING" /\ state' = "CHARGING"
    <3>1. state = "CHARGING"
      BY <2>1 DEF BeginCycle, Entry
    <3>2. QED
      BY <1>7, <3>1 DEF Charging
  <2>4. sinceStatus \in Nat /\ sinceStatus <= BmsTimeout
    BY <1>7 DEF Charging, BmsSilent, TypeOK, StatusHorizon
  <2>5. StatusAge'
    BY <2>1, <2>3, <2>4, BeginTyping DEF StatusAge
  <2>6. QED
    BY <1>7, <2>2, <2>3, <2>5
    DEF Charging, PrechargeStartsOpen, OnlineReportsComplete, ErrorOpensWithCode,
        LastStateAgrees
<1>8. CASE ErrorState(safe, rawAcc, rawTs)
  <2>1. BeginCycle("ERROR", safe, rawAcc, rawTs)
    BY <1>8 DEF ErrorState
  <2>2. TypeOK'
    BY <1>8, <2>1, BeginTyping DEF ErrorState, TypeOK, States, chargeVars
  <2>3. QED
    BY <1>8, <2>1, <2>2, BeginTyping
    DEF ErrorState, PrechargeStartsOpen, OnlineReportsComplete, ErrorOpensWithCode,
        LastStateAgrees, StatusAge
<1>9. QED
  BY <1>1, <1>2, <1>3, <1>4, <1>5, <1>6, <1>7, <1>8 DEF PrechargeTask

\* canTask and the clock keep it too.
LEMMA OtherInv ==
    ASSUME IInv,
           (\E active \in BOOLEAN : StatusSafety(active)) \/ StatusStamp \/ Tick
    PROVE  IInv'
<1> USE DEF IInv
<1>1. CASE \E active \in BOOLEAN : StatusSafety(active)
  <2>1. PICK active \in BOOLEAN : StatusSafety(active)
    BY <1>1
  <2>2. TypeOK'
    BY <2>1 DEF StatusSafety, TypeOK, taskVars, sampleVars, chargeVars
  <2>3. QED
    BY <2>1, <2>2
    DEF StatusSafety, taskVars, sampleVars, chargeVars, PrechargeStartsOpen,
        OnlineReportsComplete, ErrorOpensWithCode, LastStateAgrees, StatusAge
<1>2. CASE StatusStamp
  <2>1. TypeOK'
    BY <1>2, Horizons DEF StatusStamp, TypeOK, taskVars, sampleVars, chargeVars
  <2>2. StatusAge'
    BY <1>2 DEF StatusStamp, TypeOK, StatusAge, taskVars
  <2>3. QED
    BY <1>2, <2>1, <2>2
    DEF StatusStamp, taskVars, chargeVars, PrechargeStartsOpen,
        OnlineReportsComplete, ErrorOpensWithCode, LastStateAgrees
<1>3. CASE Tick
  <2>1. /\ sinceBelow' \in 0..(ChargeHorizon + 1)
        /\ sinceStart' \in 0..(ChargeHorizon + 1)
        /\ sinceStatus' \in 0..(StatusHorizon + 1)
        /\ sinceStatus' <= sinceStatus + 1
    BY <1>3, Horizons, OlderBounds DEF Tick, TypeOK
  <2>2. TypeOK'
    BY <1>3, <2>1 DEF Tick, TypeOK, taskVars, sampleVars, canVars
  <2>3. StatusAge'
    <3>1. /\ sinceStatus \in Nat /\ sinceStatus' \in Nat /\ sinceCycle \in Nat
          /\ sinceCycle' = sinceCycle + 1
      BY <1>3, <2>1, Horizons DEF Tick, TypeOK
    <3>2. UNCHANGED <<state, lastState, shutdownPin>>
      BY <1>3 DEF Tick, taskVars
    <3>3. QED
      BY <2>1, <3>1, <3>2 DEF StatusAge
  <2>4. QED
    BY <1>3, <2>2, <2>3
    DEF Tick, taskVars, PrechargeStartsOpen, OnlineReportsComplete,
        ErrorOpensWithCode, LastStateAgrees
<1>4. QED
  BY <1>1, <1>2, <1>3

LEMMA StutterInv == IInv /\ UNCHANGED vars => IInv'
BY DEF IInv, vars, taskVars, sampleVars, chargeVars, canVars, TypeOK,
       PrechargeStartsOpen, OnlineReportsComplete, ErrorOpensWithCode,
       LastStateAgrees, StatusAge

LEMMA StepInv == IInv /\ [Next]_vars => IInv'
<1> SUFFICES ASSUME IInv, [Next]_vars PROVE IInv'
  OBVIOUS
<1>1. CASE Cycle
  BY <1>1, CycleInv DEF Cycle
<1>2. CASE (\E active \in BOOLEAN : StatusSafety(active)) \/ StatusStamp \/ Tick
  BY <1>2, OtherInv
<1>3. CASE UNCHANGED vars
  BY <1>3, StutterInv
<1>4. QED
  BY <1>1, <1>2, <1>3 DEF Next

\* The invariant holds in every reachable state of the controller.
THEOREM Invariance == Spec => []IInv
BY InitInv, StepInv, PTL DEF Spec

-----------------------------------------------------------------------------
(* What follows from it *)

\* The variables keep their types, and the default branch of the switch of
\* prechargeTask is unreachable.
THEOREM TypeCorrect == Spec => []TypeOK
<1>1. IInv => TypeOK
  BY DEF IInv
<1>2. QED
  BY <1>1, Invariance, PTL

\* A precharge always runs with AIR+ commanded open.
THEOREM StartsOpen == Spec => []PrechargeStartsOpen
<1>1. IInv => PrechargeStartsOpen
  BY DEF IInv
<1>2. QED
  BY <1>1, Invariance, PTL

\* ONLINE is never reported with a progress below the target.
THEOREM ReportsComplete == Spec => []OnlineReportsComplete
<1>1. IInv => OnlineReportsComplete
  BY DEF IInv
<1>2. QED
  BY <1>1, Invariance, PTL

\* An ERROR has a code, and opens AIR+.
THEOREM ErrorOpens == Spec => []ErrorOpensWithCode
<1>1. IInv => ErrorOpensWithCode
  BY DEF IInv
<1>2. QED
  BY <1>1, Invariance, PTL

\* The real-time bound on a silent charger: timeout plus two cycles.
THEOREM SilenceOpens == Spec => []SilentChargerOpens
<1>1. IInv => SilentChargerOpens
  BY DEF IInv, TypeOK, StatusAge, SilentChargerOpens, StatusHorizon
<1>2. QED
  BY <1>1, Invariance, PTL

-----------------------------------------------------------------------------
(* Action properties *)

\* An ERROR ends in DISCHARGE, or in STANDBY with a discharged tractive system.
THEOREM ErrorLatch == Spec => ErrorIsLatched
<1>1. ASSUME [Next]_vars
      PROVE  [state = "ERROR" /\ state' # "ERROR"
                => state' = "DISCHARGE" \/ (state' = "STANDBY" /\ tsVoltage' = 0)]_vars
  <2> SUFFICES ASSUME Next, state = "ERROR", state' # "ERROR"
               PROVE  state' = "DISCHARGE" \/ (state' = "STANDBY" /\ tsVoltage' = 0)
    BY <1>1
  <2>1. PICK safe \in BOOLEAN, rawAcc \in Volts, rawTs \in Volts :
           PrechargeTask(safe, rawAcc, rawTs)
    BY DEF Next, Cycle, StatusSafety, StatusStamp, Tick, taskVars
  <2>2. ASSUME NEW s, BeginCycle(s, safe, rawAcc, rawTs) PROVE s \in {"ERROR", "DISCHARGE"}
    BY <2>2 DEF BeginCycle, Entry
  <2>3. CASE ErrorState(safe, rawAcc, rawTs)
    BY <2>3 DEF ErrorState
  <2>4. CASE Discharge(safe, rawAcc, rawTs)
    BY <2>4 DEF Discharge
  <2>5. QED
    BY <2>1, <2>2, <2>3, <2>4
    DEF PrechargeTask, Standby, DoPrecharge, Running, OnlineToCharging,
        LeaveCharging, Charging
<1>2. QED
  BY <1>1, PTL DEF Spec, ErrorIsLatched

-----------------------------------------------------------------------------
(* The controller implements Contactor *)

\* The refinement mapping of Promise.
Phase == IF shutdownPin = "HIGH" THEN "closed"
         ELSE IF state \in {"ONLINE", "CHARGING"} THEN "armed" ELSE "open"

\* A step to ONLINE or CHARGING comes from there, or from a precharge whose
\* samples reached the target.
LEMMA ArmingShowsCharge ==
    ASSUME IInv, NEW safe \in BOOLEAN, NEW rawAcc \in Volts, NEW rawTs \in Volts,
           PrechargeTask(safe, rawAcc, rawTs),
           state' \in {"ONLINE", "CHARGING"}, state \notin {"ONLINE", "CHARGING"}
    PROVE  PrechargeReached(accVoltage', tsVoltage') /\ UNCHANGED shutdownPin
<1>1. DoPrecharge(safe, rawAcc, rawTs)
  <2>1. ASSUME NEW s \in {"ONLINE", "CHARGING"}, BeginCycle(s, safe, rawAcc, rawTs)
        PROVE  FALSE
    BY <2>1 DEF BeginCycle, Entry
  <2>2. ~Running(safe, rawAcc, rawTs) /\ ~OnlineToCharging(safe, rawAcc, rawTs)
    BY <2>1 DEF Running, OnlineToCharging
  <2>3. ~LeaveCharging(safe, rawAcc, rawTs) /\ ~Charging(safe, rawAcc, rawTs)
    BY <2>1 DEF LeaveCharging, Charging
  <2>4. ~Standby(safe, rawAcc, rawTs)
    BY DEF Standby
  <2>5. ~Discharge(safe, rawAcc, rawTs) /\ ~ErrorState(safe, rawAcc, rawTs)
    BY DEF Discharge, ErrorState
  <2>6. QED
    BY <2>2, <2>3, <2>4, <2>5 DEF PrechargeTask
<1>2. QED
  BY <1>1 DEF DoPrecharge, PrechargeComplete

\* AIR+ is closed by running() and charging() only, in ONLINE and CHARGING.
LEMMA ClosingIsArmed ==
    ASSUME NEW safe \in BOOLEAN, NEW rawAcc \in Volts, NEW rawTs \in Volts,
           PrechargeTask(safe, rawAcc, rawTs),
           shutdownPin' = "HIGH", shutdownPin # "HIGH"
    PROVE  state \in {"ONLINE", "CHARGING"}
<1>1. Running(safe, rawAcc, rawTs) \/ Charging(safe, rawAcc, rawTs)
  BY DEF PrechargeTask, Standby, DoPrecharge, Discharge, OnlineToCharging,
         LeaveCharging, ErrorState
<1>2. QED
  BY <1>1 DEF Running, Charging, BeginCycle, Entry

LEMMA StepPromise ==
    ASSUME IInv, [Next]_vars
    PROVE  [Promise!Next]_<<Phase, accVoltage, tsVoltage>>
<1>1. CASE Cycle
  <2>1. PICK safe \in BOOLEAN, rawAcc \in Volts, rawTs \in Volts :
           PrechargeTask(safe, rawAcc, rawTs)
    BY <1>1 DEF Cycle
  <2>2. accVoltage' \in Volts /\ tsVoltage' \in Volts
    <3>1. IInv'
      BY <2>1, CycleInv
    <3>2. QED
      BY <3>1 DEF IInv, TypeOK
  <2>3. CASE Phase' = "closed"
    <3>1. shutdownPin' = "HIGH"
      BY <2>3 DEF Phase
    <3>2. Phase \in {"armed", "closed"}
      BY <2>1, <3>1, ClosingIsArmed DEF Phase
    <3>3. QED
      BY <2>2, <2>3, <3>2 DEF Promise!Next, Promise!Close, Promise!Hold, Promise!Volts, Volts, Phase
  <2>4. CASE Phase' = "armed"
    <3>1. shutdownPin' # "HIGH" /\ state' \in {"ONLINE", "CHARGING"}
      BY <2>4 DEF Phase
    <3>2. CASE state \in {"ONLINE", "CHARGING"}
      <4>1. shutdownPin # "HIGH"
        <5>1. UNCHANGED shutdownPin \/ shutdownPin' = "HIGH" \/ state' \notin {"ONLINE", "CHARGING"}
          BY <2>1, <3>2
          DEF PrechargeTask, Standby, DoPrecharge, Discharge, Running,
              OnlineToCharging, LeaveCharging, Charging, ErrorState, BeginCycle, Entry
        <5>2. QED
          BY <3>1, <5>1
      <4>2. QED
        BY <2>2, <2>4, <3>2, <4>1 DEF Promise!Next, Promise!Hold, Promise!Volts, Volts, Phase
    <3>3. CASE state \notin {"ONLINE", "CHARGING"}
      <4>1. PrechargeReached(accVoltage', tsVoltage') /\ UNCHANGED shutdownPin
        BY <2>1, <3>1, <3>3, ArmingShowsCharge
      <4>2. Phase = "open"
        BY <3>1, <3>3, <4>1 DEF Phase
      <4>3. QED
        BY <2>2, <2>4, <4>1, <4>2
        DEF Promise!Next, Promise!Arm, Promise!Charged, PrechargeReached, Promise!Volts, Volts, Phase
    <3>4. QED
      BY <3>2, <3>3
  <2>5. CASE Phase' = "open"
    BY <2>2, <2>5 DEF Promise!Next, Promise!Open, Promise!Hold, Promise!Volts, Volts, Phase
  <2>6. QED
    BY <2>3, <2>4, <2>5 DEF Phase
<1>2. CASE ~Cycle
  BY <1>2 DEF Next, StatusSafety, StatusStamp, Tick, vars, taskVars, sampleVars, Phase
<1>3. QED
  BY <1>1, <1>2

\* AIR+ closes only after a precharge whose measurements showed the tractive
\* system charged to the target share of the accumulator voltage.
THEOREM Refinement == Spec => ContactorPromise
<1>1. Init => Promise!Init
  BY DEF Init, Promise!Init, Promise!Volts
<1>2. IInv /\ [Next]_vars => [Promise!Next]_<<Phase, accVoltage, tsVoltage>>
  BY StepPromise
<1>3. QED
  BY <1>1, <1>2, Invariance, PTL DEF Spec, ContactorPromise, Promise!Spec, Phase

=============================================================================
