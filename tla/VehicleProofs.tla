---------------------------- MODULE VehicleProofs ----------------------------
(***************************************************************************)
(* Proofs about module Vehicle: for every timeout, every amount of         *)
(* preemption and every set of readings and frames of the environment.     *)
(***************************************************************************)
EXTENDS Vehicle, TLAPS

USE VehicleAssumption DEF VehicleAssumption

\* After the late command a bit is still up, and threadVCU is on its way to
\* Faults_HandleFaults, or past it and in FAULT.
LateIsNoticed ==
    lateCommands = 1 =>
        /\ faultBitMap # {}
        /\ vcuStep \in {"faults", "act"}
        /\ vcuStep = "act" => vehicleState = "FAULT"

\* The inductive invariant.
IInv ==
    /\ TypeOK
    /\ OneLateCommand
    /\ LateIsNoticed
    /\ SilentWhileSounding

-----------------------------------------------------------------------------
(* Lemmas about the operators *)

LEMMA GrowTyping ==
    ASSUME NEW limit \in Nat, NEW age \in 0..(limit + 1)
    PROVE  Grow(age, limit) \in 0..(limit + 1)
BY DEF Grow

\* The judgements of threadADC and threadBus add and remove known bits only.
LEMMA JudgedBits ==
    ASSUME NEW map \in SUBSET Bits, NEW t, NEW b
    PROVE  /\ JudgeApps(map, t) \subseteq Bits
           /\ JudgePlausibility(map, t) \subseteq Bits
           /\ JudgeBse(map, b) \subseteq Bits
           /\ WithFault(map, "CAN") \subseteq Bits
           /\ WithoutFault(map, "CAN") \subseteq Bits
BY DEF JudgeApps, JudgePlausibility, JudgeBse, WithFault, WithoutFault, Bits

\* A step of another thread that may change the bitmap keeps the count.
LEMMA CountKept ==
    ASSUME IInv, CountLate(faultBitMap', FALSE), UNCHANGED <<vcuStep, vehicleState>>
    PROVE  /\ lateCommands' \in Nat
           /\ OneLateCommand'
           /\ LateIsNoticed'
<1>1. lateCommands \in {0, 1}
  BY DEF IInv, TypeOK, OneLateCommand
<1>2. lateCommands' = IF faultBitMap' = {} THEN 0 ELSE lateCommands
  BY <1>1 DEF CountLate
<1>3. QED
  BY <1>1, <1>2 DEF IInv, OneLateCommand, LateIsNoticed

-----------------------------------------------------------------------------
(* The invariant is inductive *)

LEMMA InitInv == Init => IInv
<1> SUFFICES ASSUME Init PROVE IInv
  OBVIOUS
<1>1. /\ 0 \in 0..(BseTimeout + 1)
      /\ 0 \in 0..MaxPreempted
      /\ 0 \in 0..(CanTimeout + MaxPreempted + 1)
  OBVIOUS
<1>2. TypeOK
  BY <1>1 DEF Init, TypeOK, Bits, VehicleStates, Throttles, Frames
<1>3. OneLateCommand /\ LateIsNoticed /\ SilentWhileSounding
  BY DEF Init, OneLateCommand, LateIsNoticed, SilentWhileSounding
<1>4. QED
  BY <1>2, <1>3 DEF IInv

\* One cycle of threadADC.
LEMMA AdcInv ==
    ASSUME IInv, NEW t \in Pedals, NEW b \in BrakeReadings, AdcCycle(t, b)
    PROVE  IInv'
<1>1. faultBitMap' \subseteq Bits
  <2>1. JudgeApps(faultBitMap, t) \in SUBSET Bits
    BY JudgedBits DEF IInv, TypeOK
  <2>2. JudgePlausibility(JudgeApps(faultBitMap, t), t) \in SUBSET Bits
    BY <2>1, JudgedBits
  <2>3. QED
    BY <2>2, JudgedBits DEF AdcCycle
<1>2. throttle' \in Throttles /\ brake' \in SUBSET {"pressed", "hard"}
  BY DEF AdcCycle, Brakes
<1>3. sinceBseHealthy' \in 0..(BseTimeout + 1)
  BY DEF AdcCycle, IInv, TypeOK
<1>4. lateCommands' \in Nat /\ OneLateCommand' /\ LateIsNoticed'
  BY CountKept DEF AdcCycle
<1>5. TypeOK'
  BY <1>1, <1>2, <1>3, <1>4 DEF AdcCycle, IInv, TypeOK, busVars
<1>6. SilentWhileSounding'
  BY DEF AdcCycle, IInv, SilentWhileSounding
<1>7. QED
  BY <1>4, <1>5, <1>6 DEF IInv

\* The steps of threadBus.
LEMMA BusInv ==
    ASSUME IInv, BusStart \/ Receive \/ BusStore
    PROVE  IInv'
<1>1. CASE BusStart
  <2>1. TypeOK'
    BY <1>1 DEF BusStart, IInv, TypeOK, adcVars, vcuVars
  <2>2. QED
    BY <1>1, <2>1 DEF BusStart, IInv, OneLateCommand, LateIsNoticed, SilentWhileSounding, vcuVars
<1>2. CASE Receive
  <2>1. PICK frame \in Incoming : BusReceive(frame)
    BY <1>2 DEF Receive
  <2>2. loaded' \subseteq Bits
    BY <2>1, JudgedBits DEF BusReceive, IInv, TypeOK
  <2>3. TypeOK'
    BY <2>1, <2>2 DEF BusReceive, IInv, TypeOK, adcVars, vcuVars
  <2>4. QED
    BY <2>1, <2>3 DEF BusReceive, IInv, OneLateCommand, LateIsNoticed, SilentWhileSounding, vcuVars
<1>3. CASE BusStore
  <2>1. lateCommands' \in Nat /\ OneLateCommand' /\ LateIsNoticed'
    BY <1>3, CountKept DEF BusStore
  <2>2. pccComplete' \in BOOLEAN
    BY <1>3 DEF BusStore, PCC_PrechargeComplete, IInv, TypeOK
  <2>3. TypeOK'
    BY <1>3, <2>1, <2>2 DEF BusStore, IInv, TypeOK, adcVars, Frames
  <2>4. QED
    BY <1>3, <2>1, <2>3 DEF BusStore, IInv, SilentWhileSounding
<1>4. QED
  BY <1>1, <1>2, <1>3

\* The steps of threadVCU leave to the other threads what is theirs.
LEMMA VcuTouches ==
    ASSUME Vcu
    PROVE  UNCHANGED <<faultBitMap, adcVars, busVars>>
BY DEF Vcu, VcuCycle, HandleFaults, Precharging, Idle, StartSpeaker, SpeakerReturns, Driving, Fault, Act

LEMMA VcuTyping ==
    ASSUME IInv, Vcu
    PROVE  TypeOK'
<1>1. vehicleState' \in VehicleStates
  BY DEF IInv, TypeOK, Vcu, VcuCycle, HandleFaults, Precharging, Idle, StartSpeaker,
         SpeakerReturns, Driving, Fault, AfterFault, VehicleStates
<1>2. vcuStep' \in {"faults", "act", "speaker"}
  BY DEF Vcu, VcuCycle, HandleFaults, Precharging, Idle, StartSpeaker, SpeakerReturns, Driving, Fault
<1>3. rtmState' \in BOOLEAN /\ inverterEnabled' \in BOOLEAN
  BY DEF IInv, TypeOK, Vcu, VcuCycle, HandleFaults, Precharging, Idle, StartSpeaker,
         SpeakerReturns, Driving, Fault, DTI_SendEnableCommand
<1>4. lateCommands' \in Nat
  BY DEF IInv, TypeOK, Vcu, VcuCycle, HandleFaults, Precharging, Idle, StartSpeaker,
         SpeakerReturns, Driving, Fault, CountLate, DTI_SendEnableCommand
<1>5. QED
  BY <1>1, <1>2, <1>3, <1>4, VcuTouches DEF IInv, TypeOK, adcVars, busVars

\* An enable command is sent from DRIVING only, which is not the state threadVCU
\* acts in once a late command has been noticed.
LEMMA VcuInv ==
    ASSUME IInv, Vcu
    PROVE  IInv'
<1>1. lateCommands \in {0, 1} /\ UNCHANGED faultBitMap
  BY VcuTouches DEF IInv, TypeOK, OneLateCommand
<1>2. OneLateCommand' /\ LateIsNoticed'
  <2>1. CASE HandleFaults
    BY <1>1, <2>1 DEF HandleFaults, IInv, OneLateCommand, LateIsNoticed
  <2>2. CASE Precharging \/ Idle
    BY <1>1, <2>2 DEF Precharging, Idle, Act, VcuRuns, IInv, OneLateCommand, LateIsNoticed
  <2>3. CASE StartSpeaker \/ SpeakerReturns
    BY <1>1, <2>3 DEF StartSpeaker, SpeakerReturns, Act, VcuRuns, IInv, OneLateCommand, LateIsNoticed
  <2>4. CASE Driving
    <3>1. lateCommands = 0
      BY <1>1, <2>4 DEF Driving, Act, VcuRuns, IInv, LateIsNoticed
    <3>2. lateCommands' \in {0, 1} /\ (lateCommands' = 1 => faultBitMap # {}) /\ vcuStep' = "faults"
      BY <2>4, <3>1 DEF Driving, DTI_SendEnableCommand, CountLate
    <3>3. QED
      BY <1>1, <3>2 DEF OneLateCommand, LateIsNoticed
  <2>5. CASE Fault
    BY <1>1, <2>5 DEF Fault, IInv, OneLateCommand, LateIsNoticed
  <2>6. QED
    BY <2>1, <2>2, <2>3, <2>4, <2>5 DEF Vcu, VcuCycle
<1>3. SilentWhileSounding'
  BY DEF Vcu, VcuCycle, HandleFaults, Precharging, Idle, StartSpeaker, SpeakerReturns, Driving,
         Fault, Act, VcuRuns, DTI_SendEnableCommand, SilentWhileSounding
<1>4. QED
  BY <1>2, <1>3, VcuTyping DEF IInv

\* The environment: the button and the tick.
LEMMA EnvironmentInv ==
    ASSUME IInv, ButtonUpdate \/ Tick
    PROVE  IInv'
<1>1. UNCHANGED <<faultBitMap, throttle, brake, vcuVars, busStep, loaded, received, pccComplete>>
  BY DEF ButtonUpdate, Tick, adcVars, busVars
<1>2. sinceBseHealthy' \in 0..(BseTimeout + 1)
  BY GrowTyping DEF ButtonUpdate, Tick, adcVars, IInv, TypeOK
<1>3. sinceFrame' \in 0..(CanTimeout + MaxPreempted + 1)
  <2>1. CanTimeout + MaxPreempted \in Nat
    OBVIOUS
  <2>2. sinceFrame \in 0..(CanTimeout + MaxPreempted + 1)
    BY DEF IInv, TypeOK
  <2>3. CASE Tick
    BY <2>1, <2>2, <2>3, GrowTyping DEF Tick
  <2>4. QED
    BY <2>2, <2>3 DEF ButtonUpdate, busVars
<1>4. sinceRun' \in 0..MaxPreempted
  BY DEF ButtonUpdate, Tick, busVars, IInv, TypeOK
<1>5. rtmState' \in BOOLEAN
  BY DEF ButtonUpdate, Tick, IInv, TypeOK
<1>6. TypeOK'
  BY <1>1, <1>2, <1>3, <1>4, <1>5 DEF IInv, TypeOK, vcuVars
<1>7. QED
  BY <1>1, <1>6 DEF IInv, OneLateCommand, LateIsNoticed, SilentWhileSounding, vcuVars

\* After a reset the controller is as it was at its start, whatever the inverter does.
LEMMA ResetInv ==
    ASSUME IInv, Reset
    PROVE  IInv'
<1>1. /\ 0 \in 0..(BseTimeout + 1)
      /\ 0 \in 0..MaxPreempted
      /\ 0 \in 0..(CanTimeout + MaxPreempted + 1)
  OBVIOUS
<1>2. TypeOK'
  BY <1>1 DEF Reset, IInv, TypeOK, Bits, VehicleStates, Throttles, Frames
<1>3. OneLateCommand' /\ LateIsNoticed' /\ SilentWhileSounding'
  BY DEF Reset, OneLateCommand, LateIsNoticed, SilentWhileSounding
<1>4. QED
  BY <1>2, <1>3 DEF IInv

LEMMA StepInv == IInv /\ [Next]_vars => IInv'
<1> SUFFICES ASSUME IInv, [Next]_vars PROVE IInv'
  OBVIOUS
<1>1. CASE Adc
  BY <1>1, AdcInv DEF Adc
<1>2. CASE BusStart \/ Receive \/ BusStore
  BY <1>2, BusInv
<1>3. CASE Vcu
  BY <1>3, VcuInv
<1>4. CASE ButtonUpdate \/ Tick
  BY <1>4, EnvironmentInv
<1>5. CASE Reset
  BY <1>5, ResetInv
<1>6. CASE UNCHANGED vars
  BY <1>6 DEF vars, adcVars, busVars, vcuVars, IInv, TypeOK, OneLateCommand,
              LateIsNoticed, SilentWhileSounding
<1>7. QED
  BY <1>1, <1>2, <1>3, <1>4, <1>5, <1>6 DEF Next

\* Every reachable state satisfies the inductive invariant.
THEOREM Invariance == Spec => []IInv
BY InitInv, StepInv, PTL DEF Spec

-----------------------------------------------------------------------------
(* The properties *)

\* Type correctness: in particular the vehicle state is always one the switch of
\* threadVCU has a case for.
THEOREM TypeCorrect == Spec => []TypeOK
BY Invariance, PTL DEF IInv

\* After a fault is raised one enable command at most is still sent, however the
\* threads preempt each other and whatever the sensors and the bus do.
THEOREM OneLate == Spec => []OneLateCommand
BY Invariance, PTL DEF IInv

\* The inverter is disabled while the ready-to-drive sound plays.
THEOREM Silent == Spec => []SilentWhileSounding
BY Invariance, PTL DEF IInv

-----------------------------------------------------------------------------
(* What the identifiers of the frames decide *)

\* id >> 8 keeps one digit of a standard identifier: no frame meets case pcc_ID.
LEMMA KeysOfFrames ==
    ASSUME NEW frame \in Frames
    PROVE  DispatchKey(frame) # 546
<1>1. FrameId[frame] = CASE frame = "none"     -> 0
                         [] frame = "inverter" -> 32 * 256 + 65
                         [] OTHER              -> 546
  BY DEF FrameId
<1>2. FrameId[frame] \in {0, 8257, 546}
  <2>1. CASE frame = "none"
    BY <1>1, <2>1
  <2>2. CASE frame = "inverter"
    BY <1>1, <2>2
  <2>3. CASE frame # "none" /\ frame # "inverter"
    BY <1>1, <2>3
  <2>4. QED
    BY <2>1, <2>2, <2>3
<1>3. QED
  BY <1>2 DEF DispatchKey

\* No step takes a report over.
LEMMA NoReport ==
    ASSUME TypeOK, [Next]_vars, ~pccComplete
    PROVE  ~pccComplete'
<1>1. CASE BusStore
  BY <1>1, KeysOfFrames DEF BusStore, TypeOK
<1>2. CASE Reset
  BY <1>2 DEF Reset
<1>3. CASE Adc \/ BusStart \/ Receive \/ ButtonUpdate \/ Tick \/ UNCHANGED vars
  BY <1>3 DEF Adc, AdcCycle, BusStart, Receive, BusReceive, ButtonUpdate, Tick,
              vars, busVars
<1>4. CASE Vcu
  BY <1>4 DEF Vcu, VcuCycle, HandleFaults, Precharging, Idle, StartSpeaker, SpeakerReturns,
              Driving, Fault, Act, busVars
<1>5. QED
  BY <1>1, <1>2, <1>3, <1>4 DEF Next

\* The precharge controller is never heard: whatever it reports, bus.cpp:120
\* dispatches the frame by an identifier shifted past its digits, and the data
\* that PCC_PrechargeComplete judges stays as Bus_Init left it.
THEOREM ReportsIgnored == Spec => []~pccComplete
<1>1. Init => ~pccComplete
  BY DEF Init
<1>2. TypeOK /\ [Next]_vars /\ ~pccComplete => ~pccComplete'
  BY NoReport
<1>3. QED
  BY <1>1, <1>2, TypeCorrect, PTL DEF Spec

\* So the case of vcu.cpp:81 never leads to IDLE: a vehicle that is precharging
\* stays so until a fault, or a reset, and drives once the fault has gone.
THEOREM OnlyFaultsEndPrecharge ==
    Spec => [][ vehicleState = "PRECHARGING" /\ vehicleState' # "PRECHARGING"
                  => HandleFaults /\ vehicleState' = "FAULT" ]_vars
<1> DEFINE Stays == vehicleState = "PRECHARGING" /\ vehicleState' # "PRECHARGING"
                      => HandleFaults /\ vehicleState' = "FAULT"
<1>1. ASSUME IInv, ~pccComplete, [Next]_vars
      PROVE  [Stays]_vars
  <2>1. CASE HandleFaults
    BY <2>1 DEF HandleFaults
  <2>2. CASE Precharging \/ Idle \/ StartSpeaker \/ SpeakerReturns \/ Driving \/ Fault
    BY <1>1, <2>2 DEF Precharging, Idle, StartSpeaker, SpeakerReturns, Driving, Fault,
                      Act, VcuRuns, IInv, SilentWhileSounding
  <2>3. CASE Adc \/ BusStart \/ Receive \/ BusStore \/ Reset \/ ButtonUpdate \/ Tick
    BY <2>3 DEF Adc, AdcCycle, BusStart, Receive, BusReceive, BusStore, Reset,
                ButtonUpdate, Tick, vcuVars
  <2>4. CASE UNCHANGED vars
    BY <2>4
  <2>5. QED
    BY <1>1, <2>1, <2>2, <2>3, <2>4 DEF Next, Vcu, VcuCycle
<1>2. QED
  BY <1>1, Invariance, ReportsIgnored, PTL DEF Spec

=============================================================================
