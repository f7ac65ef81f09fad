-------------------------- MODULE WheelSpeedProofs --------------------------
(***************************************************************************)
(* Proofs about module WheelSpeed: for every number of wheels, all periods *)
(* and any duration of the sound and of preemption.                        *)
(***************************************************************************)
EXTENDS WheelSpeed, TLAPS

USE WheelSpeedAssumption DEF WheelSpeedAssumption, Threads

\* Time stamps of a thread are bounded by the time it has been running for, and
\* it holds pulses only between taking and reporting them.
Running ==
    /\ sinceRead["vcu"] <= ran
    /\ ~VcuReady \/ step["vcu"] = "sounding" => ran = 0
    /\ sinceRead["main"] <= MaxHeld
    /\ \A t \in Threads : step[t] # "taken" => current[t] = Zero /\ window[t] = 0

\* lastCalcTime is bounded, so that differences with it do not wrap around: it
\* ages until threadVCU is released, and while that runs.
CalcIsRecent ==
    /\ step["vcu"] = "sounding" => sinceCalc + soundLeft <= MaxRun + MaxHeld + SoundTicks
    /\ step["vcu"] = "waiting" /\ due["vcu"] = 0 =>
          sinceCalc + nextDue["vcu"] <= MaxRun + MaxHeld + SoundTicks + Period["vcu"]
    /\ VcuReady => sinceCalc <= MaxRun + MaxHeld + SoundTicks + Period["vcu"] + ran

\* The counters were reset after the time the last speed was stamped with, and not
\* much later, but for the time of the pulses a thread holds between the two.
TakenAfterStamp ==
    /\ sinceTake <= sinceCalc
    /\ \A t \in Threads : step[t] = "taken" => sinceTake <= sinceRead[t]
    /\ sinceCalc <= sinceTake + window["vcu"] + window["main"] + MaxHeld + MaxRun

\* threadVCU's dt_ms is the exact difference: nothing stamps while it runs.
VcuExact ==
    /\ step["vcu"] = "entered" => sinceRead["vcu"] <= sinceCalc
    /\ step["vcu"] \in {"measured", "taken"} => dt["vcu"] + sinceRead["vcu"] = sinceCalc

\* threadVCU is released by a tick, and threadMain does not run until the update has
\* ended: lastCalcTime is older than the time threadVCU reads, unless it did not wait.
NotAtOnce ==
    ~backToBack =>
        /\ step["vcu"] = "waiting" /\ due["vcu"] > 0 => sinceCalc >= 1
        /\ step["vcu"] = "sounding" /\ soundLeft = 0 /\ due["vcu"] > 0 => sinceCalc >= 1
        /\ step["vcu"] = "entered" => sinceRead["vcu"] < sinceCalc
        /\ step["vcu"] \in {"measured", "taken"} => dt["vcu"] > 0

\* The inductive invariant.
IInv ==
    /\ TypeOK
    /\ EachPulseOnce
    /\ Running
    /\ CalcIsRecent
    /\ TakenAfterStamp
    /\ VcuExact
    /\ NotAtOnce
    /\ VcuSpeedIsTrue

-----------------------------------------------------------------------------
(* Lemmas *)

\* An unsigned difference is the difference, when that is a value of the type.
LEMMA NoWrap ==
    ASSUME NEW read \in Nat, NEW calc \in Nat, read <= calc, calc < Word
    PROVE  Elapsed(read, calc) = calc - read
BY DEF Elapsed

LEMMA WordPositive == Word \in Nat \ {0}
<1>1. /\ Word \in Nat /\ SoundTicks \in Nat /\ MaxRun \in Nat /\ MaxHeld \in Nat
      /\ Period["vcu"] \in Nat
      /\ SoundTicks + Period["vcu"] + 2 * MaxRun + MaxHeld < Word
  OBVIOUS
<1>2. QED
  BY <1>1

\* An unsigned difference is a value of the type, wrapped around or not.
LEMMA ElapsedTyping ==
    ASSUME NEW read \in Nat, NEW calc \in Nat
    PROVE  Elapsed(read, calc) \in 0..(Word - 1)
<1>1. \A x \in Int : x % Word \in 0..(Word - 1)
  BY WordPositive
<1>2. QED
  BY <1>1 DEF Elapsed

LEMMA InitInv == Init => IInv
<1> SUFFICES ASSUME Init PROVE IInv
  OBVIOUS
<1> USE DEF Init
<1>1. TypeOK
  <2>1. 0 \in 0..(Word - 1) /\ Zero \in [Wheels -> Nat]
    BY WordPositive DEF Zero
  <2>2. QED
    BY <2>1 DEF TypeOK, Steps
<1>2. EachPulseOnce
  <2> SUFFICES ASSUME NEW w \in Wheels
               PROVE  passed[w] = pulses[w] + current["vcu"][w] + current["main"][w] + reported[w]
    BY DEF EachPulseOnce
  <2>1. Zero[w] = 0
    BY DEF Zero
  <2>2. current["vcu"] = Zero /\ current["main"] = Zero
    OBVIOUS
  <2>3. passed[w] = 0 /\ pulses[w] = 0 /\ reported[w] = 0
    BY <2>1
  <2>4. QED
    BY <2>1, <2>2, <2>3
<1>3. Running /\ CalcIsRecent /\ TakenAfterStamp /\ VcuExact /\ NotAtOnce /\ VcuSpeedIsTrue
  BY DEF Init, Running, CalcIsRecent, TakenAfterStamp, VcuExact, NotAtOnce, VcuSpeedIsTrue,
         VcuReady
<1>4. QED
  BY <1>1, <1>2, <1>3 DEF IInv

-----------------------------------------------------------------------------
(* The invariant is inductive: one lemma per action *)

LEMMA PulseInv ==
    ASSUME IInv, NEW w \in Wheels, ISR_Wheel(w)
    PROVE  IInv'
<1>1. TypeOK'
  BY DEF IInv, TypeOK, ISR_Wheel, schedule
<1>2. EachPulseOnce'
  BY DEF IInv, TypeOK, EachPulseOnce, ISR_Wheel
<1>3. Running' /\ CalcIsRecent' /\ TakenAfterStamp' /\ VcuExact' /\ NotAtOnce' /\ VcuSpeedIsTrue'
  BY DEF IInv, ISR_Wheel, schedule, Running, CalcIsRecent, TakenAfterStamp, VcuExact, NotAtOnce,
         VcuSpeedIsTrue, VcuReady
<1>4. QED
  BY <1>1, <1>2, <1>3 DEF IInv

LEMMA EnterInv ==
    ASSUME IInv, NEW t \in Threads, Enter(t)
    PROVE  IInv'
<1>1. TypeOK'
  BY DEF IInv, TypeOK, Enter, Answer, history, Steps
<1>2. EachPulseOnce'
  BY DEF IInv, EachPulseOnce, Enter, history
<1>3. Running' /\ CalcIsRecent' /\ TakenAfterStamp' /\ VcuExact' /\ NotAtOnce' /\ VcuSpeedIsTrue'
  BY DEF IInv, TypeOK, Enter, Answer, Runs, history, Running, CalcIsRecent, TakenAfterStamp,
         VcuExact, NotAtOnce, VcuSpeedIsTrue, VcuReady
<1>4. QED
  BY <1>1, <1>2, <1>3 DEF IInv

LEMMA MeasureInv ==
    ASSUME IInv, NEW t \in Threads, Measure(t)
    PROVE  IInv'
<1>1. TypeOK'
  <2>1. Elapsed(sinceRead[t], sinceCalc) \in 0..(Word - 1)
    BY ElapsedTyping DEF IInv, TypeOK
  <2>2. QED
    BY <2>1 DEF IInv, TypeOK, Measure, schedule, history, Steps
<1>2. EachPulseOnce'
  BY DEF IInv, EachPulseOnce, Measure, history
<1>3. Running' /\ CalcIsRecent' /\ TakenAfterStamp' /\ VcuSpeedIsTrue'
  BY DEF IInv, TypeOK, Measure, Runs, schedule, history, Running, CalcIsRecent,
         TakenAfterStamp, VcuSpeedIsTrue, VcuReady
<1>4. VcuExact' /\ NotAtOnce'
  <2>1. CASE t = "vcu"
    <3>1. sinceRead[t] <= sinceCalc /\ sinceCalc < Word
      BY <2>1 DEF IInv, TypeOK, Measure, Runs, VcuExact, CalcIsRecent, VcuReady
    <3>2. Elapsed(sinceRead[t], sinceCalc) = sinceCalc - sinceRead[t]
      BY <3>1, NoWrap DEF IInv, TypeOK
    <3>3. QED
      BY <2>1, <3>2 DEF IInv, TypeOK, Measure, Runs, history, schedule, VcuExact, NotAtOnce
  <2>2. CASE t = "main"
    BY <2>2 DEF IInv, TypeOK, Measure, history, schedule, VcuExact, NotAtOnce
  <2>3. QED
    BY <2>1, <2>2
<1>5. QED
  BY <1>1, <1>2, <1>3, <1>4 DEF IInv

LEMMA TakeInv ==
    ASSUME IInv, NEW t \in Threads, Take(t)
    PROVE  IInv'
<1>1. TypeOK'
  BY DEF IInv, TypeOK, Take, schedule, Steps, Zero
<1>2. EachPulseOnce'
  <2>1. current[t] = Zero
    BY DEF IInv, Running, Take, Runs
  <2>2. QED
    BY <2>1 DEF IInv, TypeOK, EachPulseOnce, Take, Zero
<1>3. Running' /\ CalcIsRecent' /\ TakenAfterStamp' /\ VcuExact' /\ NotAtOnce'
  BY DEF IInv, TypeOK, Take, Runs, schedule, Running, CalcIsRecent, TakenAfterStamp,
         VcuExact, NotAtOnce, VcuReady
<1>4. VcuSpeedIsTrue'
  BY DEF IInv, TypeOK, Take, Runs, schedule, Running, TakenAfterStamp, VcuExact, NotAtOnce,
         VcuSpeedIsTrue, VcuReady
<1>5. QED
  BY <1>1, <1>2, <1>3, <1>4 DEF IInv

LEMMA PublishInv ==
    ASSUME IInv, NEW t \in Threads, Publish(t)
    PROVE  IInv'
<1>1. TypeOK'
  <2>1. backToBack' \in BOOLEAN
    <3>1. backToBack \in BOOLEAN /\ (due[t] > 0) \in BOOLEAN
      BY DEF IInv, TypeOK
    <3>2. backToBack' = (due[t] > 0) \/ backToBack' = backToBack
      BY DEF Publish
    <3>3. QED
      BY <3>1, <3>2, Zenon
  <2>2. /\ step' \in [Threads -> Steps]
        /\ dt' \in [Threads -> 0..(Word - 1)]
    BY WordPositive DEF IInv, TypeOK, Publish, Steps
  <2>3. /\ current' \in [Threads -> [Wheels -> Nat]]
        /\ reported' \in [Wheels -> Nat]
    BY DEF IInv, TypeOK, Publish, Zero, Plus
  <2>4. /\ sinceCalc' \in Nat /\ soundLeft' \in 0..SoundTicks /\ ran' \in 0..MaxRun
        /\ sinceRead' \in [Threads -> Nat] /\ window' \in [Threads -> Nat]
    BY DEF IInv, TypeOK, Publish, Stamp
  <2>5. QED
    BY <2>1, <2>2, <2>3, <2>4 DEF IInv, TypeOK, Publish
<1>2. EachPulseOnce'
  BY DEF IInv, TypeOK, EachPulseOnce, Publish, Zero, Plus
<1>3. Running' /\ CalcIsRecent'
  BY DEF IInv, TypeOK, Publish, Stamp, Runs, Running, CalcIsRecent, VcuReady
<1>4. TakenAfterStamp'
  BY DEF IInv, TypeOK, Publish, Stamp, Runs, Running, TakenAfterStamp
<1>5. VcuExact' /\ VcuSpeedIsTrue'
  BY DEF IInv, TypeOK, Publish, Stamp, Runs, VcuExact, VcuSpeedIsTrue, VcuReady
<1>6. NotAtOnce'
  BY DEF IInv, TypeOK, Publish, Stamp, Runs, NotAtOnce, VcuReady
<1>7. QED
  BY <1>1, <1>2, <1>3, <1>4, <1>5, <1>6 DEF IInv

LEMMA SoundEndsInv == ASSUME IInv, SoundEnds PROVE IInv'
<1>1. TypeOK'
  BY DEF IInv, TypeOK, SoundEnds, schedule, history, Steps
<1>2. EachPulseOnce'
  BY DEF IInv, EachPulseOnce, SoundEnds, history
<1>3. Running' /\ CalcIsRecent' /\ TakenAfterStamp' /\ VcuExact' /\ NotAtOnce' /\ VcuSpeedIsTrue'
  BY DEF IInv, TypeOK, SoundEnds, schedule, history, Running, CalcIsRecent,
         TakenAfterStamp, VcuExact, NotAtOnce, VcuSpeedIsTrue, VcuReady
<1>4. QED
  BY <1>1, <1>2, <1>3 DEF IInv

LEMMA TickInv == ASSUME IInv, Tick PROVE IInv'
<1>1. TypeOK'
  <2>1. due' \in [Threads -> 0..MaxBacklog] /\ nextDue' \in [Threads -> Nat]
    BY DEF IInv, TypeOK, Tick
  <2>2. \A t \in Threads : nextDue'[t] \in 1..Period[t]
    BY DEF IInv, TypeOK, Tick
  <2>3. soundLeft' \in 0..SoundTicks /\ ran' \in 0..MaxRun
    BY DEF IInv, TypeOK, Running, Tick
  <2>4. QED
    BY <2>1, <2>2, <2>3 DEF IInv, TypeOK, Tick
<1>2. EachPulseOnce'
  BY DEF IInv, EachPulseOnce, Tick
<1>3. Running'
  BY DEF IInv, TypeOK, Tick, Running, VcuReady, Holding
<1>4. CalcIsRecent'
  BY DEF IInv, TypeOK, Tick, Running, CalcIsRecent, VcuReady
<1>5. TakenAfterStamp' /\ VcuExact' /\ NotAtOnce' /\ VcuSpeedIsTrue'
  BY DEF IInv, TypeOK, Tick, TakenAfterStamp, VcuExact, NotAtOnce, VcuSpeedIsTrue, Holding
<1>6. QED
  BY <1>1, <1>2, <1>3, <1>4, <1>5 DEF IInv

LEMMA StepInv == IInv /\ [Next]_vars => IInv'
<1> SUFFICES ASSUME IInv, [Next]_vars PROVE IInv'
  OBVIOUS
<1>1. CASE Pulse
  BY <1>1, PulseInv DEF Pulse
<1>2. ASSUME NEW t \in Threads, Cycle(t) PROVE IInv'
  BY <1>2, EnterInv, MeasureInv, TakeInv, PublishInv DEF Cycle
<1>3. CASE SoundEnds
  BY <1>3, SoundEndsInv
<1>4. CASE Tick
  BY <1>4, TickInv
<1>5. CASE UNCHANGED vars
  BY <1>5 DEF vars, update, schedule, history, IInv, TypeOK, EachPulseOnce, Running,
              CalcIsRecent, TakenAfterStamp, VcuExact, NotAtOnce, VcuSpeedIsTrue, VcuReady
<1>6. QED
  BY <1>1, <1>2, <1>3, <1>4, <1>5 DEF Next

\* Every reachable state satisfies the inductive invariant.
THEOREM Invariance == Spec => []IInv
BY InitInv, StepInv, PTL DEF Spec

-----------------------------------------------------------------------------
(* The properties *)

\* Type correctness: the unsigned difference is a value of its type.
THEOREM TypeCorrect == Spec => []TypeOK
BY Invariance, PTL DEF IInv

\* Every pulse goes into one speed, however threads and interrupts interleave.
THEOREM PulseOnce == Spec => []EachPulseOnce
BY Invariance, PTL DEF IInv

\* threadVCU divides by the time its pulses were counted in, up to the ticks that pass while
\* it runs and those of the pulses threadMain holds, and by 0 only in its first cycle and in
\* cycles it has not waited for.
THEOREM VcuSpeed == Spec => []VcuSpeedIsTrue
BY Invariance, PTL DEF IInv
=============================================================================
