----------------------------- MODULE WheelSpeed -----------------------------
(***************************************************************************)
(* The wheel speeds of the vehicle controller (vehicle/devices/wss.cpp):   *)
(* interrupts count pulses, and WSS_Update turns the pulses counted since  *)
(* the last call into a speed. Two threads call it, threadVCU every 5 ms   *)
(* and threadMain every 100 ms. Only the counters are protected; the time  *)
(* of the last calculation is shared by the two without a lock.            *)
(*                                                                         *)
(* Priorities are fixed: threadVCU (4) preempts threadMain (1) anywhere in *)
(* its update and is never preempted by it, and the interrupts preempt     *)
(* both, except in the critical section. A time stamp is modelled by its   *)
(* age in ticks. The speeds of the two wheels are written in one step; a   *)
(* mixture of both threads' results differs in no property.                *)
(***************************************************************************)
EXTENDS Integers

CONSTANTS Wheels,
          Period,      \* ticks between two releases of a thread
          SoundTicks,  \* the time Speaker_Play blocks threadVCU for
          Word,        \* 2^32: unsigned long wraps around here
          MaxRun,      \* bound: ticks that pass while threadVCU is ready or running
          MaxHeld,     \* bound: ticks an update of threadMain takes
          MaxBacklog,  \* bound: releases a thread has not answered yet
          MaxPulses    \* bound: pulses of a wheel

VARIABLES
  pulses,     \* pulsesWheel1 and pulsesWheel2
  sinceCalc,  \* age of lastCalcTime
  step,       \* where a thread is in its cycle
  sinceRead,  \* age of the local currentTime of a thread, while it needs it
  dt,         \* the local dt_ms of a thread, while it needs it
  current,    \* the local currentPulses1 and currentPulses2 of a thread
  due,        \* releases of a thread (vTaskDelayUntil) it has not answered yet
  nextDue,    \* ticks until the next release of a thread
  soundLeft,  \* ticks until Speaker_Play returns
  ran,        \* ticks threadVCU has been ready or running for, in this cycle
  sinceTake,  \* history: age of the last reset of the counters
  window,     \* history: the time the pulses in current were counted in
  backToBack, \* history: threadVCU's cycle is its first, or one it did not wait for
  passed,     \* history: pulses of a wheel
  reported    \* history: pulses that went into a speed

update == <<pulses, sinceCalc, step, sinceRead, dt, current>>
schedule == <<due, nextDue, soundLeft, ran>>
history == <<sinceTake, window, backToBack, passed, reported>>
vars == <<update, schedule, history>>

Threads == {"vcu", "main"}

ASSUME WheelSpeedAssumption ==
    /\ Period \in [Threads -> Nat \ {0}]
    /\ {SoundTicks, MaxRun, MaxHeld, MaxPulses} \subseteq Nat
    /\ MaxBacklog \in Nat \ {0}
    /\ Word \in Nat
    /\ SoundTicks + Period["vcu"] + 2 * MaxRun + MaxHeld < Word

Steps == {"waiting", "entered", "measured", "taken", "sounding"}

TypeOK ==
    /\ pulses \in [Wheels -> Nat]
    /\ sinceCalc \in Nat
    /\ step \in [Threads -> Steps]
    /\ sinceRead \in [Threads -> Nat]
    /\ dt \in [Threads -> 0..(Word - 1)]
    /\ current \in [Threads -> [Wheels -> Nat]]
    /\ due \in [Threads -> 0..MaxBacklog]
    /\ nextDue \in [Threads -> Nat]
    /\ \A t \in Threads : nextDue[t] \in 1..Period[t]
    /\ soundLeft \in 0..SoundTicks
    /\ ran \in 0..MaxRun
    /\ sinceTake \in Nat
    /\ window \in [Threads -> Nat]
    /\ backToBack \in BOOLEAN
    /\ passed \in [Wheels -> Nat]
    /\ reported \in [Wheels -> Nat]

Zero == [w \in Wheels |-> 0]
Plus(f, g) == [w \in Wheels |-> f[w] + g[w]]

\* The start of the scheduler: each thread runs its first cycle at once.
Init ==
    /\ pulses = Zero
    /\ sinceCalc = 0
    /\ step = [t \in Threads |-> "waiting"]
    /\ sinceRead = [t \in Threads |-> 0]
    /\ dt = [t \in Threads |-> 0]
    /\ current = [t \in Threads |-> Zero]
    /\ due = [t \in Threads |-> 1]
    /\ nextDue = Period
    /\ soundLeft = 0
    /\ ran = 0
    /\ sinceTake = 0
    /\ window = [t \in Threads |-> 0]
    /\ backToBack = TRUE
    /\ passed = Zero
    /\ reported = Zero

-----------------------------------------------------------------------------
(* Scheduling *)

\* threadVCU wants the processor: in a cycle, released, or after the delay of a sound.
VcuReady ==
    \/ step["vcu"] \in {"entered", "measured", "taken"}
    \/ step["vcu"] = "waiting" /\ due["vcu"] > 0
    \/ step["vcu"] = "sounding" /\ soundLeft = 0

Runs(t, s) == step[t] = s /\ (t = "main" => ~VcuReady)

\* Mutant of Answer: xLastWakeTime is not advanced.
AnswerNever(t) == due[t] > 0 /\ UNCHANGED due

\* vTaskDelayUntil returns, at once if the next wake time has passed already.
Answer(t) == due[t] > 0 /\ due' = [due EXCEPT ![t] = @ - 1]

-----------------------------------------------------------------------------
(* WSS_Update *)

\* The interrupt of a wheel.
ISR_Wheel(w) ==
    /\ passed[w] < MaxPulses
    /\ pulses' = [pulses EXCEPT ![w] = @ + 1]
    /\ passed' = [passed EXCEPT ![w] = @ + 1]
    /\ UNCHANGED <<sinceCalc, step, sinceRead, dt, current, schedule, sinceTake,
                   window, backToBack, reported>>

\* A cycle begins, and with it WSS_Update: currentTime is read.
Enter(t) ==
    /\ Runs(t, "waiting")
    /\ Answer(t)
    /\ step' = [step EXCEPT ![t] = "entered"]
    /\ sinceRead' = [sinceRead EXCEPT ![t] = 0]
    /\ UNCHANGED <<pulses, sinceCalc, dt, current, nextDue, soundLeft, ran, history>>

\* Mutant of Elapsed: a signed difference.
ElapsedSigned(read, calc) == calc - read

\* currentTime - lastCalcTime, an unsigned difference.
Elapsed(read, calc) == (calc - read) % Word

Measure(t) ==
    /\ Runs(t, "entered")
    /\ step' = [step EXCEPT ![t] = "measured"]
    /\ dt' = [dt EXCEPT ![t] = Elapsed(sinceRead[t], sinceCalc)]
    /\ UNCHANGED <<pulses, sinceCalc, sinceRead, current, schedule, history>>

\* Mutant of Take: without the critical section a pulse may fall between the
\* load of its counter and the reset.
TakeUnprotected(t) ==
    /\ Runs(t, "measured")
    /\ step' = [step EXCEPT ![t] = "taken"]
    /\ current' = [current EXCEPT ![t] = pulses]
    /\ pulses' = Zero
    /\ \/ UNCHANGED passed
       \/ \E w \in Wheels : passed[w] < MaxPulses /\ passed' = [passed EXCEPT ![w] = @ + 1]
    /\ window' = [window EXCEPT ![t] = sinceTake]
    /\ sinceTake' = 0
    /\ UNCHANGED <<sinceCalc, sinceRead, dt, schedule, backToBack, reported>>

\* The critical section: both counters are copied and reset.
Take(t) ==
    /\ Runs(t, "measured")
    /\ step' = [step EXCEPT ![t] = "taken"]
    /\ current' = [current EXCEPT ![t] = pulses]
    /\ pulses' = Zero
    /\ window' = [window EXCEPT ![t] = sinceTake]
    /\ sinceTake' = 0
    /\ UNCHANGED <<sinceCalc, sinceRead, dt, schedule, backToBack, passed, reported>>

\* Mutant of Stamp: the time is read again at the end of the update.
StampNow(t) == sinceCalc' = 0

\* lastCalcTime = currentTime.
Stamp(t) == sinceCalc' = sinceRead[t]

\* The speeds are computed from current and dt, and the update ends. What follows
\* in the cycle of threadVCU may play the ready-to-drive sound.
Publish(t) ==
    /\ Runs(t, "taken")
    /\ reported' = Plus(reported, current[t])
    /\ Stamp(t)
    /\ \/ step' = [step EXCEPT ![t] = "waiting"] /\ UNCHANGED soundLeft
       \/ /\ t = "vcu" /\ due[t] = 0     \* bound: no sound while one is being made up for
          /\ step' = [step EXCEPT ![t] = "sounding"]
          /\ soundLeft' = SoundTicks
    /\ ran' = IF t = "vcu" THEN 0 ELSE ran
    /\ backToBack' = IF t = "vcu" THEN due[t] > 0 ELSE backToBack
    /\ sinceRead' = [sinceRead EXCEPT ![t] = 0]     \* the locals are dead now
    /\ dt' = [dt EXCEPT ![t] = 0]
    /\ current' = [current EXCEPT ![t] = Zero]
    /\ window' = [window EXCEPT ![t] = 0]
    /\ UNCHANGED <<pulses, due, nextDue, sinceTake, passed>>

\* Speaker_Play returns.
SoundEnds ==
    /\ step["vcu"] = "sounding" /\ soundLeft = 0
    /\ step' = [step EXCEPT !["vcu"] = "waiting"]
    /\ UNCHANGED <<pulses, sinceCalc, sinceRead, dt, current, schedule, history>>

Cycle(t) == Enter(t) \/ Measure(t) \/ Take(t) \/ Publish(t)

-----------------------------------------------------------------------------
(* Time *)

Holding(t) == step[t] \in {"entered", "measured", "taken"}

\* The FreeRTOS tick: stamps get older and threads are released.
Tick ==
    /\ VcuReady => ran < MaxRun
    /\ step["vcu"] = "sounding" => soundLeft > 0
    /\ Holding("main") => sinceRead["main"] < MaxHeld
    /\ \A t \in Threads : nextDue[t] = 1 => due[t] < MaxBacklog
    /\ nextDue' = [t \in Threads |-> IF nextDue[t] = 1 THEN Period[t] ELSE nextDue[t] - 1]
    /\ due' = [t \in Threads |-> IF nextDue[t] = 1 THEN due[t] + 1 ELSE due[t]]
    /\ soundLeft' = IF step["vcu"] = "sounding" THEN soundLeft - 1 ELSE soundLeft
    /\ ran' = IF VcuReady THEN ran + 1 ELSE ran
    /\ sinceCalc' = sinceCalc + 1
    /\ sinceTake' = sinceTake + 1
    /\ sinceRead' = [t \in Threads |-> IF Holding(t) THEN sinceRead[t] + 1 ELSE sinceRead[t]]
    /\ UNCHANGED <<pulses, step, dt, current, window, backToBack, passed, reported>>

Pulse == \E w \in Wheels : ISR_Wheel(w)

Next == Pulse \/ Cycle("vcu") \/ SoundEnds \/ Cycle("main") \/ Tick

Spec == Init /\ [][Next]_vars

\* The steps of threadVCU are taken when it is ready; threadMain gets the
\* processor whenever threadVCU leaves it, again and again.
Fairness ==
    /\ WF_vars(Cycle("vcu")) /\ WF_vars(SoundEnds)
    /\ SF_vars(Cycle("main"))
    /\ WF_vars(Tick)

FairSpec == Spec /\ Fairness

-----------------------------------------------------------------------------
(* Properties *)

\* Every pulse is in one speed, or will be: it is counted, in the hands of one
\* thread, or reported, however the threads and interrupts preempt each other.
EachPulseOnce ==
    \A w \in Wheels :
        passed[w] = pulses[w] + current["vcu"][w] + current["main"][w] + reported[w]

\* The time threadVCU divides by, dt_ms, and the time its pulses were counted in differ by
\* no more than the ticks that went by while it ran (too short: the speed is overstated)
\* and those of the pulses threadMain has taken and not yet stamped (too long: it is
\* understated), and the difference does not wrap around. In a cycle threadVCU has waited
\* for dt_ms is not 0, so the division at wss.cpp:45 is by 0 in its first cycle at most,
\* and in those that follow at once because a release was missed.
VcuSpeedIsTrue ==
    step["vcu"] = "taken" =>
        /\ window["vcu"] <= dt["vcu"] + MaxRun
        /\ dt["vcu"] <= window["vcu"] + window["main"] + MaxHeld + MaxRun
        /\ dt["vcu"] = 0 => backToBack

\* threadMain updates the wheel speeds again and again: it is not starved by a
\* threadVCU that makes up for the releases a sound has cost it.
MainReports == []<>(step["main"] = "taken")
=============================================================================
