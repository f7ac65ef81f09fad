------------------------------- MODULE Watchdog -------------------------------
(***************************************************************************)
(* The watchdog of the vehicle controller (fsae-ccm, peripherals/wdt.cpp). *)
(* Four periodic threads write the tick of their last cycle; threadWDT     *)
(* feeds the hardware watchdog when no tick is too old, and the hardware   *)
(* resets the controller when it is not fed in time.                       *)
(*                                                                         *)
(* threadWDT has the highest priority, so its check runs first in its      *)
(* tick and its relative delay is an exact period. The others run later in *)
(* the tick of their release or up to MaxLate ticks after it. A thread     *)
(* that hangs is what the watchdog is there for; threadVCU also blocks     *)
(* itself for as long as the ready-to-drive sound plays.                   *)
(***************************************************************************)
EXTENDS Naturals

CONSTANTS Threads,          \* the threads with a *_last_run_tick
          VcuThread,        \* threadVCU, the one that plays the sound
          Period,           \* period of each thread, in ticks
          Threshold,        \* *_FAULT_TIME_THRESHOLD_MS, the same for all
          CheckPeriod,      \* WDT_CHECK_PERIOD_MS
          HardwareTimeout,  \* config.timeout
          SoundTime,        \* speakerDuration
          MaxLate,          \* how late a thread may run
          MayHang           \* the threads that may hang

ASSUME WatchdogAssumption ==
    /\ VcuThread \in Threads
    /\ Period \in [Threads -> Nat \ {0}]
    /\ {Threshold, CheckPeriod, HardwareTimeout, SoundTime} \subseteq Nat \ {0}
    /\ MaxLate \in Nat
    /\ MayHang \subseteq Threads

VARIABLES age,        \* ticks since *_last_run_tick
          phase,      \* ticks since the planned release of the cycle
          pending,    \* the threads that are released and have not run
          started,    \* the threads that have run since the start
          hung,       \* the threads that no longer run
          sound,      \* ticks the sound still plays
          nextCheck,  \* ticks until threadWDT runs
          mask,       \* the threads overdue at the last check
          sinceFeed   \* ticks since the hardware was fed

vars == <<age, phase, pending, started, hung, sound, nextCheck, mask, sinceFeed>>

TypeOK ==
    /\ age \in [Threads -> Nat]
    /\ phase \in [Threads -> Nat]
    /\ \A t \in Threads : phase[t] < Period[t]
    /\ pending \subseteq Threads
    /\ started \subseteq Threads
    /\ hung \subseteq MayHang
    /\ sound \in 0..SoundTime
    /\ nextCheck \in 0..CheckPeriod
    /\ mask \subseteq Threads
    /\ sinceFeed \in 0..HardwareTimeout

\* setup, WDT_Init and vTaskStartScheduler: every thread is ready, and the stamps
\* are those of WDT_Init.
Init ==
    /\ age = [t \in Threads |-> 0]
    /\ phase = [t \in Threads |-> 0]
    /\ pending = Threads
    /\ started = {}
    /\ hung = {}
    /\ sound = 0
    /\ nextCheck = 0
    /\ mask = {}
    /\ sinceFeed = 0

-----------------------------------------------------------------------------

\* Mutant of Overdue: one thread only is looked at.
OverdueVcu == {t \in {VcuThread} : age[t] >= Threshold}

\* The bits of mask that a check sets.
Overdue == {t \in Threads : age[t] >= Threshold}

\* Mutants of Check: the delay is one tick too long; the mask has to be full.
CheckLater ==
    /\ nextCheck = 0
    /\ mask' = Overdue
    /\ sinceFeed' = IF mask' = {} THEN 0 ELSE sinceFeed
    /\ nextCheck' = CheckPeriod + 1
    /\ UNCHANGED <<age, phase, pending, started, hung, sound>>

CheckFullMask ==
    /\ nextCheck = 0
    /\ mask' = Overdue
    /\ sinceFeed' = IF mask' = Threads THEN 0 ELSE sinceFeed
    /\ nextCheck' = CheckPeriod
    /\ UNCHANGED <<age, phase, pending, started, hung, sound>>

\* One cycle of threadWDT.
Check ==
    /\ nextCheck = 0
    /\ mask' = Overdue
    /\ sinceFeed' = IF mask' = {} THEN 0 ELSE sinceFeed
    /\ nextCheck' = CheckPeriod
    /\ UNCHANGED <<age, phase, pending, started, hung, sound>>

\* A thread that could run now.
Able(t) == t \in pending /\ t \notin hung /\ (t = VcuThread => sound = 0)

\* A cycle of a thread: it takes its tick. The first cycle fixes the time the
\* later releases are counted from (xLastWakeTime).
Run(t) ==
    /\ Able(t)
    /\ nextCheck # 0
    /\ age' = [age EXCEPT ![t] = 0]
    /\ phase' = IF t \in started THEN phase ELSE [phase EXCEPT ![t] = 0]
    /\ pending' = pending \ {t}
    /\ started' = started \cup {t}
    /\ UNCHANGED <<hung, nextCheck, mask, sinceFeed>>

\* A cycle of threadVCU that starts the sound, and any other cycle.
RunWithSound == Run(VcuThread) /\ sound' = SoundTime
RunQuietly(t) == Run(t) /\ UNCHANGED sound

Hang(t) ==
    /\ t \in MayHang
    /\ hung' = hung \cup {t}
    /\ UNCHANGED <<age, phase, pending, started, sound, nextCheck, mask, sinceFeed>>

\* The tick interrupt. Nothing that is due now is put off: not the check, not the
\* reset by the hardware, nor a thread that is as late as it may be.
Tick ==
    /\ nextCheck # 0
    /\ sinceFeed < HardwareTimeout
    /\ \A t \in Threads : Able(t) => phase[t] < MaxLate
    /\ age' = [t \in Threads |-> age[t] + 1]
    /\ phase' = [t \in Threads |-> IF phase[t] + 1 = Period[t] THEN 0 ELSE phase[t] + 1]
    /\ pending' = pending \cup {t \in Threads : phase'[t] = 0}
    /\ sound' = IF sound = 0 THEN 0 ELSE sound - 1
    /\ nextCheck' = nextCheck - 1
    /\ sinceFeed' = sinceFeed + 1
    /\ UNCHANGED <<started, hung, mask>>

\* The hardware resets the controller, which starts again.
Reset ==
    /\ sinceFeed = HardwareTimeout
    /\ nextCheck # 0
    /\ age' = [t \in Threads |-> 0]
    /\ phase' = [t \in Threads |-> 0]
    /\ pending' = Threads
    /\ started' = {}
    /\ hung' = {}
    /\ sound' = 0
    /\ nextCheck' = 0
    /\ mask' = {}
    /\ sinceFeed' = 0

Next == \/ Check \/ Tick \/ Reset \/ RunWithSound
        \/ \E t \in Threads : RunQuietly(t) \/ Hang(t)

Spec == Init /\ [][Next]_vars

-----------------------------------------------------------------------------
(* Safety *)

\* The real-time promise: no thread goes without a cycle for longer than its
\* threshold and the hardware timeout together; by then the controller has been
\* reset, whatever the phases of thread, check and hardware.
StallIsBounded == \A t \in Threads : age[t] < Threshold + HardwareTimeout

\* The hardware is never left unfed without a cause: beyond one check period, the
\* last check found a thread overdue.
StarvingHasCause == sinceFeed > CheckPeriod => mask # {}

-----------------------------------------------------------------------------
(* What the sources say and the program does not do *)

\* "Play Ready to Drive sound" (vehicle/vcu.cpp:96): the sound, once started, is
\* played to its end.
SoundCompletes == [][sound > 1 => sound' # 0]_vars
=============================================================================
