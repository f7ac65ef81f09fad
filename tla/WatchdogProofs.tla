---------------------------- MODULE WatchdogProofs ----------------------------
(***************************************************************************)
(* Proofs about module Watchdog, for every set of threads, every period,   *)
(* threshold and timeout, and every lateness.                              *)
(***************************************************************************)
EXTENDS Watchdog, TLAPS

USE WatchdogAssumption DEF WatchdogAssumption

\* A feed finds every age below the threshold; age and time since the feed grow
\* together from there.
AgeFollowsFeed == \A t \in Threads : age[t] < sinceFeed + Threshold

\* A check that finds no thread overdue feeds; the next one is due a period later.
CleanCheckFeeds == mask = {} => sinceFeed + nextCheck <= CheckPeriod

\* The inductive invariant.
IInv ==
    /\ TypeOK
    /\ AgeFollowsFeed
    /\ CleanCheckFeeds

-----------------------------------------------------------------------------
(* The invariant is inductive *)

LEMMA InitInv == Init => IInv
<1> SUFFICES ASSUME Init PROVE IInv
  OBVIOUS
<1>1. TypeOK
  BY DEF Init, TypeOK
<1>2. AgeFollowsFeed /\ CleanCheckFeeds
  BY DEF Init, AgeFollowsFeed, CleanCheckFeeds
<1>3. QED
  BY <1>1, <1>2 DEF IInv

LEMMA CheckInv ==
    ASSUME IInv, Check
    PROVE  IInv'
<1>1. TypeOK'
  BY DEF IInv, TypeOK, Check, Overdue
<1>2. AgeFollowsFeed'
  <2>1. CASE mask' = {}
    <3>1. \A t \in Threads : age[t] < Threshold
      BY <2>1 DEF Check, Overdue, IInv, TypeOK
    <3>2. QED
      BY <2>1, <3>1 DEF Check, AgeFollowsFeed, IInv, TypeOK
  <2>2. CASE mask' # {}
    BY <2>2 DEF Check, AgeFollowsFeed, IInv
  <2>3. QED
    BY <2>1, <2>2
<1>3. CleanCheckFeeds'
  BY DEF Check, CleanCheckFeeds
<1>4. QED
  BY <1>1, <1>2, <1>3 DEF IInv

\* A cycle of a thread, with the sound or without.
LEMMA RunInv ==
    ASSUME IInv, NEW t \in Threads, Run(t), sound' \in 0..SoundTime
    PROVE  IInv'
<1>1. \A u \in Threads : age'[u] \in Nat /\ age'[u] <= age[u]
  BY DEF IInv, TypeOK, Run
<1>2. phase' \in [Threads -> Nat] /\ \A u \in Threads : phase'[u] < Period[u]
  <2>1. \A u \in Threads : Period[u] \in Nat \ {0}
    OBVIOUS
  <2>2. QED
    BY <2>1 DEF IInv, TypeOK, Run
<1>3. TypeOK'
  BY <1>1, <1>2 DEF IInv, TypeOK, Run
<1>4. AgeFollowsFeed'
  BY <1>1 DEF IInv, TypeOK, AgeFollowsFeed, Run
<1>5. CleanCheckFeeds'
  BY DEF IInv, CleanCheckFeeds, Run
<1>6. QED
  BY <1>3, <1>4, <1>5 DEF IInv

LEMMA TickInv ==
    ASSUME IInv, Tick
    PROVE  IInv'
<1>1. age' \in [Threads -> Nat]
  BY DEF IInv, TypeOK, Tick
<1>2. phase' \in [Threads -> Nat] /\ \A u \in Threads : phase'[u] < Period[u]
  <2>1. \A u \in Threads : phase[u] \in Nat /\ Period[u] \in Nat /\ phase[u] < Period[u]
    BY DEF IInv, TypeOK
  <2>2. QED
    BY <2>1 DEF Tick
<1>3. sound' \in 0..SoundTime /\ nextCheck' \in 0..CheckPeriod /\ sinceFeed' \in 0..HardwareTimeout
  BY DEF IInv, TypeOK, Tick
<1>4. TypeOK'
  BY <1>1, <1>2, <1>3 DEF IInv, TypeOK, Tick
<1>5. AgeFollowsFeed'
  BY DEF IInv, TypeOK, AgeFollowsFeed, Tick
<1>6. CleanCheckFeeds'
  BY DEF IInv, TypeOK, CleanCheckFeeds, Tick
<1>7. QED
  BY <1>4, <1>5, <1>6 DEF IInv

LEMMA ResetInv ==
    ASSUME IInv, Reset
    PROVE  IInv'
<1>1. TypeOK'
  BY DEF TypeOK, Reset
<1>2. AgeFollowsFeed' /\ CleanCheckFeeds'
  BY DEF Reset, AgeFollowsFeed, CleanCheckFeeds
<1>3. QED
  BY <1>1, <1>2 DEF IInv

LEMMA HangInv ==
    ASSUME IInv, NEW t \in Threads, Hang(t)
    PROVE  IInv'
BY DEF Hang, IInv, TypeOK, AgeFollowsFeed, CleanCheckFeeds

LEMMA StepInv == IInv /\ [Next]_vars => IInv'
<1> SUFFICES ASSUME IInv, [Next]_vars PROVE IInv'
  OBVIOUS
<1>1. CASE Check \/ Tick \/ Reset
  BY <1>1, CheckInv, TickInv, ResetInv
<1>2. CASE RunWithSound
  BY <1>2, RunInv DEF RunWithSound
<1>3. ASSUME NEW t \in Threads, RunQuietly(t) PROVE IInv'
  <2>1. sound' \in 0..SoundTime
    BY <1>3 DEF RunQuietly, IInv, TypeOK
  <2>2. QED
    BY <1>3, <2>1, RunInv DEF RunQuietly
<1>4. ASSUME NEW t \in Threads, Hang(t) PROVE IInv'
  BY <1>4, HangInv
<1>5. CASE UNCHANGED vars
  BY <1>5 DEF vars, IInv, TypeOK, AgeFollowsFeed, CleanCheckFeeds
<1>6. QED
  BY <1>1, <1>2, <1>3, <1>4, <1>5 DEF Next

\* Every reachable state satisfies the inductive invariant.
THEOREM Invariance == Spec => []IInv
BY InitInv, StepInv, PTL DEF Spec

-----------------------------------------------------------------------------
(* The properties *)

LEMMA InvImplies == IInv => TypeOK /\ StallIsBounded /\ StarvingHasCause
<1> SUFFICES ASSUME IInv PROVE TypeOK /\ StallIsBounded /\ StarvingHasCause
  OBVIOUS
<1>1. TypeOK
  BY DEF IInv
<1>2. StallIsBounded
  <2>1. ASSUME NEW t \in Threads PROVE age[t] < Threshold + HardwareTimeout
    <3>1. age[t] \in Nat /\ age[t] < sinceFeed + Threshold /\ sinceFeed \in 0..HardwareTimeout
      BY DEF IInv, TypeOK, AgeFollowsFeed
    <3>2. QED
      BY <3>1
  <2>2. QED
    BY <2>1 DEF StallIsBounded
<1>3. StarvingHasCause
  BY DEF IInv, TypeOK, CleanCheckFeeds, StarvingHasCause
<1>4. QED
  BY <1>1, <1>2, <1>3

THEOREM TypeCorrect == Spec => []TypeOK
BY Invariance, InvImplies, PTL

\* A thread that stops is followed by a reset within its threshold and the hardware
\* timeout: the period of the check does not enter the bound.
THEOREM StallBound == Spec => []StallIsBounded
BY Invariance, InvImplies, PTL

\* A hardware watchdog that is left unfed beyond one check period has found a
\* thread overdue.
THEOREM StarvingCause == Spec => []StarvingHasCause
BY Invariance, InvImplies, PTL

=============================================================================
