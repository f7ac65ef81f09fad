# Verification of embedded-mz-fork

This directory holds TLA+ models of the electric race car software in `src/`, the TLC runs that
check them and TLAPS proofs about them. `PROJECT.json` lists runs, mutants, the source lines
behind every definition, findings, hazards and theorems.

## The system

Three programs make up the car's electronics; they share CAN buses and nothing else.

| Program | What it does | Concurrency |
| --- | --- | --- |
| `fsae-pcc` (Teensy 4.0) | closes AIR+ once the tractive system is precharged; supervises charging | `prechargeTask` (priority 8) and `canTask` (priority 1) under FreeRTOS; pulses are measured by waiting for them |
| `fsae-ccm` (Teensy 4.1) | pedals, faults, vehicle state, inverter commands, telemetry, watchdog | six FreeRTOS threads: WDT 9, ADC 8, Bus 6, VCU 4, Telemetry 1, Main 1 |
| `fsae-daq` (Raspberry Pi) | takes telemetry off an ISO-TP socket, to MQTT and TDengine | tokio tasks: one reader, four database workers, an MQTT event loop, a broker |

### Components, state and what makes them correct

* **Precharge controller** (`fsae-pcc/src/precharge.cpp`). State: `state`, `lastState`, `errorCode`,
  filtered voltages, progress, three time stamps, the pin of AIR+. One cycle every 10 ms: sample,
  temperature check, handler of the state, report. Correct when AIR+ closes only after a completed
  precharge, a lost charger or an error opens it, ERROR is latched, and precharge comes to an end.
* **PCC CAN reception** (`can.cpp`). `canTask` stores the charger's safety bit and its time stamp as
  two separate stores, and is preempted by `prechargeTask` between them.
* **Fault bitmap** (`fsae-ccm/.../faults.cpp`). One word, updated by `threadADC` and `threadBus`
  without a lock, read by `threadVCU`. Correct when a fault that lasts is acted upon, and promptly.
* **Pedals and brakes** (`apps.cpp`, `bse.cpp`, `adc.cpp`). Filtered readings, the time stamps of the last
  healthy reading; judge disagreement, brake-and-throttle plausibility and range.
* **CAN thread** (`bus.cpp`, `peripherals/can.cpp`). Receives at most one frame per ms, ages the bus,
  dispatches by identifier into records.
* **Vehicle state machine** (`vcu.cpp`). PRECHARGING, IDLE, DRIVING, FAULT; sends the inverter its
  commands every 5 ms. Correct when it drives only after precharge, brakes, request and sound, and
  stops driving on a fault.
* **Watchdog** (`wdt.cpp`). Supervises four threads by their time stamps and feeds a hardware timer.
  Correct when a dead thread leads to a reset in bounded time, and a live system is left alone.
* **DAQ** (`send.rs`, `can.rs`). A bounded channel between reader and workers; retries, reconnection.
  Correct when no reading is lost or written twice without cause, and outages are survived.
* **Wheel speeds** (`wss.cpp`). Two pulse counters, incremented by interrupts, and the time of the last
  calculation; `threadVCU` and `threadMain` both call the update. Correct when each pulse goes into
  one speed and the time divided by is the time the pulses were counted in.
* **Inverter protocol and derating** (`dti.cpp`, `vcu.cpp`, `bus.h`). Records of eight inverter packets, two of the
  battery, two of the isolation monitor; the torque path reads three temperatures of them and sends limits
  and torque. Correct when a record holds what its sender said, the inverter hears what was meant, and
  a hot component derates.
* **Telemetry record** (`telemetry.cpp` against the DAQ's `can.rs`). One packet, defined twice. Correct when what
  the logger reads is what the controller said.
* Bypass, cooling, traction and launch control have no caller or no code in this commit; pins,
  installation scripts, dashboards and the broker are configuration.

The behaviours that are hard here: preemption between the load and the store of shared words; ages
computed from stamps taken in different threads; faults that come and go between two polls; threads
that block while they are supervised, and make up for it afterwards; a reset of the controller under an
inverter that goes on; values read one after another while frames replace them; two byte orders and two
definitions of one packet; a database that disappears under four workers.

## Modules

| Module | Models | Extends / instantiates |
| --- | --- | --- |
| `Contactor` | what closing AIR+ promises: open, armed by a measured precharge, closed | |
| `Precharge` | `prechargeTask` and `canTask` | `Contactor` (refinement) |
| `MCPrecharge` | its constants for TLC | `Precharge` |
| `PrechargeProofs` | theorems about `Precharge` | `Precharge` |
| `Vehicle` | ADC, Bus and VCU threads and the fault bitmap | |
| `MCVehicle`, `VehicleProofs` | constants; theorems | `Vehicle` |
| `Watchdog` | `threadWDT`, the hardware timer and the supervised threads | |
| `MCWatchdog`, `WatchdogProofs` | constants; theorems | `Watchdog` |
| `WheelSpeed` | interrupts and the two threads that update the wheel speeds | |
| `MCWheelSpeed`, `WheelSpeedProofs` | constants; theorems | `WheelSpeed` |
| `Frames` | packets received, messages sent: fields, byte order, signs; what their senders put into them | |
| `FrameProofs` | theorems about `Frames` | `Frames` |
| `Drive` | FIFOs, `threadBus`'s dispatch, derating and commands of `threadVCU` | `Frames` |
| `MCDrive`, `DriveProofs` | constants; theorems | `Drive`; the theorems also `FrameProofs` |
| `TelemetryRecord` | the packet as the vehicle controller sends it and as the logger decodes it | |
| `TelemetryProofs` | theorems about `TelemetryRecord` | `TelemetryRecord` |
| `Store` | what the logger promises: readings taken in order, each written once or lost | |
| `Daq` | reader, sender, workers, database | `TelemetryRecord`, `Store` (refinement) |
| `MCDaq`, `DaqProofs` | constants; theorems | `Daq`; the theorems also `TelemetryProofs` |

Every operator named "Mutant of X" stands in front of X; it is X with a plausible bug, and each checked
property is refuted by at least one of them.

### Precharge and Contactor

One action per path through a cycle of `prechargeTask`: `Standby`, `DoPrecharge`, `Discharge`,
`Running`, `OnlineToCharging`, `LeaveCharging`, `Charging`, `ErrorState`. Each contains the whole
cycle: `BeginCycle` (sampling and filters), the `if` chain and the `switch`, the handler and the
report. The order matters: several branches set `state` and go on with the handler of the old
state. `StatusSafety` and `StatusStamp` are the two stores of `canTask`; a cycle may fall between
them. `Tick` is time; a cycle comes `MinGap` to `MaxGap` ticks after the previous one, since the pulse
measurements delay it. Voltages are small integers, which keep the comparisons with zero, minimum
and target; ages saturate one above the longest time they are compared with.

`Contactor` says only: AIR+ closes from "armed", and becomes armed with measurements at the
target. `Precharge` implements it under the mapping `Phase` (pin HIGH is closed; ONLINE or
CHARGING with the pin still LOW is armed; anything else is open).

### Vehicle

| Action | Code |
| --- | --- |
| `AdcCycle` | one cycle of `threadADC`: `APPS_UpdateData`, `BSE_UpdateData` |
| `BusStart`, `BusReceive`, `BusStore` | `threadBus`: tick taken; frame received, aged, bitmap loaded; bitmap stored, frame dispatched |
| `HandleFaults` | `Faults_HandleFaults` in `threadVCU` |
| `Precharging`, `Idle`, `StartSpeaker`, `SpeakerReturns`, `Driving`, `Fault` | the cases of its `switch`; a sound may return or be cut off by `Reset` |
| `Reset` | the hardware watchdog's reset: `setup()` again, while the inverter keeps its last command |
| `ButtonUpdate` | `RTM_ButtonUpdate`, which no code of this build calls; the model adds the behaviours it would give |

With fixed priorities a thread sees higher ones between any two of its instructions, and lower ones
never. So an ADC cycle is atomic, the Bus cycle is split where an ADC cycle makes a difference, and the
VCU steps are taken between Bus cycles. Readings are classes: the thresholds they pass. `lateCommands`
is a history variable; it counts the enable commands sent since some fault bit is up. In this build the watchdog
always cuts the sound off (finding 3). `SpeakerReturns` is kept, so that the safety properties also hold of a sound
short enough to return, but nothing promises that it happens, and no property relies on it.

### Watchdog

`Tick` advances time and does not put off what is due: the check, the hardware reset, or a thread that is
`MaxLate` ticks late. `Check` is a cycle of `threadWDT`, which has the highest priority; `Run(t)` a cycle of
a supervised thread, in its tick or later; `Hang(t)` is the fault the watchdog exists for; `RunWithSound` is
the cycle in which `Speaker_Play` blocks `threadVCU`. The sound is allowed in any VCU cycle, the vehicle state
being left to `Vehicle`.

### WheelSpeed

`ISR_Wheel` is the interrupt. `Enter`, `Measure`, `Take`, `Publish` are `WSS_Update` cut where another thread can
make a difference: the current time is read; the difference to `lastCalcTime` is taken; the counters are copied
and reset (the only critical section); speeds and `lastCalcTime` are written. `threadMain` takes a step only while
`threadVCU` is not ready, and `threadVCU` may take a whole update between any two of its steps. `Publish` of
`threadVCU` may start the sound, `SoundEnds` ends it; the releases missed meanwhile are in `due`, and
`vTaskDelayUntil` answers them back to back; `backToBack` is a history variable that is true in such a cycle, and in
the first. `Tick` releases the threads and ages the stamps. In this build a full sound ends in a reset (finding 3);
the model says what holds of a sound the watchdog tolerates, and of releases missed for other reasons.

### Frames and Drive

`Frames` has the packed structs as sets of fields with their offset, size and sign. `Decode` is a case of `threadBus`
(memcpy and the swap of each field), `OfInverter` what the inverter puts into a frame, `CAN_Send` the bytes of a
message, `Heard` what the inverter makes of them. Only the sender's side (`Ids`, `OtherIds`, `OfInverter`, `Heard`)
is external.

In `Drive`, `Arrive` puts a frame into the FIFO of a controller, `BusCycle` is a cycle of `threadBus` that finds one
(`can3` first), dispatches it by `id >> 8` and stores it. `CycleStarts` samples the pedal and handles faults;
`Precharging`, `Idle`, `Fault`, `DriveEnds` are whole cases of the switch; driving is cut at the reads of the three
temperatures: `ReadBattery`, `ReadMotor`, `ReadInverter`, `SendCommands`. The messages of one step are sent
together: nothing the model tells apart lies between them. Which state follows which, and why, is left to `Vehicle`:
any cycle of `Drive` may take any transition its case has. Factors are thousandths, and values have the unit
of the wire. `coolest` is a history variable: the lowest value each temperature had in this cycle.

### TelemetryRecord

`CcmPacket` is the packet of `threadTelemetry` byte by byte, `Layout` the fields of the logger's `TelemetryData` with
the offset and range of each, `Accepted` and `Reading` what `from_bytes` takes and gives, `DaqPacket` the packet
`to_bytes` makes in the logger's test. Measurements have one value, `fill`; vehicle state and fault bits are kept.

### Daq

`Read` is `send_message` up to `try_publish`, `InitSender` the end of `get_or_init`, `TrySend` the rest;
`Connect`, `Receive`, `PutSucceeds`, `PutFails` are the steps of a worker. A write may fail at any time
and may have been made all the same; a connection older than the last start of TDengine always fails. The
MQTT client is seen up to its queue: what it delivers at QoS 0 is up to the library. The socket delivers records in
two layouts: the vehicle controller's, all of which `from_bytes` refuses, and the logger's own, which no node of the
car's bus sends in this commit. `test.rs` sends one on a virtual bus, and the build feature `synthetic` calls
`send_message` with one every millisecond; in the model they are what drives the pipeline behind the decoder.

`Store` says what a reader of the database may rely on: readings are taken in the order in which they arrived, and
each one that was taken is written once or lost, never both. `Daq` implements it with `Pending` (in the channel or
in a worker's batch), `Stored` and `lost`; a worker's whole batch goes one way.

## Runs

| Run | Bounds | Shows |
| --- | --- | --- |
| `precharge` | voltages 0..2, hysteresis 2, charger timeout 3, jitter 1..2 ticks | the safety of the controller, and that it implements `Contactor` |
| `precharge_live` | charger timeout 2, no jitter | a charged bus gets connected; switching off leads back to STANDBY |
| `precharge_overtemp` | as above | violation, see findings |
| `vehicle` | timeouts below a tick, one tick of preemption; all readings and frames; resets | one enable command at most after a fault; a silent inverter during the sound |
| `vehicle_live` | two pedal and two brake readings, frames of the inverter; resets | lasting faults end in FAULT; a motor nobody asks for is stopped, also after a reset; a request held in IDLE gets the sound; inputs that are in order again clear bitmap and FAULT for good |
| `vehicle_sound` | as `vehicle` | violation, see findings |
| `watchdog` | tick 50 ms: check and threshold 2, hardware 5, sound 15, lateness 1, two threads may hang | bounded stall; no starving without a cause |
| `watchdog_sound` | as `watchdog` | violation, see findings |
| `wheel` | releases every 2 and 4 ticks, a sound of 4, 1 tick of preemption, updates of 2 ticks, backlog 3, 2 wheels of 1 pulse | each pulse is counted once; how far the time `threadVCU` divides by is from that of its pulses, and where it can be 0; `threadMain` is not starved after a sound |
| `drive` | FIFOs of 2 frames, 11 frames (each packet the inverter sends, one each of battery and PCC), 2 pedal positions | records hold what was sent; the inverter hears what was meant; torn reads still derate; a hot inverter derates for good |
| `daq` | 4 packets, socket 2, channel 2, batch 2, 2 workers, 2 failures | readings are written once at most and never vanish; the logger implements `Store`; the price of an outage; all that arrived is taken care of once TDengine stays up |
| `daq_refused` | packets of the vehicle controller, with either size of an enum | violation, see findings |

The bounds are enough for what they check: ages are compared with one threshold each, so "within",
"beyond" and one step around the edge is all a larger value would repeat; queues can be empty, partly
filled and full; a batch can be partial; a worker fails more than once before it reconnects. One pulse per wheel
can fall into each window of an update, which is all that distinguishes pulses. A sound of twice the period makes
`threadVCU` miss releases and run back to back; the backlog bound keeps a new sound from starting while releases
are being made up for. In `drive` the bus that is read first has one kind of frame in a behaviour, and the other
both reports of the temperatures: a frame can come between any two reads, and values of both signs pass every
conversion. The temperatures are chosen where the factor is a whole number of thousandths. Deadlock is checked
in every run.

### Fairness

* `Precharge`: the task is the highest of its controller and is released by the tick, so its cycle and the
  tick are weakly fair. Inputs and charger frames are not.
* `Vehicle`: `threadBus` is preempted by bounded cycles only: weak fairness of its steps. `threadVCU` runs
  again and again in the gaps between Bus cycles, which is strong fairness, since a Bus cycle disables its
  steps. That covers the steps of its cycle (`VcuCycle`); a sound ends, by returning or by the reset of the
  watchdog, whichever it is (`SoundEnds`, weakly fair). An ADC cycle falls outside Bus cycles again and again: the same
  tick releases both and the ADC goes first, so only an overrun puts it inside. Frames and the button are not fair.
  `StartIsAnswered` is about a held request, which `RTM_ButtonUpdate` would have to set; it promises the sound, and
  nothing about what follows: as built that is the reset of finding 3, and the request is forgotten. `FaultsHeal` assumes that ADC cycles find their sensors in
  order from some time on, and Bus cycles a recent frame.
* `WheelSpeed`: `threadVCU`, when ready, gets the processor (weak fairness of its cycle and of the end of the sound);
  `threadMain` gets it whenever `threadVCU` leaves it, again and again (strong); ticks are weakly fair, pulses are not.
* `Drive`: both threads are released again and again (weak fairness). Frames are not fair: `HotInverterDerates`
  assumes that the hot inverter goes on reporting, that the bus read first falls silent, and that the vehicle
  goes on driving.
* `Vehicle.Reset` is fair only as one of the two ends of a sound; `NoRequestStops` assumes that resets come to an end.
* `Daq`: the runtime runs every task that can make progress; nothing makes TDengine come up.

### Findings

1. `precharge_overtemp`: an overtemperature moves the state to DISCHARGE, where nobody opens AIR+.
2. `vehicle_sound`: FAULT always leads to DRIVING, past precharge, brakes, button and sound.
3. `watchdog_sound`: a sound of 3 s blocks a thread the watchdog allows 100 ms; the reset comes after 1 s.
4. `daq_refused`: the logger decodes records of 122 bytes; the vehicle controller sends 118, or 121 with four-byte
   enums. Every packet is refused.

Also seen, without a run of their own:

* Below `PCC_MIN_ACC_VOLTAGE` the handler of the old state still runs, and closes AIR+ once more.
* A precharge that takes longer than `PCC_MAX_TIME_MS` only prints; the step to ERROR is commented out.
* `threadBus` can overwrite a bit `threadADC` has just set; the next ADC cycle sets it again, but a latched
  plausibility fault whose cause is over is lost.
* The age of a frame received in the cycle wraps when a tick passed since the cycle began
  (`CanExpired`): a healthy bus raises FAULT_CAN for one cycle.
* The frames of the PCC, of the battery (OBMS) and the case of the isolation monitor's full identifiers never meet
  `id >> 8` (`DispatchKey`): only a fault takes the VCU out of PRECHARGING, and a hot battery, read as 25 degrees
  for ever, never derates.
* `can2`, the bus of the inverter in the model, is read only when `can3` is empty: a busy `can3` starves it, which
  is why `HotInverterDerates` needs its premise.
* The torque in newton metres goes out as relative current, in tenths of a percent. The inverter's speed and
  brake messages, regeneration, traction and launch control are not used in this build.
* The enable message leaves `is_bitfield` uninitialised; its single byte is sent the same way for either value.
* `threadMain`, on time, has the age the watchdog calls overdue (`>=`) when both are released by the same
  tick. That takes a first cycle of every thread within the first tick; otherwise the phases differ and it
  does not happen.
* When `threadVCU` preempts `threadMain` between the reset of the counters and the stamp, it divides few pulses
  by a long time and understates a speed. It overstates one by the ticks that pass between its reading of the time
  and its reset of the counters (`VcuSpeedIsTrue` bounds both). Its elapsed time is 0 in the first cycle after a
  start and in cycles that run back to back, and only there; a pulse in between then makes the speed infinite, and
  none makes it a NaN. The elapsed time of `threadMain` can be 0 in any tick in which `threadVCU` has just stamped,
  or wrap after an update of `threadVCU` in between; `threadMain` prints the result. `lastCalcTime` can go back.
* Were the sizes of the two telemetry records made to agree, states and faults would still be misread
  (`StateIsMisread`, `FaultIsMisread`): states have different numbers (the logger has no STANDBY), the CAN fault has
  the place the logger calls low battery, and the fault bits are read from the other end of their byte. The logger's test
  comments on a field at byte 56 that is at byte 64.
* The frames of one telemetry packet, a millisecond apart, take longer than `TELEMETRY_PERIOD_MS`.
* Without TDengine the reader stops at its first reading, inside `get_or_init`.
* `RTM_ButtonUpdate` has no caller, so the ready-to-move request stays false: IDLE never gets to the sound, and with
  a caller the sound would end in the reset of finding 3. No held request starts a drive in this build.

## Proofs

`tlapm` proves the theorems for all values of the constants that satisfy the assumptions of the modules. Most say
that thresholds and sizes are natural numbers, gaps are ordered and inputs are among those modelled. Two say
where the data comes from, and TLC checks them for the constants of the runs:

* `FrameAssumption` (`Drive`): a frame has eight bytes, and is either one the inverter made of numbers that fit its
  fields or has an identifier of another sender (a standard one, or one of the isolation monitor).
* `RecordsAssumption` (`Daq`): a record is one of the vehicle controller, with either size of an enum, or one in the
  logger's own layout.

* `PrechargeProofs`. `IInv` is the type invariant, three of the safety properties, and two parts that make it
  inductive: `LastStateAgrees` (which handler can have run before each state; without it STANDBY could be
  entered with AIR+ closed) and `StatusAge` (how old the charger's last frame can be while AIR+ is closed for
  charging; it turns the timeout into an invariant). From it follow all safety properties of the run
  `precharge`, the action property `ErrorIsLatched`, and `Refinement`, Spec => ContactorPromise.
* `VehicleProofs`. `OneLateCommand` is not inductive; `LateIsNoticed` says what is true once the late command
  is out: a bit is still up, and `threadVCU` is on its way to `Faults_HandleFaults`, or past it and in FAULT.
  `ReportsIgnored` and `OnlyFaultsEndPrecharge` are what finding 2 comes from: `id >> 8` of no frame is 0x222
  (`KeysOfFrames`), so the data of the precharge controller stays as it was initialised, and only a fault ends
  PRECHARGING.
* `WatchdogProofs`. `AgeFollowsFeed`: an age is below the time since the last feed plus the threshold, since
  a feed finds all ages below the threshold and both grow together. `CleanCheckFeeds`: after a check without a
  finding, the time since the feed and the time to the next check make up at most one period.
* `WheelSpeedProofs`. `EachPulseOnce` is inductive once a thread is known to hold pulses between taking
  and reporting them only. `VcuSpeedIsTrue` is not: the proof adds
  how the ages of the last reset, of `lastCalcTime` and of the time a thread has read are ordered in each pair
  of steps of the two threads, and how far apart they can get while one preempts the other (`TakenAfterStamp`: the
  time of the pulses a thread holds makes up the difference). `NotAtOnce` is why a cycle that was waited for does not
  divide by 0: the tick that releases `threadVCU` ages `lastCalcTime`, and `threadMain`, which could stamp it anew,
  does not run before the update is over.
* `TelemetryProofs`. The two packets are concatenations of blocks, and a lemma (`Joined`) finds the byte of a
  block behind others. `CcmRefused`: the controller's packet is 118 or 121 bytes, the logger's record 122.
  `TestRead`: every byte of a test's packet is within the range of its field, `ByteOf` and `BitSet` are inverse to
  each other (`BitsOfByte`), and a set of faults is found again through the reversed order of its bits.
  `FaultIsMisread`: bit i of the controller is the flag at place 8 - i of the logger, which never has the same name.
* `DaqProofs`. Readings are numbered as they arrive. `AheadIsUntouched`: what the reader has yet to hand on is
  nowhere else; `OnePlace`: a reading is in the channel once or in one worker's batch; together they make
  `WrittenOnce` inductive. `StaleIsCounted`: what an old connection has cost a worker is what it has counted, from
  which `OutageIsBounded` follows. `NothingVanishes` follows step by step from the invariant. A smaller invariant
  stands beside it: `Sizes` (no queue outgrows its limit) gives `TypeOK`. `NothingFromCcm`: only `Read` hands a packet
  on, and none of the controller's is readable (`CcmRefused`).
  `Refinement`, Spec => StorePromise, takes each step to one of `Store`: `TrySend` takes or refuses a reading that is
  behind all others by `AheadIsUntouched`, a write or a failure moves a worker's batch, which `OnePlace` keeps
  apart from what stays pending, and every other step stutters.
* `FrameProofs`. `DecodedAsSaid`: a number that fits one, two or four bytes, taken apart, reversed and put
  together with the sign in its last byte is the number again (`LowByte`, then two halves for four bytes); the fields
  of a packet have different names, so `Decode` picks the right one for each of the eight packets. `Dispatched`:
  `id >> 8` gives the packet of an inverter's frame, and no packet at all for a standard identifier or one of the
  isolation monitor.
* `DriveProofs`. `RecordedAsSent` is inductive together with the contents of the FIFOs: a frame in a FIFO is one its
  bus carries, its key names the packet of its sender or none, and what is decoded is what it says. That gives
  `TypeOK` too: a record holds numbers that fit their fields. `HeardAsMeant` rests on the same kind of lemma for the
  messages that are sent; shares of the limits stay within 16 bits. For `DeratedForEach`, `CoolestSoFar` says that no
  temperature is below the coolest of the cycle, and `FactorCovers` that the factor is at most the one of that coolest
  value for each sensor read so far; it survives a frame between two reads because the factor falls as the
  temperature rises.

Every invariant, every safety action property and both refinements of the runs are theorems. Only model-checked:
the liveness properties, which are out of the prover's reach, as is anything about ENABLED (`PrechargeCompletes`,
`OffReturnsToStandby`, `LastingSensorFault`, `LastingSilence`, `NoRequestStops`, `StartIsAnswered`, `FaultsHeal`,
`MainReports`, `HotInverterDerates`, `Drains`), and of course the violations.

## Not modelled

The arithmetic of filters, pedal scaling, torque map and speeds; the conversion of thermistor readings; the
transmission of the PCC's report and of the telemetry frames in time; the line protocol and MQTT delivery of the
logger; pins and printing; the MQTT broker, dashboards and installation. Bypass, traction and launch control do
nothing in this commit.

## Plan

Done: `Precharge` and `Contactor`; `Vehicle`; `Watchdog`; `Daq`, `TelemetryRecord` and `Store`; `WheelSpeed`;
`Frames` and `Drive`; the proofs named above.

Left, in this order:

1. `Pedals`: scaling, clamps, filters and the timers of `apps.cpp` over small integers, refining the classes of
   `Vehicle`.
2. `TractiveSystem`: `Precharge` with a plant in which the voltage follows the contactor. Its report would drive
   `Vehicle` out of PRECHARGING once the dispatch takes standard identifiers.
