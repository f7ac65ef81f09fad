-------------------------- MODULE TelemetryRecord --------------------------
(***************************************************************************)
(* The telemetry record on the wire: the packed struct the vehicle         *)
(* controller sends (vehicle/comms/telemetry.h) and the one the data       *)
(* logger decodes (fsae-daq, can.rs), both as sequences of bytes. What a   *)
(* reader acts upon is kept, that is the state of the vehicle and the      *)
(* faults; every byte of a measurement has one value, `fill'.              *)
(***************************************************************************)
EXTENDS Naturals, Sequences

Byte == 0..255

Bytes(n, b) == [i \in 1..n |-> b]

\* What a sequence holds.
Held(s) == {s[i] : i \in DOMAIN s}

\* What the bits of a byte are worth, the least significant one first.
BitWeight == <<1, 2, 4, 8, 16, 32, 64, 128>>

BitSet(byte, i) == (byte \div BitWeight[i + 1]) % 2 = 1

\* The byte whose bits are those of a set.
ByteOf(bits) ==
    LET Bit(i) == IF i \in bits THEN BitWeight[i + 1] ELSE 0
    IN Bit(0) + Bit(1) + Bit(2) + Bit(3) + Bit(4) + Bit(5) + Bit(6) + Bit(7)

-----------------------------------------------------------------------------
(* The vehicle controller *)

\* VehicleState, in the order of its values.
CcmStates == <<"OFF", "STANDBY", "PRECHARGING", "IDLE", "DRIVING", "FAULT">>

\* The masks of the fault bitmap: place k is bit k - 1.
CcmFaults == <<"OVER_CURRENT", "UNDER_VOLTAGE", "OVER_TEMP", "APPS", "BSE", "BPPS",
               "APPS_BRAKE_PLAUSIBILITY", "CAN", "LOW_BATTERY_VOLTAGE">>

Place(s, name) == CHOOSE i \in DOMAIN s : s[i] = name

\* An enum takes as many bytes as the build gives it, least significant first.
EnumBytes(value, size) == <<value>> \o Bytes(size - 1, 0)

\* The bitmap as an int32_t, least significant byte first.
FaultMap(faults) ==
    LET bits == {Place(CcmFaults, f) - 1 : f \in faults}
    IN <<ByteOf(bits), IF 8 \in bits THEN 1 ELSE 0, 0, 0>>

\* What threadTelemetry sends: the fields it does not name are zero, among them
\* those of the motor and its thirteen fault flags.
CcmPacket(state, faults, fill, enumSize) ==
    Bytes(52, fill) \o Bytes(12, 0) \o EnumBytes(Place(CcmStates, state) - 1, enumSize)
        \o Bytes(20, 0) \o Bytes(16, fill) \o Bytes(13, 0) \o FaultMap(faults)

-----------------------------------------------------------------------------
(* The data logger *)

DaqStates == <<"OFF", "PRECHARGING", "IDLE", "DRIVING", "FAULT">>

\* The one-bit fields, in the order they are declared.
DaqFaults == <<"OVER_CURRENT", "UNDER_VOLTAGE", "OVER_TEMP", "APPS", "BSE", "BPPS",
               "APPS_BRAKE_PLAUSIBILITY", "LOW_BATTERY_VOLTAGE">>

\* TelemetryData: each field with the bytes before it, its own, and the greatest value a
\* byte of it may have.
Layout ==
    { [field |-> "analog", at |-> 0, size |-> 64, top |-> 255],
      [field |-> "motor_direction", at |-> 64, size |-> 1, top |-> 3],
      [field |-> "motor_state", at |-> 65, size |-> 1, top |-> Len(DaqStates) - 1],
      [field |-> "mcu_main_state", at |-> 66, size |-> 1, top |-> 4],
      [field |-> "mcu_work_mode", at |-> 67, size |-> 1, top |-> 2],
      [field |-> "mcu", at |-> 68, size |-> 20, top |-> 255],
      [field |-> "mcu_warning_level", at |-> 88, size |-> 1, top |-> 3],
      [field |-> "shocktravel", at |-> 89, size |-> 16, top |-> 255],
      [field |-> "flags", at |-> 105, size |-> 13, top |-> 1],
      [field |-> "faults", at |-> 118, size |-> 4, top |-> 255] }

At(name) == (CHOOSE f \in Layout : f.field = name).at

\* The faults, with their padding, are the last field.
RecordSize == At("faults") + 4

\* Every byte of a field is one the type of the field can have.
WellFormed(packet) ==
    \A f \in Layout : \A k \in 1..f.size : packet[f.at + k] <= f.top

\* from_bytes succeeds, and no byte is left over.
Accepted(packet) == Len(packet) = RecordSize /\ WellFormed(packet)

\* One-bit fields fill a byte from its most significant bit; the next 24 are padding.
FaultBit(k) == 8 - k

\* What the logger makes of the byte of the state and of the first byte of the faults.
StateIn(byte) == DaqStates[byte + 1]
FaultsIn(byte) == {DaqFaults[k] : k \in {j \in DOMAIN DaqFaults : BitSet(byte, FaultBit(j))}}

\* What the logger reads in a packet it accepts.
Reading(packet) == [state  |-> StateIn(packet[At("motor_state") + 1]),
                    faults |-> FaultsIn(packet[At("faults") + 1])]

\* to_bytes, with which the logger's test makes its packet.
DaqPacket(state, faults, fill, warning) ==
    Bytes(64, fill) \o <<3, Place(DaqStates, state) - 1, 4, 2>> \o Bytes(20, fill)
        \o <<warning>> \o Bytes(16, fill) \o Bytes(13, 1)
        \o <<ByteOf({8 - Place(DaqFaults, f) : f \in faults})>> \o Bytes(3, 0)
=============================================================================
