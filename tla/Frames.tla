------------------------------- MODULE Frames -------------------------------
(***************************************************************************)
(* The frames of the vehicle controller's CAN buses: the packets it takes  *)
(* apart (vehicle/comms/bus.h and the cases of threadBus) and the messages *)
(* it sends to the inverter (vehicle/devices/dti.cpp, CAN_Send).           *)
(*                                                                         *)
(* Data is a sequence of bytes. Values are whole numbers in the unit of    *)
(* the wire, that is without the scales and the offset the code gives      *)
(* them as it makes them floating-point numbers.                           *)
(***************************************************************************)
EXTENDS Integers, SequencesExt

Byte == 0..255

\* What the bytes of a number are worth, the least significant one first.
Weight == <<1, 256, 65536, 16777216>>

\* The bytes of a number in two's complement, as they lie in memory. \div rounds down.
InMemory(value, size) == [i \in 1..size |-> (value \div Weight[i]) % 256]

\* The number in memory: the last byte may have a sign.
Number(bytes, signed) ==
    LET n == Len(bytes)
        top == IF signed /\ bytes[n] >= 128 THEN bytes[n] - 256 ELSE bytes[n]
        Part(i) == IF i < n THEN bytes[i] * Weight[i] ELSE IF i = n THEN top * Weight[i] ELSE 0
    IN Part(1) + Part(2) + Part(3) + Part(4)

-----------------------------------------------------------------------------
(* What is received *)

\* A field of a packed struct: the bytes before it and its own. Reserved ones are left out.
S(name, at, size) == [name |-> name, at |-> at, size |-> size, signed |-> TRUE]
U(name, at, size) == [name |-> name, at |-> at, size |-> size, signed |-> FALSE]

Names(fields) == {field.name : field \in fields}

\* The numbers that fit a field.
Values(field) ==
    {v \in Int : v \div Weight[field.size] \in IF field.signed THEN (-128)..127 ELSE Byte}

\* The structs of the inverter, by the key of their case. In packet 36 a byte of flags
\* is one value.
InverterPackets ==
  [key \in 31..38 |->
     CASE key = 31 -> {U("controlMode", 0, 1), S("targetLq", 1, 2), S("motorPosition", 3, 2),
                       U("isMotorStill", 5, 1)}
       [] key = 32 -> {S("eRPM", 0, 4), S("dutyCycle", 4, 2), S("inputVoltage", 6, 2)}
       [] key = 33 -> {S("acCurrent", 0, 2), S("dcCurrent", 2, 2)}
       [] key = 34 -> {S("controllerTemp", 0, 2), S("motorTemp", 2, 2), U("faultCode", 4, 1)}
       [] key = 35 -> {S("focLd", 0, 4), S("focLq", 4, 4)}
       [] key = 36 -> {S("throttleInput", 0, 1), S("brakeInput", 1, 1), U("digital", 2, 1),
                       U("driveEnabled", 3, 1), U("limits", 4, 1), U("limits2", 5, 1)}
       [] key = 37 -> {S("maxAC_Current", 0, 2), S("avMaxAC_Current", 2, 2),
                       S("minAC_Current", 4, 2), S("avMinAC_Current", 6, 2)}
       [] key = 38 -> {S("maxDC_Current", 0, 2), S("avMaxDC_Current", 2, 2),
                       S("minDC_Current", 4, 2), S("avMinDC_Current", 6, 2)}]

OBMS2 == 1713
OBMS3 == 1714
IMD_GENERAL == \h18FF01F4
IMD_VOLTAGE == \h18FF03F4

\* The structs of the battery and of the isolation monitor.
MonitorPackets ==
  [key \in {OBMS2, OBMS3, IMD_GENERAL, IMD_VOLTAGE} |->
     CASE key = OBMS2 -> {U("dischargeLimit", 0, 2), U("chargeLimit", 2, 2),
                          S("highTemp", 4, 1), S("lowTemp", 5, 1)}
       [] key = OBMS3 -> {U("lowCellVolt", 0, 2), U("highCellVolt", 2, 2),
                          U("avgCellVolt", 4, 2), U("lowCellID", 6, 1)}
       [] key = IMD_GENERAL -> {U("resistance", 0, 2), U("status", 4, 2)}
       [] key = IMD_VOLTAGE -> {U("hv_voltage", 0, 2)}]

\* Both functions, the values of the first where it has any: f @@ g of module TLC.
Over(f, g) == [x \in DOMAIN f \cup DOMAIN g |-> IF x \in DOMAIN f THEN f[x] ELSE g[x]]

Packets == Over(InverterPackets, MonitorPackets)

\* The records threadBus fills, as Bus_Init leaves them. 32128 on the wire is no voltage.
Initially ==
    [key \in DOMAIN Packets |->
       [name \in Names(Packets[key]) |->
          CASE name \in {"highTemp", "lowTemp"} -> 25
            [] name = "hv_voltage" -> 32128
            [] OTHER -> 0]]

\* Mutant of FromWire: the bytes of a long field stay as they came.
FromWireAsIs(key, bytes) == bytes

\* CHANGE_ENDIANESS and SWAP of what memcpy took from a frame: DTI IS BIG ENDIAN.
FromWire(key, bytes) == IF key \in DOMAIN InverterPackets THEN Reverse(bytes) ELSE bytes

\* A case of threadBus: what it stores for the data of a frame.
Decode(key, data) ==
    LET Value(field) == LET raw == SubSeq(data, field.at + 1, field.at + field.size)
                        IN Number(FromWire(key, raw), field.signed)
    IN [name \in Names(Packets[key]) |->
          Value(CHOOSE field \in Packets[key] : field.name = name)]

-----------------------------------------------------------------------------
(* What the senders do *)

\* The identifiers of a packet: the inverter has the number of its node below.
Ids(key) == IF key \in DOMAIN InverterPackets THEN (256 * key)..(256 * key + 255) ELSE {key}

\* The identifiers of the other senders: standard ones, and those of the isolation monitor.
OtherIds == 0..2047 \cup {IMD_GENERAL, \h18FF02F4, IMD_VOLTAGE, \h18FF04F4}

\* A frame of the inverter has a number for each field of its packet, its most significant
\* byte first.
OfInverter(frame, key) ==
    /\ frame.id \in Ids(key)
    /\ frame.says \in [Names(Packets[key]) -> Int]
    /\ \A field \in Packets[key] :
          /\ frame.says[field.name] \in Values(field)
          /\ \A i \in 1..field.size :
                frame.data[field.at + i]
                  = (frame.says[field.name] \div Weight[field.size + 1 - i]) % 256

-----------------------------------------------------------------------------
(* What is sent *)

\* DTISendID, of the messages the vehicle controller sends.
SetRelativeCurrent == 5
SetMaxCurrentAC == 8
SetMaxBrakeCurrentAC == 9
SetMaxCurrentDC == 10
SetMaxBrakeCurrentDC == 11
SetDriveEnable == 12

Commands == {SetRelativeCurrent, SetMaxCurrentAC, SetMaxBrakeCurrentAC,
             SetMaxCurrentDC, SetMaxBrakeCurrentDC, SetDriveEnable}

\* The length each of the DTI_Set and DTI_Send functions gives its message.
Length(command) == IF command = SetDriveEnable THEN 1 ELSE 2

\* Mutant of CAN_Send: only messages of four bytes and more are swapped.
CAN_SendWords(command, value) ==
    LET bytes == InMemory(value, Length(command))
    IN IF Length(command) <= 2 THEN bytes ELSE Reverse(bytes)

\* The data CAN_Send puts on the wire: the number in memory, swapped if it is longer
\* than a byte.
CAN_Send(command, value) ==
    LET bytes == InMemory(value, Length(command))
    IN IF Length(command) <= 1 THEN bytes ELSE Reverse(bytes)

\* What the inverter takes it for: the first byte is the most significant one, and has
\* the sign.
Heard(command, data) ==
    IF Length(command) = 1 THEN data[1]
    ELSE 256 * (IF data[1] < 128 THEN data[1] ELSE data[1] - 256) + data[2]
=============================================================================
