----------------------------- MODULE FrameProofs -----------------------------
(***************************************************************************)
(* Proofs about module Frames: what threadBus makes of the bytes of any    *)
(* frame of the inverter, and of which frames it makes anything.           *)
(***************************************************************************)
EXTENDS Frames, SequenceTheorems, TLAPS

\* A field of one, two or four bytes within those of a frame.
IsField(field) ==
    /\ field.at \in 0..7 /\ field.size \in {1, 2, 4} /\ field.signed \in BOOLEAN
    /\ field.at + field.size <= 8

-----------------------------------------------------------------------------
(* Numbers and their bytes *)

\* The number in a byte and in a byte with a sign.
LEMMA TopByte ==
    ASSUME NEW q \in Int, NEW signed \in BOOLEAN,
           q \in IF signed THEN (-128)..127 ELSE Byte
    PROVE  /\ q % 256 \in Byte
           /\ (IF signed /\ q % 256 >= 128 THEN (q % 256) - 256 ELSE q % 256) = q
<1>1. CASE q >= 0
  <2>1. q % 256 = q /\ q <= 255 /\ (signed => q < 128)
    BY <1>1 DEF Byte
  <2> QED
    BY <1>1, <2>1 DEF Byte
<1>2. CASE q < 0
  <2>1. signed /\ q >= -128
    BY <1>2 DEF Byte
  <2>2. q % 256 = q + 256
    BY <1>2, <2>1
  <2> QED
    BY <1>2, <2>1, <2>2 DEF Byte
<1> QED
  BY <1>1, <1>2

\* A number of two bytes is made up of its low byte and the rest.
LEMMA LowByte ==
    ASSUME NEW v \in Int
    PROVE  /\ v \div 256 \in Int /\ v % 256 \in Byte
           /\ v = 256 * (v \div 256) + (v % 256)
BY DEF Byte

\* Division byte by byte.
LEMMA Shift ==
    ASSUME NEW v \in Int
    PROVE  /\ v \div 65536 = (v \div 256) \div 256
           /\ v \div 16777216 = (v \div 65536) \div 256
<1>1. v \div 65536 = (v \div 256) \div 256
  BY SMT
<1>2. v \div 16777216 = (v \div 65536) \div 256
  BY SMT
<1> QED
  BY <1>1, <1>2

LEMMA WeightIs ==
    Weight[1] = 1 /\ Weight[2] = 256 /\ Weight[3] = 65536 /\ Weight[4] = 16777216
BY SMT DEF Weight

\* A number that fits a field is the number its bytes make in memory.
LEMMA NumberInMemory ==
    ASSUME NEW field, IsField(field), NEW v \in Values(field)
    PROVE  Number(InMemory(v, field.size), field.signed) = v
<1> DEFINE size == field.size
           signed == field.signed
           bytes == InMemory(v, size)
           q == v \div Weight[size]
           top == IF signed /\ q % 256 >= 128 THEN (q % 256) - 256 ELSE q % 256
<1> SUFFICES Number(bytes, signed) = v
  OBVIOUS
<1>1. /\ v \in Int /\ size \in {1, 2, 4} /\ signed \in BOOLEAN
      /\ q \in IF signed THEN (-128)..127 ELSE Byte
  BY DEF Values, IsField
<1>2. /\ DOMAIN bytes = 1..size /\ Len(bytes) = size
      /\ \A i \in 1..size : bytes[i] = (v \div Weight[i]) % 256
  <2>1. bytes = [i \in 1..size |-> (v \div Weight[i]) % 256] /\ size \in Nat
    BY <1>1 DEF InMemory
  <2> HIDE DEF bytes
  <2> QED
    BY <2>1
<1>3. top = q
  <2>1. q \in Int
    BY <1>1 DEF Byte
  <2> HIDE DEF q
  <2> QED
    BY <1>1, <2>1, TopByte
<1>4. bytes[size] = q % 256
  BY <1>1, <1>2
<1>5. Number(bytes, signed) =
        LET Part(i) == IF i < size THEN bytes[i] * Weight[i]
                       ELSE IF i = size THEN top * Weight[i] ELSE 0
        IN Part(1) + Part(2) + Part(3) + Part(4)
  BY <1>2, <1>4 DEF Number
<1>6. CASE size = 1
  <2>1. Number(bytes, signed) = q
    BY <1>3, <1>5, <1>6, <1>1, WeightIs, SMT
  <2>2. q = v
    BY <1>1, <1>6, WeightIs, SMT
  <2> QED
    BY <2>1, <2>2
<1>7. CASE size = 2
  <2>1. bytes[1] = v % 256 /\ q = v \div 256
    BY <1>1, <1>2, <1>7, WeightIs, SMT
  <2>2. Number(bytes, signed) = bytes[1] + q * 256
    BY <1>1, <1>3, <1>5, <1>7, <2>1, WeightIs, SMT
  <2> QED
    BY <1>1, <2>1, <2>2, LowByte
<1>8. CASE size = 4
  <2> DEFINE b == v \div 256
             c == v \div 65536
  <2>1. bytes[1] = v % 256 /\ bytes[2] = b % 256 /\ bytes[3] = c % 256 /\ q = v \div 16777216
    BY <1>1, <1>2, <1>8, WeightIs, SMT
  <2>2. Number(bytes, signed) = bytes[1] + bytes[2] * 256 + bytes[3] * 65536 + q * 16777216
    BY <1>1, <1>3, <1>5, <1>8, <2>1, WeightIs, SMT
  <2>3. b \in Int /\ c = b \div 256 /\ c \in Int /\ q = c \div 256
    BY <1>1, <2>1, Shift, SMT
  <2>4. v = 256 * b + (v % 256) /\ b = 256 * c + (b % 256) /\ c = 256 * q + (c % 256)
    BY <1>1, <2>3, LowByte, SMT
  <2>5. v % 256 \in Int /\ b % 256 \in Int /\ c % 256 \in Int /\ q \in Int
    BY <1>1, <2>3, SMT
  <2> HIDE DEF b, c, q, bytes
  <2> QED
    BY <1>1, <2>1, <2>2, <2>3, <2>4, <2>5, SMT
<1> QED
  BY <1>1, <1>6, <1>7, <1>8

-----------------------------------------------------------------------------
(* Packets *)

LEMMA PacketKeys ==
    /\ DOMAIN InverterPackets = 31..38
    /\ DOMAIN MonitorPackets = {OBMS2, OBMS3, IMD_GENERAL, IMD_VOLTAGE}
    /\ DOMAIN Packets = 31..38 \cup {OBMS2, OBMS3, IMD_GENERAL, IMD_VOLTAGE}
    /\ \A key \in 31..38 : Packets[key] = InverterPackets[key]
<1>1. DOMAIN InverterPackets = 31..38
  BY DEF InverterPackets
<1>2. DOMAIN MonitorPackets = {OBMS2, OBMS3, IMD_GENERAL, IMD_VOLTAGE}
  BY DEF MonitorPackets
<1> QED
  BY <1>1, <1>2 DEF Packets, Over

LEMMA FieldOf ==
    ASSUME NEW name, NEW at \in 0..7, NEW size \in {1, 2, 4}, at + size <= 8
    PROVE  /\ IsField(S(name, at, size)) /\ S(name, at, size).name = name
           /\ IsField(U(name, at, size)) /\ U(name, at, size).name = name
BY DEF S, U, IsField

\* Each field of the inverter has its bytes in the frame, and none is named a voltage.
LEMMA InverterFields ==
    ASSUME NEW key \in 31..38
    PROVE  \A field \in Packets[key] : IsField(field) /\ field.name # "hv_voltage"
<1>1. Packets[key] = InverterPackets[key]
  BY PacketKeys
<1>2. CASE key = 31
  <2>1. InverterPackets[key] = {U("controlMode", 0, 1), S("targetLq", 1, 2),
                                S("motorPosition", 3, 2), U("isMotorStill", 5, 1)}
    BY <1>2 DEF InverterPackets
  <2> QED
    BY <1>1, <2>1, FieldOf
<1>3. CASE key = 32
  <2>1. InverterPackets[key] = {S("eRPM", 0, 4), S("dutyCycle", 4, 2), S("inputVoltage", 6, 2)}
    BY <1>3 DEF InverterPackets
  <2> QED
    BY <1>1, <2>1, FieldOf
<1>4. CASE key = 33
  <2>1. InverterPackets[key] = {S("acCurrent", 0, 2), S("dcCurrent", 2, 2)}
    BY <1>4 DEF InverterPackets
  <2> QED
    BY <1>1, <2>1, FieldOf
<1>5. CASE key = 34
  <2>1. InverterPackets[key] = {S("controllerTemp", 0, 2), S("motorTemp", 2, 2),
                                U("faultCode", 4, 1)}
    BY <1>5 DEF InverterPackets
  <2> QED
    BY <1>1, <2>1, FieldOf
<1>6. CASE key = 35
  <2>1. InverterPackets[key] = {S("focLd", 0, 4), S("focLq", 4, 4)}
    BY <1>6 DEF InverterPackets
  <2> QED
    BY <1>1, <2>1, FieldOf
<1>7. CASE key = 36
  <2>1. InverterPackets[key] = {S("throttleInput", 0, 1), S("brakeInput", 1, 1),
                                U("digital", 2, 1), U("driveEnabled", 3, 1),
                                U("limits", 4, 1), U("limits2", 5, 1)}
    BY <1>7 DEF InverterPackets
  <2> QED
    BY <1>1, <2>1, FieldOf
<1>8. CASE key = 37
  <2>1. InverterPackets[key] = {S("maxAC_Current", 0, 2), S("avMaxAC_Current", 2, 2),
                                S("minAC_Current", 4, 2), S("avMinAC_Current", 6, 2)}
    BY <1>8 DEF InverterPackets
  <2> QED
    BY <1>1, <2>1, FieldOf
<1>9. CASE key = 38
  <2>1. InverterPackets[key] = {S("maxDC_Current", 0, 2), S("avMaxDC_Current", 2, 2),
                                S("minDC_Current", 4, 2), S("avMinDC_Current", 6, 2)}
    BY <1>9 DEF InverterPackets
  <2> QED
    BY <1>1, <2>1, FieldOf
<1> QED
  BY <1>2, <1>3, <1>4, <1>5, <1>6, <1>7, <1>8, <1>9

\* The same for the monitors.
LEMMA MonitorFields ==
    ASSUME NEW key \in {OBMS2, OBMS3, IMD_GENERAL, IMD_VOLTAGE}
    PROVE  \A field \in Packets[key] :
              IsField(field) /\ (field.name = "hv_voltage" => field = U("hv_voltage", 0, 2))
<1>1. /\ OBMS2 = 1713 /\ OBMS3 = 1714 /\ IMD_GENERAL = 419365364 /\ IMD_VOLTAGE = 419365876
  BY SMT DEF OBMS2, OBMS3, IMD_GENERAL, IMD_VOLTAGE
<1>2. key \in DOMAIN MonitorPackets /\ key \notin 31..38
  BY <1>1, PacketKeys, SMT
<1>3. Packets[key] = MonitorPackets[key]
  BY <1>2, PacketKeys, SMT DEF Packets, Over
<1>4. CASE key = OBMS2
  <2>1. MonitorPackets[key] = {U("dischargeLimit", 0, 2), U("chargeLimit", 2, 2),
                               S("highTemp", 4, 1), S("lowTemp", 5, 1)}
    BY <1>1, <1>4, SMT DEF MonitorPackets
  <2> QED
    BY <1>3, <2>1, FieldOf, SMT
<1>5. CASE key = OBMS3
  <2>1. MonitorPackets[key] = {U("lowCellVolt", 0, 2), U("highCellVolt", 2, 2),
                               U("avgCellVolt", 4, 2), U("lowCellID", 6, 1)}
    BY <1>1, <1>5, SMT DEF MonitorPackets
  <2> QED
    BY <1>3, <2>1, FieldOf, SMT
<1>6. CASE key = IMD_GENERAL
  <2>1. MonitorPackets[key] = {U("resistance", 0, 2), U("status", 4, 2)}
    BY <1>1, <1>6, SMT DEF MonitorPackets
  <2> QED
    BY <1>3, <2>1, FieldOf, SMT
<1>7. CASE key = IMD_VOLTAGE
  <2>1. MonitorPackets[key] = {U("hv_voltage", 0, 2)}
    BY <1>1, <1>7, SMT DEF MonitorPackets
  <2> QED
    BY <1>3, <2>1, FieldOf, SMT
<1> QED
  BY <1>4, <1>5, <1>6, <1>7

\* The battery has a temperature.
LEMMA HighTempIsField ==
    OBMS2 \in DOMAIN Packets /\ \E field \in Packets[OBMS2] : field.name = "highTemp"
<1>1. /\ OBMS2 = 1713 /\ OBMS3 = 1714 /\ IMD_GENERAL = 419365364 /\ IMD_VOLTAGE = 419365876
  BY SMT DEF OBMS2, OBMS3, IMD_GENERAL, IMD_VOLTAGE
<1>2. OBMS2 \in DOMAIN MonitorPackets /\ OBMS2 \notin 31..38 /\ OBMS2 \in DOMAIN Packets
  BY <1>1, PacketKeys, SMT
<1>3. Packets[OBMS2] = MonitorPackets[OBMS2]
  BY <1>2, PacketKeys, SMT DEF Packets, Over
<1>4. MonitorPackets[OBMS2] = {U("dischargeLimit", 0, 2), U("chargeLimit", 2, 2),
                               S("highTemp", 4, 1), S("lowTemp", 5, 1)}
  BY <1>1, SMT DEF MonitorPackets
<1> QED
  BY <1>2, <1>3, <1>4, FieldOf, SMT

\* What Bus_Init stores fits every field.
LEMMA InitiallyFits ==
    /\ DOMAIN Initially = DOMAIN Packets
    /\ \A key \in DOMAIN Packets :
          /\ DOMAIN Initially[key] = Names(Packets[key])
          /\ \A field \in Packets[key] : Initially[key][field.name] \in Values(field)
<1>1. ASSUME NEW key \in DOMAIN Packets, NEW field \in Packets[key]
      PROVE  Initially[key][field.name] \in Values(field)
  <2>1. IsField(field) /\ (field.name = "hv_voltage" => field = U("hv_voltage", 0, 2))
    BY PacketKeys, InverterFields, MonitorFields, SMT
  <2>2. 0 \in Values(field) /\ 25 \in Values(field)
    <3>1. Weight[field.size] \in {1, 256, 16777216} /\ field.signed \in BOOLEAN
      BY <2>1, WeightIs, SMT DEF IsField
    <3>2. 0 \div Weight[field.size] = 0 /\ 25 \div Weight[field.size] \in {0, 25}
      BY <3>1, SMT
    <3> QED
      BY <3>1, <3>2, SMT DEF Values, Byte
  <2>3. field = U("hv_voltage", 0, 2) => 32128 \in Values(field)
    <3>1. 32128 \div 256 = 125 /\ Weight[2] = 256
      BY WeightIs, SMT
    <3> QED
      BY <3>1, SMT DEF Values, Byte, U
  <2>4. field.name \in Names(Packets[key])
    BY DEF Names
  <2>5. \/ Initially[key][field.name] \in {0, 25}
        \/ Initially[key][field.name] = 32128 /\ field.name = "hv_voltage"
    BY <2>4, SMT DEF Initially
  <2> QED
    BY <2>1, <2>2, <2>3, <2>5
<1>2. \A key \in DOMAIN Packets : DOMAIN Initially[key] = Names(Packets[key])
  BY DEF Initially
<1>3. DOMAIN Initially = DOMAIN Packets
  BY DEF Initially
<1> QED
  BY <1>1, <1>2, <1>3

-----------------------------------------------------------------------------
(* Frames *)

\* The bytes of a field, swapped, are those of its number in memory.
LEMMA SwappedBytes ==
    ASSUME NEW data \in Seq(Byte), Len(data) = 8, NEW field, IsField(field), NEW v \in Int,
           \A i \in 1..field.size :
              data[field.at + i] = (v \div Weight[field.size + 1 - i]) % 256
    PROVE  Reverse(SubSeq(data, field.at + 1, field.at + field.size)) = InMemory(v, field.size)
<1> DEFINE at == field.at
           size == field.size
           raw == SubSeq(data, at + 1, at + size)
<1>1. at \in 0..7 /\ size \in {1, 2, 4} /\ at + size <= 8
  BY DEF IsField
<1> SUFFICES Reverse(raw) = InMemory(v, size)
  OBVIOUS
<1>2. \A i \in 1..size : data[at + i] = (v \div Weight[size + 1 - i]) % 256
  OBVIOUS
<1> HIDE DEF at, size
<1>3. raw = [i \in 1..size |-> data[at + i]]
  <2>1. data \in Seq(Byte) /\ Len(data) = 8
    OBVIOUS
  <2>2. raw = [i \in 1..((at + size) - (at + 1) + 1) |-> data[at + 1 + i - 1]]
    BY <1>1, <2>1
  <2>3. (at + size) - (at + 1) + 1 = size
    BY <1>1
  <2>4. \A i \in 1..size : at + 1 + i - 1 = at + i
    BY <1>1
  <2> QED
    BY <2>2, <2>3, <2>4
<1> HIDE DEF raw
<1>4. Len(raw) = size /\ DOMAIN raw = 1..size /\ size \in Nat
  BY <1>1, <1>3
<1>5. Reverse(raw) = [i \in 1..size |-> raw[size - i + 1]]
  BY <1>4 DEF Reverse
<1>6. \A i \in 1..size : raw[size - i + 1] = (v \div Weight[i]) % 256
  <2> TAKE i \in 1..size
  <2>1. size - i + 1 \in 1..size /\ size + 1 - (size - i + 1) = i
    BY <1>4
  <2> QED
    BY <1>2, <1>3, <2>1
<1> QED
  BY <1>5, <1>6 DEF InMemory

\* What threadBus stores of a frame of the inverter is what the inverter said.
THEOREM DecodedAsSaid ==
    ASSUME NEW key \in DOMAIN InverterPackets, NEW frame,
           frame.data \in Seq(Byte), Len(frame.data) = 8, OfInverter(frame, key)
    PROVE  Decode(key, frame.data) = frame.says
<1> DEFINE data == frame.data
           says == frame.says
           names == Names(Packets[key])
           Chosen(name) == CHOOSE field \in Packets[key] : field.name = name
           Stored(field) == Number(Reverse(SubSeq(data, field.at + 1, field.at + field.size)),
                                   field.signed)
<1>1. key \in 31..38 /\ \A field \in Packets[key] : IsField(field)
  BY PacketKeys, InverterFields
<1>2. ASSUME NEW field \in Packets[key]
      PROVE  Stored(field) = says[field.name]
  <2>1. /\ says[field.name] \in Values(field)
        /\ \A i \in 1..field.size :
              data[field.at + i] = (says[field.name] \div Weight[field.size + 1 - i]) % 256
    BY DEF OfInverter
  <2>2. says[field.name] \in Int /\ IsField(field)
    BY <1>1, <2>1 DEF Values
  <2>3. Reverse(SubSeq(data, field.at + 1, field.at + field.size))
          = InMemory(says[field.name], field.size)
    BY <2>1, <2>2, SwappedBytes
  <2> QED
    BY <2>1, <2>2, <2>3, NumberInMemory
<1>3. \A name \in names : Chosen(name) \in Packets[key] /\ Chosen(name).name = name
  BY DEF Names
<1>4. Decode(key, data) = [name \in names |-> Stored(Chosen(name))]
  BY DEF Decode, FromWire
<1> HIDE DEF Stored, Chosen
<1>5. \A name \in names : Stored(Chosen(name)) = says[name]
  BY <1>2, <1>3
<1>6. says = [name \in names |-> says[name]]
  BY DEF OfInverter
<1> QED
  BY <1>4, <1>5, <1>6

\* The cases of threadBus see the packets of the inverter by their number, and no frame
\* of another sender.
THEOREM Dispatched ==
    /\ \A key \in DOMAIN InverterPackets : \A id \in Ids(key) : id \div 256 = key
    /\ \A id \in OtherIds : id \div 256 \notin DOMAIN Packets
<1>1. ASSUME NEW key \in DOMAIN InverterPackets, NEW id \in Ids(key)
      PROVE  id \div 256 = key
  <2>1. key \in 31..38
    BY PacketKeys
  <2>2. id \in (256 * key)..(256 * key + 255)
    BY DEF Ids
  <2> QED
    BY <2>1, <2>2
<1>2. ASSUME NEW id \in OtherIds
      PROVE  id \div 256 \notin DOMAIN Packets
  <2>1. id \in 0..2047 \/ id \in {419365364, 419365620, 419365876, 419366132}
    BY SMT DEF OtherIds, IMD_GENERAL, IMD_VOLTAGE
  <2>2. id \div 256 \in 0..7 \cup {1638145, 1638146, 1638147, 1638148}
    BY <2>1, SMT
  <2>3. DOMAIN Packets = 31..38 \cup {1713, 1714, 419365364, 419365876}
    BY PacketKeys, SMT DEF OBMS2, OBMS3, IMD_GENERAL, IMD_VOLTAGE
  <2> QED
    BY <2>2, <2>3, SMT
<1> QED
  BY <1>1, <1>2
=============================================================================
