----------------------------- MODULE DriveProofs -----------------------------
(***************************************************************************)
(* Proofs about module Drive: for every set of frames and pedals, any size *)
(* of the FIFOs and any torque map. What is known of a frame is what       *)
(* FrameAssumption says of it: the bytes of its sender.                    *)
(***************************************************************************)
EXTENDS Drive, FrameProofs

USE DriveAssumption DEF DriveAssumption, Buses, Temperatures

\* In a cycle no temperature is below the coolest one.
CoolestSoFar == step # "start" => \A sensor \in Temperatures : coolest[sensor] <= Held[sensor]

\* A temperature that has been read bounds the factor, as cool as it was.
FactorCovers ==
    /\ step \in {"inverter", "send"} => factor <= VCU_Derate(coolest["motorTemp"])
    /\ step = "send" => factor <= VCU_Derate(coolest["controllerTemp"])

\* The inductive invariant.
IInv ==
    /\ TypeOK
    /\ RecordedAsSent
    /\ CoolestSoFar
    /\ FactorCovers
    /\ HeardAsMeant

-----------------------------------------------------------------------------
(* Lemmas about numbers *)

\* Two bytes, the most significant one first and with the sign, are the number again.
LEMMA TwoBytes ==
    ASSUME NEW v \in Signed16
    PROVE  LET high == (v \div 256) % 256
           IN 256 * (IF high < 128 THEN high ELSE high - 256) + (v % 256) = v
<1> DEFINE q == v \div 256
           r == v % 256
<1>1. q \in (-128)..127 /\ r \in 0..255 /\ v = 256 * q + r
  <2>1. v \in Int /\ -32768 <= v /\ v <= 32767
    BY DEF Signed16
  <2>2. q \in Int /\ r \in 0..255 /\ v = 256 * q + r
    BY <2>1
  <2> HIDE DEF q, r
  <2> QED
    BY <2>1, <2>2
<1> HIDE DEF q, r
<1>2. CASE q >= 0
  <2>1. q % 256 = q
    BY <1>1, <1>2
  <2> QED
    BY <2>1, <1>1, <1>2 DEF q, r
<1>3. CASE q < 0
  <2>1. q % 256 = q + 256
    BY <1>1, <1>3
  <2>2. ~(q + 256 < 128) /\ (q + 256) - 256 = q
    BY <1>1
  <2>3. 256 * q + r = v
    BY <1>1
  <2> QED
    BY <2>1, <2>2, <2>3 DEF q, r
<1> QED
  BY <1>1, <1>2, <1>3

\* What the inverter hears is what CAN_Send was given: one byte, or two with a sign.
LEMMA HeardIsSent ==
    ASSUME NEW command \in Commands, NEW v \in Signed16,
           command = SetDriveEnable => v \in 0..1
    PROVE  Heard(command, CAN_Send(command, v)) = v
<1>1. CASE command = SetDriveEnable
  <2>1. Length(command) = 1
    BY <1>1 DEF Length
  <2>2. CAN_Send(command, v) = [i \in 1..1 |-> (v \div Weight[i]) % 256]
    BY <2>1 DEF CAN_Send, InMemory
  <2>3. Weight[1] = 1
    BY WeightIs
  <2>4. CAN_Send(command, v)[1] = (v \div Weight[1]) % 256
    BY <2>2
  <2>5. (v \div 1) % 256 = v
    BY <1>1
  <2> QED
    BY <2>1, <2>3, <2>4, <2>5 DEF Heard
<1>2. CASE command # SetDriveEnable
  <2>1. Length(command) = 2
    BY <1>2 DEF Length
  <2> DEFINE bytes == [i \in 1..2 |-> (v \div Weight[i]) % 256]
  <2>2. CAN_Send(command, v) = Reverse(bytes)
    BY <2>1 DEF CAN_Send, InMemory
  <2>3. Weight[1] = 1 /\ Weight[2] = 256
    BY WeightIs
  <2>4. bytes[1] = v % 256 /\ bytes[2] = (v \div 256) % 256
    <3>1. bytes[1] = (v \div Weight[1]) % 256 /\ bytes[2] = (v \div Weight[2]) % 256
      OBVIOUS
    <3>2. v \div 1 = v
      BY DEF Signed16
    <3> QED
      BY <3>1, <3>2, <2>3
  <2>5. Len(bytes) = 2 /\ DOMAIN bytes = 1..2
    OBVIOUS
  <2> HIDE DEF bytes
  <2>6. Reverse(bytes)[1] = bytes[2] /\ Reverse(bytes)[2] = bytes[1]
    BY <2>5 DEF Reverse
  <2> QED
    BY <2>1, <2>2, <2>4, <2>6, TwoBytes DEF Heard
<1> QED
  BY <1>1, <1>2

\* A product of two numbers is bounded by that of their bounds.
LEMMA ProductBound ==
    ASSUME NEW a \in Nat, NEW b \in Nat, NEW m \in Nat, NEW n \in Nat, a <= m, b <= n
    PROVE  a * b \in Nat /\ a * b <= m * n
<1>1. a * b \in Nat /\ m * b \in Nat /\ m * n \in Nat
  BY SMT
<1>2. (m - a) * b >= 0
  BY SMT
<1>3. m * (n - b) >= 0
  BY SMT
<1>4. (m - a) * b = m * b - a * b /\ m * (n - b) = m * n - m * b
  BY SMT
<1> QED
  BY <1>1, <1>2, <1>3, <1>4, SMT

\* The factor is in its range for every temperature, and falls as the temperature rises.
LEMMA DerateRange ==
    ASSUME NEW t \in Int
    PROVE  VCU_Derate(t) \in 200..1000
BY DEF VCU_Derate, Min2

LEMMA DerateFalls ==
    ASSUME NEW t \in Int, NEW u \in Int, t <= u
    PROVE  VCU_Derate(u) <= VCU_Derate(t)
<1> DEFINE a == IF t < 700 THEN 700 ELSE Min2(t, 1000)
           b == IF u < 700 THEN 700 ELSE Min2(u, 1000)
<1>1. a \in 700..1000 /\ b \in 700..1000 /\ a <= b
  BY DEF Min2
<1>2. /\ VCU_Derate(t) = 1000 - (800 * (a - 700)) \div 300
      /\ VCU_Derate(u) = 1000 - (800 * (b - 700)) \div 300
  BY DEF VCU_Derate
<1> HIDE DEF a, b
<1> DEFINE x == 800 * (a - 700)
           y == 800 * (b - 700)
<1>3. x \in Nat /\ y \in Nat /\ x <= y
  BY <1>1
<1> HIDE DEF x, y
<1>4. /\ x \div 300 \in Int
      /\ y \div 300 \in Int
      /\ x \div 300 <= y \div 300
  BY <1>3
<1>5. VCU_Derate(t) = 1000 - (x \div 300) /\ VCU_Derate(u) = 1000 - (y \div 300)
  BY <1>2 DEF x, y
<1> QED
  BY <1>4, <1>5

\* In full at 100 degrees, and in part above 70.
LEMMA DerateHot ==
    ASSUME NEW t \in Int
    PROVE  /\ t >= 1000 => VCU_Derate(t) = 200
           /\ t > 700 => VCU_Derate(t) <= 998
BY DEF VCU_Derate, Min2

-----------------------------------------------------------------------------
(* Lemmas about the records and the messages *)

\* A field of two bytes with a sign holds the numbers of 16 bits.
LEMMA ValuesOfTwo ==
    ASSUME NEW name, NEW at
    PROVE  Values(S(name, at, 2)) = Signed16
<1>1. S(name, at, 2).size = 2 /\ S(name, at, 2).signed = TRUE
  BY DEF S
<1>2. Values(S(name, at, 2)) = {v \in Int : v \div 256 \in (-128)..127}
  BY <1>1, WeightIs DEF Values
<1>3. \A v \in Int : v \div 256 \in (-128)..127 <=> -32768 <= v /\ v <= 32767
  OBVIOUS
<1> QED
  BY <1>2, <1>3 DEF Signed16

\* The temperatures are fields of packets that the bus thread takes apart.
LEMMA TemperaturesAreFields ==
    /\ 34 \in DOMAIN Packets
    /\ \A sensor \in Temperatures :
          \E field \in Packets[34] : field.name = sensor /\ Values(field) = Signed16
<1>1. 34 \in DOMAIN Packets /\ Packets[34] = InverterPackets[34]
  BY PacketKeys
<1>2. InverterPackets[34] = {S("controllerTemp", 0, 2), S("motorTemp", 2, 2),
                             U("faultCode", 4, 1)}
  BY DEF InverterPackets
<1>3. /\ S("controllerTemp", 0, 2).name = "controllerTemp"
      /\ S("motorTemp", 2, 2).name = "motorTemp"
  BY DEF S
<1> QED
  BY <1>1, <1>2, <1>3, ValuesOfTwo

\* Under the type invariant a temperature is a number of 16 bits.
LEMMA HeldTyping ==
    ASSUME TypeOK
    PROVE  Held \in [Temperatures -> Signed16]
<1>1. \A sensor \in Temperatures : record[34][sensor] \in Signed16
  BY TemperaturesAreFields DEF TypeOK, RecordsOK
<1> QED
  BY <1>1 DEF Held

LEMMA HighTempTyping ==
    ASSUME TypeOK
    PROVE  record[OBMS2]["highTemp"] \in Int
BY HighTempIsField DEF TypeOK, RecordsOK, Values

LEMMA Signed16IsInt ==
    ASSUME NEW f \in [Temperatures -> Signed16]
    PROVE  \A sensor \in Temperatures : f[sensor] \in Signed16 /\ f[sensor] \in Int
BY DEF Signed16

\* What a frame leaves in a record is what its sender said, and fits the record.
LEMMA StoredAsSaid ==
    ASSUME NEW name \in DOMAIN Frame
    PROVE  /\ DOMAIN Stored[name] \subseteq DOMAIN Packets
           /\ \A key \in DOMAIN Stored[name] :
                 /\ Frame[name].id \in Ids(key)
                 /\ Stored[name][key] = Frame[name].says
                 /\ DOMAIN Stored[name][key] = Names(Packets[key])
                 /\ \A field \in Packets[key] : Stored[name][key][field.name] \in Values(field)
<1> DEFINE frame == Frame[name]
<1>1. Stored[name] = [key \in {DispatchKey(name)} \cap DOMAIN Packets |-> Decode(key, frame.data)]
  BY DEF Stored
<1>2. DispatchKey(name) = frame.id \div 256
  BY DEF DispatchKey
<1>3. ASSUME NEW key \in DOMAIN Stored[name]
      PROVE  /\ frame.id \in Ids(key)
             /\ Stored[name][key] = frame.says
             /\ DOMAIN frame.says = Names(Packets[key])
             /\ \A field \in Packets[key] : frame.says[field.name] \in Values(field)
  <2>1. key = frame.id \div 256 /\ key \in DOMAIN Packets
    BY <1>1, <1>2
  <2>2. frame.id \notin OtherIds
    BY <2>1, Dispatched
  <2>3. /\ frame.data \in Seq(Byte) /\ Len(frame.data) = 8
        /\ \E packet \in DOMAIN InverterPackets : OfInverter(frame, packet)
    BY <2>2, FrameAssumption
  <2>4. PICK packet \in DOMAIN InverterPackets : OfInverter(frame, packet)
    BY <2>3
  <2>5. packet = key
    BY <2>1, <2>4, Dispatched DEF OfInverter
  <2>6. Decode(key, frame.data) = frame.says
    BY <2>3, <2>4, <2>5, DecodedAsSaid
  <2> QED
    BY <1>1, <2>4, <2>5, <2>6 DEF OfInverter
<1> QED
  BY <1>1, <1>3

\* The parts of a queue that is not empty.
LEMMA QueueParts ==
    ASSUME NEW T, NEW s \in Seq(T), s # <<>>
    PROVE  Head(s) \in T /\ Tail(s) \in Seq(T)
OBVIOUS

LEMMA OverTyping ==
    ASSUME NEW A, NEW B, NEW T, NEW f \in [A -> T], NEW g \in [B -> T]
    PROVE  Over(f, g) \in [A \cup B -> T]
BY DEF Over

\* Messages within their ranges are heard as they are meant.
LEMMA SendIsHeard ==
    ASSUME NEW sent \in SUBSET Commands, NEW values \in [sent -> Signed16],
           SetDriveEnable \in sent => values[SetDriveEnable] \in 0..1,
           meant \in [Commands -> Signed16], HeardAsMeant, Send(values)
    PROVE  meant' \in [Commands -> Signed16] /\ HeardAsMeant'
<1>1. \A c \in sent : Heard(c, CAN_Send(c, values[c])) = values[c]
  BY HeardIsSent
<1>2. \A c \in Commands : inverter'[c] = meant'[c]
  BY <1>1 DEF Send, HeardAsMeant
<1>3. inverter' = meant'
  BY <1>2 DEF Send
<1> QED
  BY <1>3 DEF Send, HeardAsMeant

-----------------------------------------------------------------------------
(* The invariant *)

LEMMA InitInv == Init => IInv
<1> SUFFICES ASSUME Init PROVE IInv
  OBVIOUS
<1>1. FifosOK
  BY DEF Init, FifosOK
<1>2. RecordsOK
  BY InitiallyFits DEF Init, RecordsOK
<1>3. TypeOK
  <2>1. 0 \in Signed16
    BY DEF Signed16
  <2> QED
    BY <1>1, <1>2, <2>1 DEF Init, TypeOK
<1>4. RecordedAsSent
  BY DEF Init, RecordedAsSent
<1> QED
  BY <1>3, <1>4 DEF Init, IInv, CoolestSoFar, FactorCovers, HeardAsMeant

\* A step of threadVCU leaves the buses and the records alone.
LEMMA BusKept ==
    ASSUME IInv, UNCHANGED <<envVars, record>>
    PROVE  /\ sends' \in Senders /\ FifosOK' /\ RecordsOK' /\ RecordedAsSent'
           /\ Held' = Held
<1>1. sends' = sends /\ fifo' = fifo /\ record' = record
  BY DEF envVars
<1>2. sends' \in Senders
  BY <1>1 DEF IInv, TypeOK
<1>3. FifosOK'
  BY <1>1 DEF IInv, TypeOK, FifosOK
<1>4. RecordsOK'
  BY <1>1 DEF IInv, TypeOK, RecordsOK
<1>5. RecordedAsSent'
  BY <1>1 DEF IInv, RecordedAsSent
<1> QED
  BY <1>1, <1>2, <1>3, <1>4, <1>5 DEF Held

\* An arriving frame is none of threadVCU's business.
LEMMA ArriveInv ==
    ASSUME IInv, NEW bus \in Buses, NEW name \in sends[bus], Arrive(bus, name)
    PROVE  IInv'
<1>1. /\ sends \in [Buses -> SUBSET DOMAIN Frame] /\ name \in DOMAIN Frame
      /\ FifoSize \in Nat
  BY DEF IInv, TypeOK
<1>2. /\ fifo[bus] \in Seq(DOMAIN Frame) /\ fifo[bus] \in Seq(sends[bus])
      /\ Len(fifo[bus]) < FifoSize
  BY DEF IInv, TypeOK, FifosOK, Arrive
<1>3. /\ Append(fifo[bus], name) \in Seq(DOMAIN Frame)
      /\ Append(fifo[bus], name) \in Seq(sends[bus])
      /\ Len(Append(fifo[bus], name)) <= FifoSize
  <2>1. Append(fifo[bus], name) \in Seq(DOMAIN Frame)
    BY <1>1, <1>2, AppendProperties
  <2>2. Append(fifo[bus], name) \in Seq(sends[bus])
    BY <1>1, <1>2, AppendProperties
  <2>3. Len(Append(fifo[bus], name)) = Len(fifo[bus]) + 1 /\ Len(fifo[bus]) \in Nat
    BY <1>1, <1>2, AppendProperties, LenProperties
  <2> QED
    BY <1>1, <1>2, <2>1, <2>2, <2>3
<1>4. FifosOK'
  BY <1>3 DEF IInv, TypeOK, FifosOK, Arrive
<1>5. RecordsOK' /\ RecordedAsSent' /\ Held' = Held
  BY DEF IInv, TypeOK, RecordsOK, RecordedAsSent, Arrive, Held
<1>6. TypeOK'
  BY <1>4, <1>5 DEF IInv, TypeOK, Arrive, localVars, commandVars
<1> QED
  BY <1>5, <1>6 DEF IInv, Arrive, CoolestSoFar, FactorCovers, HeardAsMeant, localVars, commandVars

\* The frame that threadBus takes off a FIFO is one that is sent on its bus.
LEMMA TakenFrame ==
    ASSUME IInv, BusCycle
    PROVE  /\ Served \in Buses
           /\ Head(fifo[Served]) \in DOMAIN Frame
           /\ Head(fifo[Served]) \in sends[Served]
           /\ FifosOK'
<1>1. Served \in Buses
  BY DEF Served
<1>2. /\ fifo[Served] \in Seq(DOMAIN Frame) /\ fifo[Served] \in Seq(sends[Served])
      /\ fifo[Served] # <<>> /\ Len(fifo[Served]) <= FifoSize /\ FifoSize \in Nat
  BY <1>1 DEF IInv, TypeOK, FifosOK, BusCycle
<1>3. /\ Head(fifo[Served]) \in DOMAIN Frame /\ Head(fifo[Served]) \in sends[Served]
      /\ Tail(fifo[Served]) \in Seq(DOMAIN Frame) /\ Tail(fifo[Served]) \in Seq(sends[Served])
  BY <1>2, QueueParts
<1>4. Len(Tail(fifo[Served])) <= FifoSize
  BY <1>2
<1>5. FifosOK'
  BY <1>1, <1>3, <1>4 DEF IInv, TypeOK, FifosOK, BusCycle
<1> QED
  BY <1>1, <1>3, <1>5

\* threadBus: a record is left alone, or becomes what the sender of its frame said.
LEMMA RecordsFollow ==
    ASSUME IInv, BusCycle
    PROVE  RecordsOK' /\ RecordedAsSent'
<1> DEFINE name == Head(fifo[Served])
<1>1. name \in DOMAIN Frame /\ name \in sends[Served] /\ Served \in Buses /\ sends' = sends
  BY TakenFrame DEF BusCycle
<1>2. DOMAIN Stored[name] \subseteq DOMAIN Packets /\ DOMAIN record = DOMAIN Packets
  BY <1>1, StoredAsSaid DEF IInv, TypeOK, RecordsOK
<1>3. record' = Over(Stored[name], record)
  BY DEF BusCycle
<1> HIDE DEF name
<1>4. /\ DOMAIN record' = DOMAIN Packets
      /\ \A key \in DOMAIN Packets :
            record'[key] = IF key \in DOMAIN Stored[name] THEN Stored[name][key] ELSE record[key]
  BY <1>2, <1>3 DEF Over
<1>5. RecordsOK'
  BY <1>1, <1>4, StoredAsSaid DEF IInv, TypeOK, RecordsOK
<1>6. ASSUME NEW key \in DOMAIN Packets
      PROVE  \/ record'[key] = Initially[key]
             \/ \E bus \in Buses : \E sent \in sends'[bus] :
                   Frame[sent].id \in Ids(key) /\ record'[key] = Frame[sent].says
  <2>1. CASE key \in DOMAIN Stored[name]
    <3>1. Frame[name].id \in Ids(key) /\ record'[key] = Frame[name].says
      BY <1>1, <1>4, <2>1, StoredAsSaid
    <3> QED
      BY <1>1, <3>1
  <2>2. CASE key \notin DOMAIN Stored[name]
    <3>1. record'[key] = record[key]
      BY <1>4, <2>2
    <3> QED
      BY <1>1, <3>1 DEF IInv, RecordedAsSent
  <2> QED
    BY <2>1, <2>2
<1>7. RecordedAsSent'
  BY <1>6 DEF RecordedAsSent
<1> QED
  BY <1>5, <1>7

\* threadBus: the coolest values follow the record down.
LEMMA BusCycleInv ==
    ASSUME IInv, BusCycle
    PROVE  IInv'
<1>1. FifosOK' /\ RecordsOK' /\ RecordedAsSent'
  BY TakenFrame, RecordsFollow
<1>2. UNCHANGED <<sends, vehicleState, step, localVars, commandVars>>
  BY DEF BusCycle
<1>3. ASSUME coolest' \in [Temperatures -> Signed16]
      PROVE  TypeOK'
  BY <1>1, <1>2, <1>3 DEF IInv, TypeOK, localVars, commandVars
<1>4. Held \in [Temperatures -> Signed16] /\ Held' \in [Temperatures -> Signed16]
  <2>1. \A sensor \in Temperatures : record'[34][sensor] \in Signed16
    BY <1>1, TemperaturesAreFields DEF RecordsOK
  <2> QED
    BY <2>1, HeldTyping DEF Held, IInv
<1>5. HeardAsMeant'
  BY <1>2 DEF IInv, HeardAsMeant, commandVars
<1>6. CASE step = "start"
  <2>1. coolest' = coolest /\ step' = step /\ factor' = factor
    BY <1>2, <1>6 DEF BusCycle, localVars
  <2>2. TypeOK'
    BY <1>3, <2>1 DEF IInv, TypeOK
  <2> QED
    BY <1>1, <1>5, <1>6, <2>1, <2>2 DEF IInv, CoolestSoFar, FactorCovers
<1>7. CASE step # "start"
  <2>1. coolest' = [sensor \in Temperatures |-> Min2(coolest[sensor], Held'[sensor])]
    BY <1>7 DEF BusCycle, Held
  <2>2. \A sensor \in Temperatures : coolest[sensor] \in Signed16 /\ coolest[sensor] \in Int
                                     /\ Held'[sensor] \in Int
    <3>1. coolest \in [Temperatures -> Signed16]
      BY DEF IInv, TypeOK
    <3> QED
      BY ONLY <1>4, <3>1, Signed16IsInt
  <2>3. /\ coolest' \in [Temperatures -> Signed16]
        /\ \A sensor \in Temperatures : coolest'[sensor] <= Held'[sensor]
                                        /\ coolest'[sensor] <= coolest[sensor]
                                        /\ coolest'[sensor] \in Int
    BY <1>4, <2>1, <2>2 DEF Min2
  <2>4. TypeOK'
    BY <1>3, <2>3
  <2>5. CoolestSoFar'
    BY <2>3 DEF CoolestSoFar
  <2>6. FactorCovers'
    <3>1. \A sensor \in Temperatures : VCU_Derate(coolest[sensor]) <= VCU_Derate(coolest'[sensor])
      BY <2>2, <2>3, DerateFalls
    <3>2. \A sensor \in Temperatures : /\ VCU_Derate(coolest[sensor]) \in 200..1000
                                       /\ VCU_Derate(coolest'[sensor]) \in 200..1000
      BY <2>2, <2>3, DerateRange
    <3>3. step' = step /\ factor' = factor /\ factor \in 200..1000
      BY <1>2 DEF IInv, TypeOK, localVars
    <3>4. \A sensor \in Temperatures :
             factor <= VCU_Derate(coolest[sensor]) => factor <= VCU_Derate(coolest'[sensor])
      <4> TAKE sensor \in Temperatures
      <4> DEFINE before == VCU_Derate(coolest[sensor])
                 after == VCU_Derate(coolest'[sensor])
      <4>1. before <= after /\ before \in Int /\ after \in Int /\ factor \in Int
        BY <3>1, <3>2, <3>3
      <4> HIDE DEF before, after
      <4>2. factor <= before => factor <= after
        BY <4>1
      <4> QED
        BY <4>2 DEF before, after
    <3> QED
      BY <3>3, <3>4 DEF IInv, FactorCovers
  <2> QED
    BY <1>1, <1>5, <2>4, <2>5, <2>6 DEF IInv
<1> QED
  BY <1>6, <1>7

\* A cycle starts with the temperatures held.
LEMMA CycleStartsInv ==
    ASSUME IInv, NEW pedal \in Pedals, CycleStarts(pedal)
    PROVE  IInv'
<1>0. sends' \in Senders /\ FifosOK' /\ RecordsOK' /\ RecordedAsSent' /\ Held' = Held
  BY BusKept DEF CycleStarts
<1>1. Held \in [Temperatures -> Signed16]
  BY HeldTyping DEF IInv
<1>2. TypeOK'
  BY <1>0, <1>1 DEF IInv, TypeOK, CycleStarts, commandVars
<1>3. CoolestSoFar'
  <2>1. \A sensor \in Temperatures : coolest'[sensor] = Held'[sensor] /\ coolest'[sensor] \in Int
    BY <1>0, <1>1, Signed16IsInt DEF CycleStarts
  <2> QED
    BY <2>1 DEF CoolestSoFar
<1> QED
  BY <1>0, <1>2, <1>3 DEF IInv, CycleStarts, FactorCovers, HeardAsMeant, commandVars

\* The numbers of an enable message, and of the limits.
LEMMA EnableTyping ==
    ASSUME NEW b \in BOOLEAN
    PROVE  Enable(b) \in [{SetDriveEnable} -> Signed16] /\ Enable(b)[SetDriveEnable] \in 0..1
<1>1. 0 \in Signed16 /\ 1 \in Signed16
  BY DEF Signed16
<1> QED
  BY <1>1 DEF Enable

LEMMA LimitsTyping ==
    ASSUME NEW permille \in 200..1000
    PROVE  Limits(permille) \in [Commands \ {SetDriveEnable, SetRelativeCurrent} -> Signed16]
<1>1. -20 \in Signed16 /\ -200 \in Signed16
  BY DEF Signed16
<1>2. (600 * permille) \div 1000 \in 0..1500 /\ (1500 * permille) \div 1000 \in 0..1500
  OBVIOUS
<1>3. (600 * permille) \div 1000 \in Signed16 /\ (1500 * permille) \div 1000 \in Signed16
  BY <1>2 DEF Signed16
<1>4. Commands \ {SetDriveEnable, SetRelativeCurrent}
        = {SetMaxCurrentDC, SetMaxBrakeCurrentDC, SetMaxCurrentAC, SetMaxBrakeCurrentAC}
  BY DEF Commands, SetDriveEnable, SetRelativeCurrent, SetMaxCurrentDC, SetMaxBrakeCurrentDC,
         SetMaxCurrentAC, SetMaxBrakeCurrentAC
<1> QED
  BY <1>1, <1>3, <1>4 DEF Limits

LEMMA PrechargingInv ==
    ASSUME IInv, Precharging
    PROVE  IInv'
<1> DEFINE sent == Commands \ {SetRelativeCurrent}
           values == Over(Enable(FALSE), Limits(1000))
<1>1. values \in [sent -> Signed16]
  <2> DEFINE disable == Enable(FALSE)
             limits == Limits(1000)
             others == Commands \ {SetDriveEnable, SetRelativeCurrent}
  <2>1. {SetDriveEnable} \cup others = sent
    BY DEF Commands, SetDriveEnable, SetRelativeCurrent
  <2>2. disable \in [{SetDriveEnable} -> Signed16]
    <3>1. FALSE \in BOOLEAN
      OBVIOUS
    <3> QED
      BY ONLY <3>1, EnableTyping
  <2>3. limits \in [others -> Signed16]
    <3>1. 1000 \in 200..1000
      OBVIOUS
    <3> QED
      BY ONLY <3>1, LimitsTyping
  <2>4. values = Over(disable, limits)
    OBVIOUS
  <2> HIDE DEF disable, limits, others, sent, values
  <2>5. Over(disable, limits) \in [{SetDriveEnable} \cup others -> Signed16]
    BY <2>2, <2>3, OverTyping
  <2> QED
    BY <2>1, <2>4, <2>5
<1>2. values[SetDriveEnable] = 0
  BY DEF Over, Enable
<1>3. Send(values) /\ sent \in SUBSET Commands
  BY DEF Precharging
<1> HIDE DEF values, sent
<1>4. meant' \in [Commands -> Signed16] /\ HeardAsMeant'
  <2>1. meant \in [Commands -> Signed16] /\ HeardAsMeant
    BY DEF IInv, TypeOK
  <2>2. values[SetDriveEnable] \in 0..1
    BY <1>2
  <2> QED
    BY ONLY <1>1, <1>3, <2>1, <2>2, SendIsHeard
<1>0. sends' \in Senders /\ FifosOK' /\ RecordsOK' /\ RecordedAsSent' /\ Held' = Held
  BY BusKept DEF Precharging
<1>5. TypeOK'
  BY <1>0, <1>4 DEF IInv, TypeOK, Precharging, CycleEnds, HeardAsMeant
<1> QED
  BY <1>0, <1>4, <1>5 DEF IInv, Precharging, CycleEnds, CoolestSoFar, FactorCovers

\* An enable command alone.
LEMMA EnableIsHeard ==
    ASSUME IInv, NEW b \in BOOLEAN, Send(Enable(b))
    PROVE  meant' \in [Commands -> Signed16] /\ HeardAsMeant'
<1>1. {SetDriveEnable} \in SUBSET Commands
  BY DEF Commands
<1>2. Enable(b) \in [{SetDriveEnable} -> Signed16] /\ Enable(b)[SetDriveEnable] \in 0..1
  BY EnableTyping
<1> QED
  BY <1>1, <1>2, SendIsHeard DEF IInv, TypeOK

LEMMA IdleInv ==
    ASSUME IInv, Idle
    PROVE  IInv'
<1>1. meant' \in [Commands -> Signed16] /\ HeardAsMeant'
  BY EnableIsHeard DEF Idle
<1>0. sends' \in Senders /\ FifosOK' /\ RecordsOK' /\ RecordedAsSent' /\ Held' = Held
  BY BusKept DEF Idle
<1>2. TypeOK'
  BY <1>0, <1>1 DEF IInv, TypeOK, Idle, CycleEnds, HeardAsMeant
<1> QED
  BY <1>0, <1>1, <1>2 DEF IInv, Idle, CycleEnds, CoolestSoFar, FactorCovers

LEMMA SilentEndsInv ==
    ASSUME IInv, Fault \/ DriveEnds
    PROVE  IInv'
<1>0. sends' \in Senders /\ FifosOK' /\ RecordsOK' /\ RecordedAsSent' /\ Held' = Held
  BY BusKept DEF Fault, DriveEnds
<1>1. TypeOK'
  BY <1>0 DEF IInv, TypeOK, Fault, DriveEnds, CycleEnds, commandVars
<1> QED
  BY <1>0, <1>1 DEF IInv, Fault, DriveEnds, CycleEnds, CoolestSoFar, FactorCovers, HeardAsMeant, commandVars

LEMMA ReadBatteryInv ==
    ASSUME IInv, ReadBattery
    PROVE  IInv'
<1>1. meant' \in [Commands -> Signed16] /\ HeardAsMeant'
  BY EnableIsHeard DEF ReadBattery
<1>2. record[OBMS2]["highTemp"] \in Int
  BY HighTempTyping DEF IInv
<1>3. factor' \in 200..1000
  BY <1>2, DerateRange DEF ReadBattery
<1>0. sends' \in Senders /\ FifosOK' /\ RecordsOK' /\ RecordedAsSent' /\ Held' = Held
  BY BusKept DEF ReadBattery
<1>4. TypeOK'
  BY <1>0, <1>1, <1>3 DEF IInv, TypeOK, ReadBattery, HeardAsMeant
<1> QED
  BY <1>0, <1>1, <1>4 DEF IInv, ReadBattery, CoolestSoFar, FactorCovers

\* A factor that is read is at most that of the coolest value.
LEMMA ReadCovers ==
    ASSUME TypeOK, CoolestSoFar, step # "start", NEW sensor \in Temperatures
    PROVE  /\ Min2(factor, VCU_Derate(Held[sensor])) \in 200..1000
           /\ Min2(factor, VCU_Derate(Held[sensor])) <= factor
           /\ Min2(factor, VCU_Derate(Held[sensor])) <= VCU_Derate(coolest[sensor])
<1>1. Held[sensor] \in Int /\ coolest[sensor] \in Int /\ coolest[sensor] <= Held[sensor]
  <2>1. Held \in [Temperatures -> Signed16] /\ coolest \in [Temperatures -> Signed16]
    BY HeldTyping DEF TypeOK
  <2>2. Held[sensor] \in Int /\ coolest[sensor] \in Int
    BY ONLY <2>1, sensor \in Temperatures, Signed16IsInt
  <2> QED
    BY <2>2 DEF CoolestSoFar
<1>2. VCU_Derate(Held[sensor]) <= VCU_Derate(coolest[sensor])
  BY <1>1, DerateFalls
<1>3. VCU_Derate(Held[sensor]) \in 200..1000 /\ VCU_Derate(coolest[sensor]) \in 200..1000
  BY <1>1, DerateRange
<1>4. factor \in 200..1000
  BY DEF TypeOK
<1> DEFINE now == VCU_Derate(Held[sensor])
           cool == VCU_Derate(coolest[sensor])
<1> HIDE DEF now, cool
<1>5. now \in 200..1000 /\ cool \in 200..1000 /\ now <= cool
  BY <1>2, <1>3 DEF now, cool
<1>6. Min2(factor, now) \in 200..1000 /\ Min2(factor, now) <= factor /\ Min2(factor, now) <= cool
  BY <1>4, <1>5 DEF Min2
<1> QED
  BY <1>6 DEF now, cool

LEMMA ReadMotorInv ==
    ASSUME IInv, ReadMotor
    PROVE  IInv'
<1>1. factor' \in 200..1000 /\ factor' <= VCU_Derate(coolest["motorTemp"])
  BY ReadCovers DEF IInv, ReadMotor
<1>0. sends' \in Senders /\ FifosOK' /\ RecordsOK' /\ RecordedAsSent' /\ Held' = Held
  BY BusKept DEF ReadMotor
<1>2. TypeOK'
  BY <1>0, <1>1 DEF IInv, TypeOK, ReadMotor, commandVars
<1> QED
  BY <1>0, <1>1, <1>2 DEF IInv, ReadMotor, CoolestSoFar, FactorCovers, HeardAsMeant, commandVars

LEMMA ReadInverterInv ==
    ASSUME IInv, ReadInverter
    PROVE  IInv'
<1>1. /\ factor' \in 200..1000 /\ factor' <= factor
      /\ factor' <= VCU_Derate(coolest["controllerTemp"])
  BY ReadCovers DEF IInv, ReadInverter
<1>2. factor' <= VCU_Derate(coolest["motorTemp"])
  <2>1. factor <= VCU_Derate(coolest["motorTemp"]) /\ coolest["motorTemp"] \in Int
    BY Signed16IsInt DEF IInv, TypeOK, ReadInverter, FactorCovers
  <2>2. VCU_Derate(coolest["motorTemp"]) \in 200..1000 /\ factor \in 200..1000
    BY <2>1, DerateRange DEF IInv, TypeOK
  <2> QED
    BY <1>1, <2>1, <2>2
<1>0. sends' \in Senders /\ FifosOK' /\ RecordsOK' /\ RecordedAsSent' /\ Held' = Held
  BY BusKept DEF ReadInverter
<1>3. TypeOK'
  BY <1>0, <1>1 DEF IInv, TypeOK, ReadInverter, commandVars
<1> QED
  BY <1>0, <1>1, <1>2, <1>3
     DEF IInv, ReadInverter, CoolestSoFar, FactorCovers, HeardAsMeant, commandVars

\* The last messages of a cycle, and what the inverter hears of them.
LEMMA LastMessages ==
    ASSUME IInv, SendCommands
    PROVE  /\ meant' \in [Commands -> Signed16] /\ HeardAsMeant'
           /\ inverter'[SetMaxCurrentDC] = (600 * factor) \div 1000
           /\ inverter'[SetMaxCurrentAC] = (1500 * factor) \div 1000
           /\ inverter'[SetRelativeCurrent] = (targetTorque * factor) \div 1000
<1> DEFINE sent == Commands \ {SetDriveEnable}
           values == Over(Limits(factor), Accel(factor))
<1>1. factor \in 200..1000 /\ targetTorque \in 0..800
  BY DEF IInv, TypeOK
<1>2. Limits(factor) \in [Commands \ {SetDriveEnable, SetRelativeCurrent} -> Signed16]
  BY <1>1, LimitsTyping
<1>3. Accel(factor) \in [{SetRelativeCurrent} -> Signed16]
  <2>1. targetTorque * factor \in Nat /\ targetTorque * factor <= 800 * 1000
    BY <1>1, ProductBound
  <2> DEFINE product == targetTorque * factor
  <2> HIDE DEF product
  <2>2. product \in Nat /\ product <= 800000
    BY <2>1 DEF product
  <2>3. product \div 1000 \in 0..800
    BY <2>2
  <2>4. product \div 1000 \in Signed16
    BY <2>3 DEF Signed16
  <2> QED
    BY <2>4 DEF Accel, product
<1>4. SetRelativeCurrent \in sent
  BY DEF Commands, SetDriveEnable, SetRelativeCurrent
<1>5. (Commands \ {SetDriveEnable, SetRelativeCurrent}) \cup {SetRelativeCurrent} = sent
  BY <1>4
<1>6. values \in [sent -> Signed16]
  BY <1>2, <1>3, <1>5, OverTyping
<1>7. /\ values[SetMaxCurrentDC] = Limits(factor)[SetMaxCurrentDC]
      /\ values[SetMaxCurrentAC] = Limits(factor)[SetMaxCurrentAC]
      /\ values[SetRelativeCurrent] = Accel(factor)[SetRelativeCurrent]
  <2>1. /\ SetMaxCurrentDC \in DOMAIN Limits(factor)
        /\ SetMaxCurrentAC \in DOMAIN Limits(factor)
        /\ SetRelativeCurrent \notin DOMAIN Limits(factor)
        /\ SetRelativeCurrent \in DOMAIN Accel(factor)
    BY DEF Limits, Accel, SetMaxCurrentDC, SetMaxCurrentAC, SetMaxBrakeCurrentDC,
           SetMaxBrakeCurrentAC, SetRelativeCurrent
  <2> QED
    BY <2>1 DEF Over
<1>8. /\ Limits(factor)[SetMaxCurrentDC] = (600 * factor) \div 1000
      /\ Limits(factor)[SetMaxCurrentAC] = (1500 * factor) \div 1000
      /\ Accel(factor)[SetRelativeCurrent] = (targetTorque * factor) \div 1000
  BY DEF Limits, Accel, SetMaxCurrentDC, SetMaxCurrentAC, SetMaxBrakeCurrentDC,
         SetMaxBrakeCurrentAC, SetRelativeCurrent
<1>9. Send(values) /\ sent \in SUBSET Commands /\ SetDriveEnable \notin sent
  BY DEF SendCommands
<1>10. {SetMaxCurrentDC, SetMaxCurrentAC, SetRelativeCurrent} \subseteq sent
  BY DEF Commands, SetMaxCurrentDC, SetMaxCurrentAC, SetRelativeCurrent, SetDriveEnable
<1> HIDE DEF values, sent
<1>11. meant' \in [Commands -> Signed16] /\ HeardAsMeant'
  BY <1>6, <1>9, SendIsHeard DEF IInv, TypeOK
<1>12. \A c \in sent : inverter'[c] = values[c]
  BY <1>6, <1>9, <1>11 DEF Send, HeardAsMeant
<1> QED
  BY <1>7, <1>8, <1>10, <1>11, <1>12

LEMMA SendCommandsInv ==
    ASSUME IInv, SendCommands
    PROVE  IInv'
<1>1. meant' \in [Commands -> Signed16] /\ HeardAsMeant'
  BY LastMessages
<1>0. sends' \in Senders /\ FifosOK' /\ RecordsOK' /\ RecordedAsSent' /\ Held' = Held
  BY BusKept DEF SendCommands
<1>2. TypeOK'
  BY <1>0, <1>1 DEF IInv, TypeOK, SendCommands, CycleEnds, HeardAsMeant
<1> QED
  BY <1>0, <1>1, <1>2 DEF IInv, SendCommands, CycleEnds, CoolestSoFar, FactorCovers

LEMMA NextInv ==
    ASSUME IInv, [Next]_vars
    PROVE  IInv'
<1>1. ASSUME NEW bus \in Buses, NEW name \in sends[bus], Arrive(bus, name)
      PROVE  IInv'
  BY <1>1, ArriveInv
<1>2. CASE BusCycle
  BY <1>2, BusCycleInv
<1>3. ASSUME NEW pedal \in Pedals, CycleStarts(pedal)
      PROVE  IInv'
  BY <1>3, CycleStartsInv
<1>4. CASE Precharging
  BY <1>4, PrechargingInv
<1>5. CASE Idle
  BY <1>5, IdleInv
<1>6. CASE Fault \/ DriveEnds
  BY <1>6, SilentEndsInv
<1>7. CASE ReadBattery
  BY <1>7, ReadBatteryInv
<1>8. CASE ReadMotor
  BY <1>8, ReadMotorInv
<1>9. CASE ReadInverter
  BY <1>9, ReadInverterInv
<1>10. CASE SendCommands
  BY <1>10, SendCommandsInv
<1>11. CASE UNCHANGED vars
  <2>1. sends' \in Senders /\ FifosOK' /\ RecordsOK' /\ RecordedAsSent' /\ Held' = Held
    BY <1>11, BusKept DEF vars
  <2>2. TypeOK'
    BY <1>11, <2>1 DEF IInv, TypeOK, vars, localVars, commandVars
  <2> QED
    BY <1>11, <2>1, <2>2 DEF IInv, vars, localVars, commandVars, CoolestSoFar, FactorCovers,
                             HeardAsMeant
<1> QED
  BY <1>1, <1>2, <1>3, <1>4, <1>5, <1>6, <1>7, <1>8, <1>9, <1>10, <1>11 DEF Next, Vcu

\* Every reachable state satisfies the inductive invariant.
THEOREM Invariance == Spec => []IInv
<1>1. Init => IInv
  BY InitInv
<1>2. IInv /\ [Next]_vars => IInv'
  BY NextInv
<1> QED
  BY <1>1, <1>2, PTL DEF Spec

-----------------------------------------------------------------------------
(* The properties *)

\* Records, FIFOs and commands keep their types: no value leaves the range of its field.
THEOREM TypeCorrect == Spec => []TypeOK
BY Invariance, PTL DEF IInv

\* Whatever values the inverter has, signed and long ones included, each record holds
\* those of one frame of its packet, or what Bus_Init left there; frames of other
\* senders leave no trace.
THEOREM RecordedTruly == Spec => []RecordedAsSent
BY Invariance, PTL DEF IInv

\* The inverter hears every number as the controller means it, limits below zero
\* included, whatever the torque map and the temperatures are.
THEOREM MeaningHeard == Spec => []HeardAsMeant
BY Invariance, PTL DEF IInv

\* A factor that covers a temperature derates limits and torque.
LEMMA SendDerates ==
    ASSUME IInv, SendCommands, NEW sensor \in Temperatures
    PROVE  /\ coolest[sensor] >= 1000 => /\ inverter'[SetMaxCurrentDC] <= 120
                                         /\ inverter'[SetMaxCurrentAC] <= 300
                                         /\ inverter'[SetRelativeCurrent] <= 160
           /\ coolest[sensor] > 700 => /\ inverter'[SetMaxCurrentDC] < 600
                                       /\ inverter'[SetMaxCurrentAC] < 1500
                                       /\ inverter'[SetRelativeCurrent] < 800
<1>1. factor \in 200..1000 /\ targetTorque \in 0..800 /\ coolest[sensor] \in Int
  BY Signed16IsInt DEF IInv, TypeOK
<1>2. factor <= VCU_Derate(coolest[sensor])
  BY DEF IInv, FactorCovers, SendCommands
<1>3. CASE coolest[sensor] > 700
  <2>1. VCU_Derate(coolest[sensor]) <= 998 /\ VCU_Derate(coolest[sensor]) \in Int
    <3>1. VCU_Derate(coolest[sensor]) <= 998
      BY <1>1, <1>3, DerateHot
    <3>2. VCU_Derate(coolest[sensor]) \in 200..1000
      BY <1>1, DerateRange
    <3> QED
      BY <3>1, <3>2
  <2>2. factor <= 998
    BY <1>1, <1>2, <2>1
  <2>3. (600 * factor) \div 1000 < 600 /\ (1500 * factor) \div 1000 < 1500
    BY <1>1, <2>2
  <2>4. targetTorque * factor \in Nat /\ targetTorque * factor <= 800 * 998
    BY <1>1, <2>2, ProductBound
  <2> DEFINE product == targetTorque * factor
  <2> HIDE DEF product
  <2>5. product \in Nat /\ product <= 798400
    BY <2>4 DEF product
  <2>6. product \div 1000 < 800
    BY <2>5
  <2>7. (targetTorque * factor) \div 1000 < 800
    BY <2>6 DEF product
  <2>8. CASE coolest[sensor] >= 1000
    <3>1. factor = 200
      BY <1>1, <1>2, <2>8, DerateHot
    <3>2. (600 * factor) \div 1000 <= 120 /\ (1500 * factor) \div 1000 <= 300
      BY <3>1
    <3>3. (targetTorque * factor) \div 1000 <= 160
      BY <1>1, <3>1
    <3> QED
      BY <2>3, <2>7, <3>2, <3>3, LastMessages
  <2> QED
    BY <1>1, <2>3, <2>7, <2>8, LastMessages
<1> QED
  BY <1>1, <1>3

\* A temperature that is high throughout a cycle derates it, for every torque map and every
\* schedule of frames between the reads.
THEOREM Derated == Spec => DeratedForEach
<1>1. ASSUME IInv, [Next]_vars, step = "send", step' # "send"
      PROVE  SendCommands
  <2>1. ~(\E bus \in Buses : \E name \in sends[bus] : Arrive(bus, name)) /\ ~BusCycle
    BY <1>1 DEF Arrive, BusCycle
  <2>2. ~UNCHANGED vars
    BY <1>1 DEF vars
  <2>3. Vcu
    BY <1>1, <2>1, <2>2 DEF Next
  <2> QED
    BY <1>1, <2>3 DEF Vcu, CycleStarts, Precharging, Idle, Fault, DriveEnds, ReadBattery,
                      ReadMotor, ReadInverter
<1>2. IInv /\ [Next]_vars =>
        (step = "send" /\ step' # "send" =>
          \A sensor \in Temperatures :
            /\ coolest[sensor] >= 1000 => /\ inverter'[SetMaxCurrentDC] <= 120
                                          /\ inverter'[SetMaxCurrentAC] <= 300
                                          /\ inverter'[SetRelativeCurrent] <= 160
            /\ coolest[sensor] > 700 => /\ inverter'[SetMaxCurrentDC] < 600
                                        /\ inverter'[SetMaxCurrentAC] < 1500
                                        /\ inverter'[SetRelativeCurrent] < 800)
  BY <1>1, SendDerates
<1> QED
  BY <1>2, Invariance, PTL DEF Spec, DeratedForEach
=============================================================================
