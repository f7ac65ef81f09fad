--------------------------- MODULE TelemetryProofs ---------------------------
(***************************************************************************)
(* Proofs about module TelemetryRecord: what the logger makes of any       *)
(* record of its own tests and of any record of the vehicle controller.    *)
(***************************************************************************)
EXTENDS TelemetryRecord, SequenceTheorems, TLAPS

-----------------------------------------------------------------------------
(* Bits *)

LEMMA BitWeights ==
    /\ BitWeight[1] = 1 /\ BitWeight[2] = 2 /\ BitWeight[3] = 4 /\ BitWeight[4] = 8
    /\ BitWeight[5] = 16 /\ BitWeight[6] = 32 /\ BitWeight[7] = 64 /\ BitWeight[8] = 128
BY SMT DEF BitWeight

\* The last bit of a number.
LEMMA BitAbove ==
    ASSUME NEW above \in Nat, NEW bit \in {0, 1}
    PROVE  (2 * above + bit) % 2 = bit
BY SMT

\* Each bit of a sum of eight weights is the one that was put there.
LEMMA BitsOfSum ==
    ASSUME NEW b \in [0..7 -> {0, 1}],
           NEW n, n = b[0] + 2 * b[1] + 4 * b[2] + 8 * b[3] + 16 * b[4] + 32 * b[5]
                         + 64 * b[6] + 128 * b[7]
    PROVE  n \in Byte /\ \A i \in 0..7 : (n \div BitWeight[i + 1]) % 2 = b[i]
<1> DEFINE b0 == b[0]
           b1 == b[1]
           b2 == b[2]
           b3 == b[3]
           b4 == b[4]
           b5 == b[5]
           b6 == b[6]
           b7 == b[7]
<1>0. /\ b0 \in {0, 1} /\ b1 \in {0, 1} /\ b2 \in {0, 1} /\ b3 \in {0, 1}
      /\ b4 \in {0, 1} /\ b5 \in {0, 1} /\ b6 \in {0, 1} /\ b7 \in {0, 1}
      /\ n = b0 + 2 * b1 + 4 * b2 + 8 * b3 + 16 * b4 + 32 * b5 + 64 * b6 + 128 * b7
  OBVIOUS
<1> HIDE DEF b0, b1, b2, b3, b4, b5, b6, b7
<1> DEFINE h7 == b7
           h6 == 2 * h7 + b6
           h5 == 2 * h6 + b5
           h4 == 2 * h5 + b4
           h3 == 2 * h4 + b3
           h2 == 2 * h3 + b2
           h1 == 2 * h2 + b1
           h0 == 2 * h1 + b0
           l1 == b0
           l2 == l1 + 2 * b1
           l3 == l2 + 4 * b2
           l4 == l3 + 8 * b3
           l5 == l4 + 16 * b4
           l6 == l5 + 32 * b5
           l7 == l6 + 64 * b6
<1>1. /\ h7 \in Nat /\ h6 \in Nat /\ h5 \in Nat /\ h4 \in Nat
      /\ h3 \in Nat /\ h2 \in Nat /\ h1 \in Nat /\ h0 \in Nat
  BY <1>0, SMT
<1>2. n \in Byte
  BY <1>0, SMT DEF Byte
<1>3. /\ n = 1 * h0 + 0 /\ n = 2 * h1 + l1 /\ n = 4 * h2 + l2 /\ n = 8 * h3 + l3
      /\ n = 16 * h4 + l4 /\ n = 32 * h5 + l5 /\ n = 64 * h6 + l6 /\ n = 128 * h7 + l7
  BY <1>0, SMT
<1>4. /\ l1 \in 0..1 /\ l2 \in 0..3 /\ l3 \in 0..7 /\ l4 \in 0..15
      /\ l5 \in 0..31 /\ l6 \in 0..63 /\ l7 \in 0..127
  BY <1>0, SMT
<1> HIDE DEF l1, l2, l3, l4, l5, l6, l7
<1>5. /\ h0 % 2 = b0 /\ h1 % 2 = b1 /\ h2 % 2 = b2 /\ h3 % 2 = b3
      /\ h4 % 2 = b4 /\ h5 % 2 = b5 /\ h6 % 2 = b6 /\ h7 % 2 = b7
  <2>1. h7 % 2 = b7
    BY <1>0, SMT
  <2> HIDE DEF h7, h6, h5, h4, h3, h2, h1
  <2>2. h0 % 2 = b0
    BY <1>0, <1>1, BitAbove
  <2>3. h1 % 2 = b1
    BY <1>0, <1>1, BitAbove DEF h1
  <2>4. h2 % 2 = b2
    BY <1>0, <1>1, BitAbove DEF h2
  <2>5. h3 % 2 = b3
    BY <1>0, <1>1, BitAbove DEF h3
  <2>6. h4 % 2 = b4
    BY <1>0, <1>1, BitAbove DEF h4
  <2>7. h5 % 2 = b5
    BY <1>0, <1>1, BitAbove DEF h5
  <2>8. h6 % 2 = b6
    BY <1>0, <1>1, BitAbove DEF h6
  <2> QED
    BY <2>1, <2>2, <2>3, <2>4, <2>5, <2>6, <2>7, <2>8
<1> HIDE DEF h0, h1, h2, h3, h4, h5, h6, h7
<1>6. n \div 1 = h0 /\ n \div 2 = h1
  BY <1>1, <1>3, <1>4, SMT
<1>7. n \div 4 = h2
  BY <1>1, <1>3, <1>4, SMT
<1>8. n \div 8 = h3
  BY <1>1, <1>3, <1>4, SMT
<1>9. n \div 16 = h4
  BY <1>1, <1>3, <1>4, SMT
<1>10. n \div 32 = h5
  BY <1>1, <1>3, <1>4, SMT
<1>11. n \div 64 = h6
  BY <1>1, <1>3, <1>4, SMT
<1>12. n \div 128 = h7
  BY <1>1, <1>3, <1>4, SMT
<1> HIDE DEF h0, h1, h2, h3, h4, h5, h6, h7
<1>13. ASSUME NEW i \in 0..7
       PROVE  (n \div BitWeight[i + 1]) % 2 = b[i]
  <2>1. i \in {0, 1, 2, 3, 4, 5, 6, 7}
    OBVIOUS
  <2>2. CASE i \in {0, 1, 2, 3}
    BY <1>5, <1>6, <1>7, <1>8, <2>2, BitWeights DEF b0, b1, b2, b3
  <2>3. CASE i \in {4, 5, 6, 7}
    BY <1>5, <1>9, <1>10, <1>11, <1>12, <2>3, BitWeights DEF b4, b5, b6, b7
  <2> QED
    BY <2>1, <2>2, <2>3
<1> QED
  BY <1>2, <1>13

\* A byte has the bits it was made of, and no others.
LEMMA BitsOfByte ==
    ASSUME NEW bits
    PROVE  /\ ByteOf(bits) \in Byte
           /\ \A i \in 0..7 : BitSet(ByteOf(bits), i) <=> i \in bits
<1> DEFINE b == [i \in 0..7 |-> IF i \in bits THEN 1 ELSE 0]
           n == ByteOf(bits)
<1>1. n = b[0] + 2 * b[1] + 4 * b[2] + 8 * b[3] + 16 * b[4] + 32 * b[5] + 64 * b[6] + 128 * b[7]
  BY BitWeights, SMT DEF ByteOf
<1>2. b \in [0..7 -> {0, 1}] /\ \A i \in 0..7 : b[i] = 1 <=> i \in bits
  OBVIOUS
<1> HIDE DEF b, n
<1>3. n \in Byte /\ \A i \in 0..7 : (n \div BitWeight[i + 1]) % 2 = b[i]
  BY <1>1, <1>2, BitsOfSum
<1>4. \A i \in 0..7 : BitSet(n, i) <=> i \in bits
  BY <1>2, <1>3 DEF BitSet
<1> QED
  BY <1>3, <1>4 DEF n

-----------------------------------------------------------------------------
(* Sequences of bytes *)

LEMMA BytesTyping ==
    ASSUME NEW n \in Nat, NEW b \in Nat
    PROVE  /\ Bytes(n, b) \in Seq(Nat) /\ Len(Bytes(n, b)) = n
           /\ \A i \in 1..n : Bytes(n, b)[i] = b
BY DEF Bytes

\* One sequence behind another: a name the provers do not expand.
Join(s, t) == s \o t

\* What is joined keeps its elements, the second part behind the first.
LEMMA Joined ==
    ASSUME NEW s \in Seq(Nat), NEW t \in Seq(Nat)
    PROVE  /\ Join(s, t) \in Seq(Nat) /\ Len(Join(s, t)) = Len(s) + Len(t)
           /\ \A i \in 1..Len(s) : Join(s, t)[i] = s[i]
           /\ \A i \in (Len(s) + 1)..(Len(s) + Len(t)) : Join(s, t)[i] = t[i - Len(s)]
<1>1. Len(s) \in Nat /\ Len(t) \in Nat
  OBVIOUS
<1> QED
  BY <1>1, ConcatProperties DEF Join

\* A name of a list has a place there.
LEMMA PlaceOf ==
    ASSUME NEW s, NEW name \in Held(s)
    PROVE  Place(s, name) \in DOMAIN s /\ s[Place(s, name)] = name
BY DEF Place, Held

-----------------------------------------------------------------------------
(* The layout of the logger *)

LEMMA Places ==
    /\ At("motor_state") = 65 /\ At("faults") = 118 /\ RecordSize = 122
    /\ Len(DaqStates) = 5 /\ DOMAIN DaqStates = 1..5 /\ DOMAIN DaqFaults = 1..8
<1>1. At("motor_state") = 65
  <2>1. \E f \in Layout : f.field = "motor_state"
    BY DEF Layout
  <2>2. \A f \in Layout : f.field = "motor_state" => f.at = 65
    BY DEF Layout
  <2> QED
    BY <2>1, <2>2 DEF At
<1>2. At("faults") = 118
  <2>1. \E f \in Layout : f.field = "faults"
    BY DEF Layout
  <2>2. \A f \in Layout : f.field = "faults" => f.at = 118
    BY DEF Layout
  <2> QED
    BY <2>1, <2>2 DEF At
<1>3. Len(DaqStates) = 5 /\ DOMAIN DaqStates = 1..5 /\ DOMAIN DaqFaults = 1..8
  BY DEF DaqStates, DaqFaults
<1> QED
  BY <1>1, <1>2, <1>3 DEF RecordSize

-----------------------------------------------------------------------------
(* The packets of the vehicle controller *)

\* A packet of the controller, whatever it reports and whatever size the build gives an
\* enum, is never one the logger takes (threadTelemetry, TelemetryData::from_bytes): the
\* state and the faults it sends are never read.
THEOREM CcmRefused ==
    ASSUME NEW state \in Held(CcmStates), NEW faults, NEW fill \in Byte, NEW enumSize \in {1, 4}
    PROVE  ~Accepted(CcmPacket(state, faults, fill, enumSize))
<1> DEFINE value == Place(CcmStates, state) - 1
           bits == {Place(CcmFaults, f) - 1 : f \in faults}
           enum == EnumBytes(value, enumSize)
<1>1. value \in Nat
  <2>1. DOMAIN CcmStates = 1..6
    BY DEF CcmStates
  <2> QED
    BY <2>1, PlaceOf
<1>2. enum \in Seq(Nat) /\ Len(enum) = enumSize
  <2>1. <<value>> \in Seq(Nat) /\ Len(<<value>>) = 1
    BY <1>1
  <2>2. Bytes(enumSize - 1, 0) \in Seq(Nat) /\ Len(Bytes(enumSize - 1, 0)) = enumSize - 1
    BY BytesTyping
  <2> HIDE DEF value
  <2> QED
    BY <2>1, <2>2, Joined DEF EnumBytes
<1>3. FaultMap(faults) \in Seq(Nat) /\ Len(FaultMap(faults)) = 4
  <2>1. ByteOf(bits) \in Nat
    BY BitsOfByte DEF Byte
  <2> HIDE DEF bits
  <2>2. FaultMap(faults) = <<ByteOf(bits), IF 8 \in bits THEN 1 ELSE 0, 0, 0>>
    BY DEF FaultMap, bits
  <2> QED
    BY <2>1, <2>2
<1> DEFINE analog == Bytes(52, fill)
           shock == Bytes(16, fill)
           zero12 == Bytes(12, 0)
           zero20 == Bytes(20, 0)
           zero13 == Bytes(13, 0)
           map == FaultMap(faults)
           p1 == Join(analog, zero12)
           p2 == Join(p1, enum)
           p3 == Join(p2, zero20)
           p4 == Join(p3, shock)
           p5 == Join(p4, zero13)
           p6 == Join(p5, map)
<1>4. CcmPacket(state, faults, fill, enumSize) = p6
  BY DEF CcmPacket, Join
<1>5. /\ analog \in Seq(Nat) /\ Len(analog) = 52 /\ zero12 \in Seq(Nat) /\ Len(zero12) = 12
      /\ zero20 \in Seq(Nat) /\ Len(zero20) = 20 /\ shock \in Seq(Nat) /\ Len(shock) = 16
      /\ zero13 \in Seq(Nat) /\ Len(zero13) = 13
  <2>1. fill \in Nat
    BY DEF Byte
  <2> QED
    BY <2>1, BytesTyping
<1> HIDE DEF enum, value, bits, analog, shock, zero12, zero20, zero13, map
<1>6. p1 \in Seq(Nat) /\ Len(p1) = Len(analog) + Len(zero12)
  BY <1>5, Joined
<1> HIDE DEF p1
<1>7. p2 \in Seq(Nat) /\ Len(p2) = Len(p1) + Len(enum)
  BY <1>2, <1>6, Joined
<1> HIDE DEF p2
<1>8. p3 \in Seq(Nat) /\ Len(p3) = Len(p2) + Len(zero20)
  BY <1>5, <1>7, Joined
<1> HIDE DEF p3
<1>9. p4 \in Seq(Nat) /\ Len(p4) = Len(p3) + Len(shock)
  BY <1>5, <1>8, Joined
<1> HIDE DEF p4
<1>10. p5 \in Seq(Nat) /\ Len(p5) = Len(p4) + Len(zero13)
  BY <1>5, <1>9, Joined
<1> HIDE DEF p5
<1>11. Len(p6) = Len(p5) + Len(map)
  BY <1>3, <1>10, Joined DEF map
<1> HIDE DEF p6
<1>12. Len(p6) = 117 + enumSize
  BY <1>2, <1>3, <1>5, <1>6, <1>7, <1>8, <1>9, <1>10, <1>11 DEF map
<1>13. Len(p6) # RecordSize
  BY <1>12, Places
<1> QED
  BY <1>4, <1>13 DEF Accepted

-----------------------------------------------------------------------------
(* The packets of the tests *)

\* The bits of the faults, as to_bytes sets them.
FlagBits(faults) == {8 - Place(DaqFaults, f) : f \in faults}

\* Every byte of a packet of a test, by its place.
LEMMA TestBytes ==
    ASSUME NEW state \in Held(DaqStates), NEW faults, NEW fill \in Byte, NEW warning \in 0..3,
           NEW packet, packet = DaqPacket(state, faults, fill, warning)
    PROVE  /\ Len(packet) = 122
           /\ \A i \in 1..64 : packet[i] = fill
           /\ packet[65] = 3 /\ packet[66] = Place(DaqStates, state) - 1
           /\ packet[67] = 4 /\ packet[68] = 2
           /\ \A i \in 69..88 : packet[i] = fill
           /\ packet[89] = warning
           /\ \A i \in 90..105 : packet[i] = fill
           /\ \A i \in 106..118 : packet[i] = 1
           /\ packet[119] = ByteOf(FlagBits(faults))
           /\ \A i \in 120..122 : packet[i] = 0
<1> DEFINE value == Place(DaqStates, state) - 1
           bits == ByteOf(FlagBits(faults))
           analog == Bytes(64, fill)
           motor == <<3, value, 4, 2>>
           mcu == Bytes(20, fill)
           level == <<warning>>
           shock == Bytes(16, fill)
           flags == Bytes(13, 1)
           map == <<bits>>
           pad == Bytes(3, 0)
           p1 == Join(analog, motor)
           p2 == Join(p1, mcu)
           p3 == Join(p2, level)
           p4 == Join(p3, shock)
           p5 == Join(p4, flags)
           p6 == Join(p5, map)
           p7 == Join(p6, pad)
<1>1. packet = p7
  BY DEF DaqPacket, Join, FlagBits
<1>2. value \in Nat /\ bits \in Nat
  <2>1. Place(DaqStates, state) \in 1..5
    BY Places, PlaceOf
  <2> QED
    BY <2>1, BitsOfByte DEF Byte
<1>3. /\ analog \in Seq(Nat) /\ Len(analog) = 64 /\ \A i \in 1..64 : analog[i] = fill
      /\ mcu \in Seq(Nat) /\ Len(mcu) = 20 /\ \A i \in 1..20 : mcu[i] = fill
      /\ shock \in Seq(Nat) /\ Len(shock) = 16 /\ \A i \in 1..16 : shock[i] = fill
      /\ flags \in Seq(Nat) /\ Len(flags) = 13 /\ \A i \in 1..13 : flags[i] = 1
      /\ pad \in Seq(Nat) /\ Len(pad) = 3 /\ \A i \in 1..3 : pad[i] = 0
  <2>1. fill \in Nat
    BY DEF Byte
  <2> QED
    BY <2>1, BytesTyping
<1> HIDE DEF value, bits, analog, mcu, shock, flags, pad
<1>4. /\ motor \in Seq(Nat) /\ Len(motor) = 4
      /\ motor[1] = 3 /\ motor[2] = value /\ motor[3] = 4 /\ motor[4] = 2
  BY <1>2
<1>5. /\ level \in Seq(Nat) /\ Len(level) = 1 /\ level[1] = warning
      /\ map \in Seq(Nat) /\ Len(map) = 1 /\ map[1] = bits
  BY <1>2
<1> HIDE DEF motor, level, map
<1>6. /\ p1 \in Seq(Nat) /\ Len(p1) = 68
      /\ \A i \in 1..64 : p1[i] = fill
      /\ p1[65] = 3 /\ p1[66] = value /\ p1[67] = 4 /\ p1[68] = 2
  <2>1. /\ p1 \in Seq(Nat) /\ Len(p1) = Len(analog) + Len(motor)
        /\ \A i \in 1..Len(analog) : p1[i] = analog[i]
        /\ \A i \in (Len(analog) + 1)..(Len(analog) + Len(motor)) : p1[i] = motor[i - Len(analog)]
    BY <1>3, <1>4, Joined
  <2> HIDE DEF p1
  <2> QED
    BY <1>3, <1>4, <2>1
<1> HIDE DEF p1
<1>7. /\ p2 \in Seq(Nat) /\ Len(p2) = 88
      /\ \A i \in 1..68 : p2[i] = p1[i]
      /\ \A i \in 69..88 : p2[i] = fill
  <2>1. /\ p2 \in Seq(Nat) /\ Len(p2) = Len(p1) + Len(mcu)
        /\ \A i \in 1..Len(p1) : p2[i] = p1[i]
        /\ \A i \in (Len(p1) + 1)..(Len(p1) + Len(mcu)) : p2[i] = mcu[i - Len(p1)]
    BY <1>3, <1>6, Joined
  <2> HIDE DEF p2
  <2> QED
    BY <1>3, <1>6, <2>1
<1> HIDE DEF p2
<1>8. /\ p3 \in Seq(Nat) /\ Len(p3) = 89
      /\ \A i \in 1..88 : p3[i] = p2[i]
      /\ p3[89] = warning
  <2>1. /\ p3 \in Seq(Nat) /\ Len(p3) = Len(p2) + Len(level)
        /\ \A i \in 1..Len(p2) : p3[i] = p2[i]
        /\ \A i \in (Len(p2) + 1)..(Len(p2) + Len(level)) : p3[i] = level[i - Len(p2)]
    BY <1>5, <1>7, Joined
  <2> HIDE DEF p3
  <2> QED
    BY <1>5, <1>7, <2>1
<1> HIDE DEF p3
<1>9. /\ p4 \in Seq(Nat) /\ Len(p4) = 105
      /\ \A i \in 1..89 : p4[i] = p3[i]
      /\ \A i \in 90..105 : p4[i] = fill
  <2>1. /\ p4 \in Seq(Nat) /\ Len(p4) = Len(p3) + Len(shock)
        /\ \A i \in 1..Len(p3) : p4[i] = p3[i]
        /\ \A i \in (Len(p3) + 1)..(Len(p3) + Len(shock)) : p4[i] = shock[i - Len(p3)]
    BY <1>3, <1>8, Joined
  <2> HIDE DEF p4
  <2> QED
    BY <1>3, <1>8, <2>1
<1> HIDE DEF p4
<1>10. /\ p5 \in Seq(Nat) /\ Len(p5) = 118
       /\ \A i \in 1..105 : p5[i] = p4[i]
       /\ \A i \in 106..118 : p5[i] = 1
  <2>1. /\ p5 \in Seq(Nat) /\ Len(p5) = Len(p4) + Len(flags)
        /\ \A i \in 1..Len(p4) : p5[i] = p4[i]
        /\ \A i \in (Len(p4) + 1)..(Len(p4) + Len(flags)) : p5[i] = flags[i - Len(p4)]
    BY <1>3, <1>9, Joined
  <2> HIDE DEF p5
  <2> QED
    BY <1>3, <1>9, <2>1
<1> HIDE DEF p5
<1>11. /\ p6 \in Seq(Nat) /\ Len(p6) = 119
       /\ \A i \in 1..118 : p6[i] = p5[i]
       /\ p6[119] = bits
  <2>1. /\ p6 \in Seq(Nat) /\ Len(p6) = Len(p5) + Len(map)
        /\ \A i \in 1..Len(p5) : p6[i] = p5[i]
        /\ \A i \in (Len(p5) + 1)..(Len(p5) + Len(map)) : p6[i] = map[i - Len(p5)]
    BY <1>5, <1>10, Joined
  <2> HIDE DEF p6
  <2> QED
    BY <1>5, <1>10, <2>1
<1> HIDE DEF p6
<1>12. /\ p7 \in Seq(Nat) /\ Len(p7) = 122
       /\ \A i \in 1..119 : p7[i] = p6[i]
       /\ \A i \in 120..122 : p7[i] = 0
  <2>1. /\ p7 \in Seq(Nat) /\ Len(p7) = Len(p6) + Len(pad)
        /\ \A i \in 1..Len(p6) : p7[i] = p6[i]
        /\ \A i \in (Len(p6) + 1)..(Len(p6) + Len(pad)) : p7[i] = pad[i - Len(p6)]
    BY <1>3, <1>11, Joined
  <2> HIDE DEF p7
  <2> QED
    BY <1>3, <1>11, <2>1
<1> HIDE DEF p7
<1>13. /\ \A i \in 1..119 : p7[i] = p6[i]
       /\ \A i \in 1..118 : p6[i] = p5[i]
       /\ \A i \in 1..105 : p5[i] = p4[i]
       /\ \A i \in 1..89 : p4[i] = p3[i]
       /\ \A i \in 1..88 : p3[i] = p2[i]
       /\ \A i \in 1..68 : p2[i] = p1[i]
  BY <1>7, <1>8, <1>9, <1>10, <1>11, <1>12
<1>14. /\ \A i \in 1..64 : p1[i] = fill
       /\ p1[65] = 3 /\ p1[66] = value /\ p1[67] = 4 /\ p1[68] = 2
       /\ \A i \in 69..88 : p2[i] = fill
       /\ p3[89] = warning
       /\ \A i \in 90..105 : p4[i] = fill
       /\ \A i \in 106..118 : p5[i] = 1
       /\ p6[119] = bits
  BY <1>6, <1>7, <1>8, <1>9, <1>10, <1>11
<1>15. /\ \A i \in 1..118 : p7[i] = p5[i]
       /\ \A i \in 1..105 : p7[i] = p4[i]
  BY <1>13
<1>16. /\ \A i \in 1..89 : p7[i] = p3[i]
       /\ \A i \in 1..88 : p7[i] = p2[i]
       /\ \A i \in 1..68 : p7[i] = p1[i]
  BY <1>13, <1>15
<1>17. /\ \A i \in 1..64 : p7[i] = fill
       /\ p7[65] = 3 /\ p7[66] = value /\ p7[67] = 4 /\ p7[68] = 2
       /\ \A i \in 69..88 : p7[i] = fill
       /\ p7[89] = warning
  BY <1>14, <1>16
<1>18. /\ \A i \in 90..105 : p7[i] = fill
       /\ \A i \in 106..118 : p7[i] = 1
       /\ p7[119] = bits
  BY <1>13, <1>14, <1>15
<1> QED
  BY <1>1, <1>12, <1>17, <1>18 DEF value, bits

\* No fault is listed twice.
LEMMA FaultsDiffer ==
    \A j, k \in DOMAIN DaqFaults : DaqFaults[j] = DaqFaults[k] => j = k
<1>1. DOMAIN DaqFaults = 1..8
  BY DEF DaqFaults
<1>2. ASSUME NEW j \in 1..8, NEW k \in 1..8, DaqFaults[j] = DaqFaults[k]
      PROVE  j = k
  <2>1. j \in {1, 2, 3, 4, 5, 6, 7, 8} /\ k \in {1, 2, 3, 4, 5, 6, 7, 8}
    OBVIOUS
  <2> QED
    BY <1>2, <2>1 DEF DaqFaults
<1> QED
  BY <1>1, <1>2

\* What a test packs with to_bytes, from_bytes takes back: the packet is accepted, whatever
\* the measurements are, and the state and every fault bit are read as they were written
\* (the round trip that test.rs:62-72 tests for one record).
THEOREM TestRead ==
    ASSUME NEW state \in Held(DaqStates), NEW faults \in SUBSET Held(DaqFaults),
           NEW fill \in Byte, NEW warning \in 0..3
    PROVE  /\ Accepted(DaqPacket(state, faults, fill, warning))
           /\ Reading(DaqPacket(state, faults, fill, warning)) = [state |-> state, faults |-> faults]
<1> DEFINE packet == DaqPacket(state, faults, fill, warning)
           bits == FlagBits(faults)
           value == Place(DaqStates, state) - 1
<1>0. packet = DaqPacket(state, faults, fill, warning)
  OBVIOUS
<1> HIDE DEF packet
<1>1. /\ Len(packet) = 122
      /\ \A i \in 1..64 : packet[i] = fill
      /\ packet[65] = 3 /\ packet[66] = value
      /\ packet[67] = 4 /\ packet[68] = 2
      /\ \A i \in 69..88 : packet[i] = fill
      /\ packet[89] = warning
      /\ \A i \in 90..105 : packet[i] = fill
      /\ \A i \in 106..118 : packet[i] = 1
      /\ packet[119] = ByteOf(bits)
      /\ \A i \in 120..122 : packet[i] = 0
  BY <1>0, TestBytes
<1>2. value \in 0..4 /\ DaqStates[value + 1] = state
  <2> DEFINE place == Place(DaqStates, state)
  <2>1. place \in 1..5 /\ DaqStates[place] = state
    BY Places, PlaceOf
  <2> HIDE DEF place
  <2>2. value = place - 1
    BY DEF place
  <2> HIDE DEF value
  <2>3. value \in 0..4 /\ value + 1 = place
    BY <2>1, <2>2
  <2> QED
    BY <2>1, <2>3
<1>3. ByteOf(bits) \in 0..255 /\ fill \in 0..255
  BY BitsOfByte DEF Byte
<1> HIDE DEF value
<1>4. WellFormed(packet)
  <2>1. SUFFICES ASSUME NEW f \in Layout, NEW k \in 1..f.size
                 PROVE  packet[f.at + k] <= f.top
    BY DEF WellFormed
  <2>2. CASE f.field = "analog"
    <3>1. f.at = 0 /\ f.size = 64 /\ f.top = 255
      BY <2>2 DEF Layout
    <3> QED
      BY <1>1, <1>3, <3>1
  <2>3. CASE f.field = "motor_direction"
    <3>1. f.at = 64 /\ f.size = 1 /\ f.top = 3
      BY <2>3 DEF Layout
    <3> QED
      BY <1>1, <3>1
  <2>4. CASE f.field = "motor_state"
    <3>1. f.at = 65 /\ f.size = 1 /\ f.top = 4
      BY <2>4, Places DEF Layout
    <3> QED
      BY <1>1, <1>2, <3>1
  <2>5. CASE f.field = "mcu_main_state"
    <3>1. f.at = 66 /\ f.size = 1 /\ f.top = 4
      BY <2>5 DEF Layout
    <3> QED
      BY <1>1, <3>1
  <2>6. CASE f.field = "mcu_work_mode"
    <3>1. f.at = 67 /\ f.size = 1 /\ f.top = 2
      BY <2>6 DEF Layout
    <3> QED
      BY <1>1, <3>1
  <2>7. CASE f.field = "mcu"
    <3>1. f.at = 68 /\ f.size = 20 /\ f.top = 255
      BY <2>7 DEF Layout
    <3> QED
      BY <1>1, <1>3, <3>1
  <2>8. CASE f.field = "mcu_warning_level"
    <3>1. f.at = 88 /\ f.size = 1 /\ f.top = 3
      BY <2>8 DEF Layout
    <3> QED
      BY <1>1, <3>1
  <2>9. CASE f.field = "shocktravel"
    <3>1. f.at = 89 /\ f.size = 16 /\ f.top = 255
      BY <2>9 DEF Layout
    <3> QED
      BY <1>1, <1>3, <3>1
  <2>10. CASE f.field = "flags"
    <3>1. f.at = 105 /\ f.size = 13 /\ f.top = 1
      BY <2>10 DEF Layout
    <3> QED
      BY <1>1, <3>1
  <2>11. CASE f.field = "faults"
    <3>1. f.at = 118 /\ f.size = 4 /\ f.top = 255
      BY <2>11 DEF Layout
    <3> QED
      BY <1>1, <1>3, <3>1
  <2> QED
    BY <2>2, <2>3, <2>4, <2>5, <2>6, <2>7, <2>8, <2>9, <2>10, <2>11 DEF Layout
<1>5. Accepted(packet)
  BY <1>1, <1>4, Places DEF Accepted
<1>6. ASSUME NEW k \in DOMAIN DaqFaults
      PROVE  BitSet(ByteOf(bits), FaultBit(k)) <=> DaqFaults[k] \in faults
  <2>1. k \in 1..8 /\ FaultBit(k) = 8 - k /\ 8 - k \in 0..7
    BY Places DEF FaultBit
  <2>2. BitSet(ByteOf(bits), FaultBit(k)) <=> 8 - k \in bits
    BY <2>1, BitsOfByte
  <2>3. \A f \in faults : Place(DaqFaults, f) \in 1..8 /\ DaqFaults[Place(DaqFaults, f)] = f
    BY Places, PlaceOf
  <2>4. 8 - k \in bits <=> \E f \in faults : Place(DaqFaults, f) = k
    BY <2>1, <2>3 DEF FlagBits
  <2>5. (\E f \in faults : Place(DaqFaults, f) = k) <=> DaqFaults[k] \in faults
    BY <2>3, FaultsDiffer, Places
  <2> QED
    BY <2>2, <2>4, <2>5
<1>7. FaultsIn(ByteOf(bits)) = faults
  BY <1>6 DEF FaultsIn, Held
<1>8. Reading(packet) = [state |-> state, faults |-> faults]
  <2>1. packet[At("faults") + 1] = ByteOf(bits) /\ packet[At("motor_state") + 1] = value
    BY <1>1, Places
  <2> QED
    BY <1>2, <1>7, <2>1 DEF Reading, StateIn
<1> QED
  BY <1>0, <1>5, <1>8

-----------------------------------------------------------------------------
(* The two definitions of states and faults *)

\* At mirrored places the two lists have different names.
LEMMA MirrorDiffers ==
    ASSUME NEW p \in DOMAIN CcmFaults, NEW k \in DOMAIN DaqFaults, p + k = 9
    PROVE  DaqFaults[k] # CcmFaults[p]
<1>1. p \in {1, 2, 3, 4, 5, 6, 7, 8, 9} /\ k \in {1, 2, 3, 4, 5, 6, 7, 8}
  BY DEF CcmFaults, DaqFaults
<1> QED
  BY <1>1 DEF CcmFaults, DaqFaults

\* The sizes of the two definitions are not all that differs. A fault the controller reports
\* alone is read as another one, or as none: its masks count the bits from the low end
\* (faults.cpp:3-11), and the one-bit fields of can.rs:230-245 from the high end.
THEOREM FaultIsMisread ==
    ASSUME NEW fault \in Held(CcmFaults)
    PROVE  fault \notin FaultsIn(FaultMap({fault})[1])
<1> DEFINE p == Place(CcmFaults, fault)
           bits == {Place(CcmFaults, f) - 1 : f \in {fault}}
<1>1. p \in DOMAIN CcmFaults /\ CcmFaults[p] = fault
  BY PlaceOf
<1>2. p \in 1..9
  BY <1>1 DEF CcmFaults
<1>3. bits = {p - 1}
  OBVIOUS
<1>4. FaultMap({fault})[1] = ByteOf(bits)
  BY DEF FaultMap
<1> HIDE DEF p, bits
<1>5. ASSUME NEW k \in DOMAIN DaqFaults, BitSet(ByteOf(bits), FaultBit(k))
      PROVE  DaqFaults[k] # fault
  <2>1. k \in 1..8 /\ FaultBit(k) = 8 - k /\ 8 - k \in 0..7
    BY Places DEF FaultBit
  <2>2. 8 - k \in bits
    BY <1>5, <2>1, BitsOfByte
  <2>3. p + k = 9
    BY <1>2, <1>3, <2>1, <2>2
  <2> QED
    BY <1>1, <2>3, MirrorDiffers
<1> QED
  BY <1>4, <1>5 DEF FaultsIn

\* And every state but OFF has another number in the logger, or none (vcu.h:9-16 against
\* can.rs:44-56).
THEOREM StateIsMisread ==
    ASSUME NEW state \in Held(CcmStates), state # "OFF",
           Place(CcmStates, state) \in DOMAIN DaqStates
    PROVE  StateIn(Place(CcmStates, state) - 1) # state
<1> DEFINE p == Place(CcmStates, state)
<1>1. p \in DOMAIN CcmStates /\ CcmStates[p] = state
  BY PlaceOf
<1>2. p \in 1..5
  BY DEF DaqStates
<1> HIDE DEF p
<1>3. p - 1 + 1 = p
  BY <1>2
<1>4. p \in {1, 2, 3, 4, 5}
  BY <1>2
<1>5. DaqStates[p] # state
  BY <1>1, <1>4 DEF CcmStates, DaqStates
<1> QED
  BY <1>3, <1>5 DEF StateIn, p
=============================================================================
