------------------------------ MODULE DaqProofs ------------------------------
(***************************************************************************)
(* Proofs about module Daq: for any number of workers and packets, any     *)
(* size of the socket, the channel and a batch, and any records in the     *)
(* layout of the vehicle controller or of the logger. The inductive        *)
(* invariant IInv says where a reading can be; a smaller one, about the    *)
(* sizes of the queues, is inductive beside it. Together they give the     *)
(* type invariant, whose part about the queues is DataTypes.               *)
(***************************************************************************)
EXTENDS Daq, TelemetryProofs

USE DaqAssumption DEF DaqAssumption

Item == [n : Packets, record : Records]

DataTypes ==
    /\ arrived \in 0..MaxPackets
    /\ reader \in {"closed", "reading", "sending"}
    /\ socket \in Seq(Item)
    /\ offered \in 0..MaxPackets
    /\ channel \in Seq(Packets)
    /\ mode \in [Workers -> {"connecting", "waiting", "writing"}]
    /\ batch \in [Workers -> Seq(Packets)]
    /\ fresh \in [Workers -> BOOLEAN]
    /\ failures \in [Workers -> 0..(MaxFailures - 1)]
    /\ copies \in [Packets -> Nat]
    /\ lost \subseteq Packets
    /\ missed \in [Workers -> Nat]

\* A packet the reader has yet to take off the socket, or to pass on.
Ahead(n) == n > offered \/ (n = offered /\ reader = "sending")

\* The packets in the socket are in the order they arrived in, behind the last one read.
SocketInOrder ==
    /\ offered <= arrived
    /\ \A i \in DOMAIN socket : offered < socket[i].n /\ socket[i].n <= arrived
    /\ \A i, j \in DOMAIN socket : i < j => socket[i].n < socket[j].n
    /\ reader = "sending" => offered >= 1

\* What is ahead has not been passed on.
AheadIsUntouched ==
    \A n \in Packets : Ahead(n) => copies[n] = 0 /\ n \notin lost /\ ~InFlight(n)

\* A reading is at one place: the channel has it once, or one worker has it.
OnePlace ==
    /\ \A i, j \in DOMAIN channel : channel[i] = channel[j] => i = j
    /\ \A w \in Workers : \A n \in Held(batch[w]) : n \notin Held(channel)
    /\ \A v, w \in Workers : \A n \in Held(batch[v]) : n \in Held(batch[w]) => v = w

\* A worker that waits or connects has no batch.
BatchIsWritten == \A w \in Workers : mode[w] # "writing" => batch[w] = <<>>

\* The failures a stale connection has cost are those the worker has counted, until it
\* has counted enough and gets a new connection.
StaleIsCounted ==
    \A w \in Workers :
        fresh[w] \/ mode[w] = "connecting" \/ missed[w] <= failures[w]

\* The inductive invariant.
IInv ==
    /\ DataTypes
    /\ SocketInOrder
    /\ AheadIsUntouched
    /\ OnePlace
    /\ BatchIsWritten
    /\ WrittenOnce
    /\ StaleIsCounted
    /\ OutageIsBounded

-----------------------------------------------------------------------------
(* Lemmas about queues *)

LEMMA HeldTyping ==
    ASSUME NEW T, NEW s \in Seq(T)
    PROVE  Held(s) \subseteq T
BY DEF Held

LEMMA HeldEmpty == Held(<<>>) = {}
BY DEF Held

\* The tail of a queue: each element moves up by one place.
LEMMA TailOf ==
    ASSUME NEW T, NEW s \in Seq(T), s # <<>>
    PROVE  /\ Head(s) \in T /\ Head(s) = s[1] /\ 1 \in DOMAIN s
           /\ Tail(s) \in Seq(T)
           /\ \A i \in DOMAIN Tail(s) : /\ i \in Nat \ {0} /\ i + 1 \in DOMAIN s
                                        /\ Tail(s)[i] = s[i + 1]
BY HeadTailProperties

LEMMA HeldAppend ==
    ASSUME NEW T, NEW s \in Seq(T), NEW e \in T
    PROVE  /\ Append(s, e) \in Seq(T)
           /\ Held(Append(s, e)) = Held(s) \cup {e}
<1>1. /\ Append(s, e) \in Seq(T)
      /\ Len(Append(s, e)) = Len(s) + 1
      /\ \A i \in 1..Len(s) : Append(s, e)[i] = s[i]
      /\ Append(s, e)[Len(s) + 1] = e
  BY AppendProperties
<1>2. DOMAIN s = 1..Len(s) /\ DOMAIN Append(s, e) = 1..(Len(s) + 1) /\ Len(s) \in Nat
  BY <1>1
<1>3. Held(Append(s, e)) \subseteq Held(s) \cup {e}
  BY <1>1, <1>2 DEF Held
<1>4. Held(s) \subseteq Held(Append(s, e))
  BY <1>1, <1>2 DEF Held
<1>5. e \in Held(Append(s, e))
  BY <1>1, <1>2 DEF Held
<1>6. QED
  BY <1>1, <1>3, <1>4, <1>5

\* A queue is cut in two: what it holds is in one part or the other.
LEMMA Cut ==
    ASSUME NEW T, NEW s \in Seq(T), NEW k \in 0..Len(s)
    PROVE  /\ SubSeq(s, 1, k) \in Seq(T)
           /\ SubSeq(s, k + 1, Len(s)) \in Seq(T)
           /\ DOMAIN SubSeq(s, 1, k) = 1..k
           /\ \A i \in 1..k : SubSeq(s, 1, k)[i] = s[i]
           /\ DOMAIN SubSeq(s, k + 1, Len(s)) = 1..(Len(s) - k)
           /\ \A i \in 1..(Len(s) - k) : SubSeq(s, k + 1, Len(s))[i] = s[i + k]
<1>1. Len(s) \in Nat /\ DOMAIN s = 1..Len(s)
  OBVIOUS
<1>2. \A i \in 1..Len(s) : s[i] \in T
  OBVIOUS
<1>3. /\ SubSeq(s, 1, k) \in Seq(T)
      /\ DOMAIN SubSeq(s, 1, k) = 1..k
      /\ \A i \in 1..k : SubSeq(s, 1, k)[i] = s[i]
  BY <1>1, <1>2, SubSeqProperties
<1>4. /\ SubSeq(s, k + 1, Len(s)) \in Seq(T)
      /\ DOMAIN SubSeq(s, k + 1, Len(s)) = 1..(Len(s) - k)
      /\ \A i \in 1..(Len(s) - k) : SubSeq(s, k + 1, Len(s))[i] = s[i + k]
  BY <1>1, <1>2, SubSeqProperties
<1>5. QED
  BY <1>3, <1>4

-----------------------------------------------------------------------------
(* The invariant is inductive *)

LEMMA InitInv == Init => IInv
<1> SUFFICES ASSUME Init PROVE IInv
  OBVIOUS
<1>1. channel = <<>> /\ socket = <<>> /\ \A w \in Workers : batch[w] = <<>>
  BY DEF Init
<1>2. \A n \in Packets : ~InFlight(n)
  BY <1>1, HeldEmpty DEF InFlight
<1>3. DataTypes
  BY DEF Init, DataTypes, Packets
<1>4. SocketInOrder
  BY DEF Init, SocketInOrder
<1>5. AheadIsUntouched /\ WrittenOnce
  BY <1>2 DEF Init, AheadIsUntouched, WrittenOnce
<1>6. OnePlace
  BY <1>1, HeldEmpty DEF OnePlace
<1>7. BatchIsWritten /\ StaleIsCounted /\ OutageIsBounded
  BY DEF Init, BatchIsWritten, StaleIsCounted, OutageIsBounded
<1>8. QED
  BY <1>3, <1>4, <1>5, <1>6, <1>7 DEF IInv

\* What a step that leaves the queues and the histories alone preserves.
LEMMA DownstreamKept ==
    ASSUME IInv, UNCHANGED <<channel, workerVars, historyVars>>
    PROVE  /\ \A n : InFlight(n)' = InFlight(n)
           /\ OnePlace' /\ BatchIsWritten' /\ WrittenOnce' /\ StaleIsCounted' /\ OutageIsBounded'
<1>1. \A n : InFlight(n)' = InFlight(n)
  BY DEF InFlight, workerVars
<1>2. OnePlace' /\ BatchIsWritten'
  BY DEF IInv, OnePlace, BatchIsWritten, workerVars
<1>3. WrittenOnce'
  BY <1>1 DEF IInv, WrittenOnce, historyVars
<1>4. StaleIsCounted' /\ OutageIsBounded'
  BY DEF IInv, StaleIsCounted, OutageIsBounded, workerVars, historyVars
<1>5. QED
  BY <1>1, <1>2, <1>3, <1>4

\* The steps of the reader that pass nothing on, and those of the bus and the database.
LEMMA SocketInv ==
    ASSUME IInv, OpenSocket \/ ReadFails \/ ReadMalformed \/ InitSender \/ DbGoesDown
    PROVE  IInv'
<1>1. UNCHANGED <<arrived, offered, channel, workerVars, historyVars>>
  BY DEF OpenSocket, ReadFails, ReadMalformed, InitSender, DbGoesDown, readerVars
<1>2. /\ socket' \in {socket, <<>>} \/ (socket # <<>> /\ socket' = Tail(socket))
      /\ reader' \in {"closed", "reading", "sending"}
      /\ reader' = "sending" <=> reader = "sending"
  BY DEF OpenSocket, ReadFails, ReadMalformed, InitSender, DbGoesDown, readerVars, IInv, DataTypes
<1>3. socket' \in Seq(Item)
  <2>1. socket \in Seq(Item)
    BY DEF IInv, DataTypes
  <2>2. <<>> \in Seq(Item)
    OBVIOUS
  <2>3. socket # <<>> => Tail(socket) \in Seq(Item)
    BY <2>1, TailOf
  <2>4. QED
    BY <1>2, <2>1, <2>2, <2>3
<1>4. DataTypes'
  BY <1>1, <1>2, <1>3 DEF IInv, DataTypes, workerVars, historyVars
<1>5. SocketInOrder'
  <2>1. CASE socket' \in {socket, <<>>}
    BY <1>1, <1>2, <2>1 DEF IInv, SocketInOrder
  <2>2. CASE socket # <<>> /\ socket' = Tail(socket)
    <3>1. \A i \in DOMAIN socket' : /\ i \in Nat \ {0} /\ i + 1 \in DOMAIN socket
                                    /\ socket'[i] = socket[i + 1]
      BY <2>2, TailOf DEF IInv, DataTypes
    <3>2. \A i, j \in DOMAIN socket' : i < j => i + 1 < j + 1
      BY <3>1
    <3>3. QED
      BY <1>1, <1>2, <3>1, <3>2 DEF IInv, SocketInOrder
  <2>3. QED
    BY <1>2, <2>1, <2>2
<1>6. AheadIsUntouched'
  <2>1. \A n : Ahead(n)' = Ahead(n)
    BY <1>1, <1>2 DEF Ahead
  <2>2. QED
    BY <1>1, <2>1, DownstreamKept DEF IInv, AheadIsUntouched, historyVars
<1>7. QED
  BY <1>1, <1>4, <1>5, <1>6, DownstreamKept DEF IInv

\* A packet taken off the socket comes after all that were read before.
LEMMA ReadInv ==
    ASSUME IInv, Read
    PROVE  IInv'
<1>1. UNCHANGED <<arrived, channel, workerVars, historyVars>>
  BY DEF Read
<1>2. /\ Head(socket) = socket[1] /\ 1 \in DOMAIN socket
      /\ Head(socket) \in Item
      /\ Tail(socket) \in Seq(Item)
      /\ \A i \in DOMAIN Tail(socket) : /\ i \in Nat \ {0} /\ i + 1 \in DOMAIN socket
                                        /\ Tail(socket)[i] = socket[i + 1]
  <2>1. socket \in Seq(Item) /\ socket # <<>>
    BY DEF Read, IInv, DataTypes
  <2>2. QED
    BY <2>1, TailOf
<1>3. /\ socket' = Tail(socket) /\ offered' = socket[1].n /\ reader' = "sending"
      /\ offered' \in Packets
  BY <1>2 DEF Read, Item
<1>4. offered \in Nat /\ arrived \in Nat /\ offered < offered' /\ offered' <= arrived
  BY <1>2, <1>3 DEF IInv, DataTypes, SocketInOrder
<1>5. DataTypes'
  BY <1>1, <1>2, <1>3 DEF IInv, DataTypes, Packets, workerVars, historyVars
<1>6. SocketInOrder'
  <2>1. \A i \in DOMAIN socket' : offered' < socket'[i].n /\ socket'[i].n <= arrived'
    <3>1. TAKE i \in DOMAIN socket'
    <3>2. i + 1 \in DOMAIN socket /\ 1 < i + 1 /\ socket'[i] = socket[i + 1]
      BY <1>2, <1>3
    <3>3. QED
      BY <1>1, <1>2, <1>3, <3>2 DEF IInv, SocketInOrder
  <2>2. \A i, j \in DOMAIN socket' : i < j => socket'[i].n < socket'[j].n
    <3>1. TAKE i, j \in DOMAIN socket'
    <3>2. /\ i + 1 \in DOMAIN socket /\ socket'[i] = socket[i + 1] /\ i \in Nat
          /\ j + 1 \in DOMAIN socket /\ socket'[j] = socket[j + 1] /\ j \in Nat
      BY <1>2, <1>3
    <3>3. QED
      BY <3>2 DEF IInv, SocketInOrder
  <2>3. QED
    BY <1>1, <1>3, <1>4, <2>1, <2>2 DEF SocketInOrder, Packets
<1>7. AheadIsUntouched'
  <2>1. \A n \in Packets : Ahead(n)' => Ahead(n)
    BY <1>3, <1>4 DEF Ahead, Packets
  <2>2. QED
    BY <1>1, <2>1, DownstreamKept DEF IInv, AheadIsUntouched, historyVars
<1>8. QED
  BY <1>1, <1>5, <1>6, <1>7, DownstreamKept DEF IInv

\* The reading that is offered goes into the channel or is given up.
LEMMA TrySendInv ==
    ASSUME IInv, TrySend
    PROVE  IInv'
<1>1. /\ UNCHANGED <<arrived, socket, offered, workerVars, copies, missed>>
      /\ reader = "sending" /\ reader' = "reading"
      /\ \/ channel' = Append(channel, offered) /\ lost' = lost
         \/ lost' = lost \cup {offered} /\ channel' = channel
  BY DEF TrySend
<1>2. offered \in Packets /\ Ahead(offered)
  BY <1>1 DEF IInv, DataTypes, SocketInOrder, Ahead, Packets
<1>3. copies[offered] = 0 /\ offered \notin lost /\ ~InFlight(offered)
  BY <1>2 DEF IInv, AheadIsUntouched
<1>4. /\ channel' \in Seq(Packets)
      /\ \/ Held(channel') = Held(channel) \cup {offered} /\ lost' = lost
         \/ Held(channel') = Held(channel) /\ lost' = lost \cup {offered}
  <2>1. channel \in Seq(Packets)
    BY DEF IInv, DataTypes
  <2>2. /\ Append(channel, offered) \in Seq(Packets)
        /\ Held(Append(channel, offered)) = Held(channel) \cup {offered}
    BY <1>2, <2>1, HeldAppend
  <2>3. QED
    BY <1>1, <2>1, <2>2
<1>5. DataTypes'
  BY <1>1, <1>2, <1>4 DEF IInv, DataTypes, workerVars
<1>6. SocketInOrder'
  BY <1>1 DEF IInv, SocketInOrder
<1>7. /\ \A n \in Packets : n # offered => InFlight(n)' = InFlight(n) /\ (n \in lost' <=> n \in lost)
      /\ \A n \in Packets : n = offered /\ InFlight(n)' => n \notin lost'
  BY <1>1, <1>3, <1>4 DEF InFlight, workerVars
<1>8. AheadIsUntouched'
  <2>1. \A n \in Packets : Ahead(n)' => Ahead(n) /\ n # offered
    BY <1>1, <1>2 DEF Ahead, Packets
  <2>2. QED
    BY <1>1, <1>7, <2>1 DEF IInv, AheadIsUntouched
<1>9. WrittenOnce'
  <2>1. SUFFICES ASSUME NEW n \in Packets
                 PROVE  copies'[n] + (IF n \in lost' THEN 1 ELSE 0)
                          + (IF InFlight(n)' THEN 1 ELSE 0) <= 1
    BY DEF WrittenOnce
  <2>2. copies[n] \in Nat /\ copies'[n] = copies[n]
    BY <1>1 DEF IInv, DataTypes
  <2>3. CASE n = offered
    <3>1. copies'[n] = 0 /\ (InFlight(n)' => n \notin lost')
      BY <1>3, <1>7, <2>2, <2>3
    <3>2. QED
      BY <3>1
  <2>4. CASE n # offered
    BY <1>7, <2>2, <2>4 DEF IInv, WrittenOnce
  <2>5. QED
    BY <2>3, <2>4
<1>10. OnePlace'
  <2>1. \A w \in Workers : offered \notin Held(batch[w])
    BY <1>3 DEF InFlight
  <2>2. CASE channel' = channel
    BY <1>1, <2>2 DEF IInv, OnePlace, workerVars
  <2>3. CASE channel' = Append(channel, offered)
    <3>1. /\ DOMAIN channel = 1..Len(channel) /\ Len(channel) \in Nat
          /\ DOMAIN channel' = 1..(Len(channel) + 1)
          /\ \A i \in 1..Len(channel) : channel'[i] = channel[i] /\ channel[i] # offered
          /\ channel'[Len(channel) + 1] = offered
      BY <1>2, <1>3, <2>3, AppendProperties DEF IInv, DataTypes, InFlight, Held
    <3>2. \A i, j \in DOMAIN channel' : channel'[i] = channel'[j] => i = j
      BY <3>1 DEF IInv, OnePlace
    <3>3. \A w \in Workers : \A n \in Held(batch'[w]) : n \notin Held(channel')
      BY <1>1, <1>4, <2>1 DEF IInv, OnePlace, workerVars
    <3>4. \A v, w \in Workers : \A n \in Held(batch'[v]) : n \in Held(batch'[w]) => v = w
      BY <1>1 DEF IInv, OnePlace, workerVars
    <3>5. QED
      BY <3>2, <3>3, <3>4 DEF OnePlace
  <2>4. QED
    BY <1>1, <2>2, <2>3
<1>11. BatchIsWritten' /\ StaleIsCounted' /\ OutageIsBounded'
  BY <1>1 DEF IInv, BatchIsWritten, StaleIsCounted, OutageIsBounded, workerVars
<1>12. QED
  BY <1>5, <1>6, <1>8, <1>9, <1>10, <1>11 DEF IInv

-----------------------------------------------------------------------------
(* The workers *)

\* Nothing upstream of the workers is touched.
LEMMA UpstreamKept ==
    ASSUME IInv, UNCHANGED <<arrived, readerVars>>
    PROVE  SocketInOrder' /\ \A n : Ahead(n)' = Ahead(n)
BY DEF IInv, SocketInOrder, Ahead, readerVars

LEMMA ConnectInv ==
    ASSUME IInv, NEW w \in Workers, Connect(w)
    PROVE  IInv'
<1>1. /\ UNCHANGED <<arrived, readerVars, channel, batch, historyVars>>
      /\ mode[w] = "connecting"
      /\ mode' = [mode EXCEPT ![w] = "waiting"]
      /\ fresh' = [fresh EXCEPT ![w] = TRUE]
      /\ failures' = [failures EXCEPT ![w] = 0]
  BY DEF Connect
<1>2. DataTypes'
  BY <1>1 DEF IInv, DataTypes, readerVars, historyVars
<1>3. \A n : InFlight(n)' = InFlight(n)
  BY <1>1 DEF InFlight
<1>4. SocketInOrder' /\ AheadIsUntouched' /\ OnePlace' /\ WrittenOnce' /\ OutageIsBounded'
  BY <1>1, <1>3, UpstreamKept DEF IInv, AheadIsUntouched, OnePlace, WrittenOnce,
                                  OutageIsBounded, historyVars
<1>5. BatchIsWritten' /\ StaleIsCounted'
  BY <1>1 DEF IInv, DataTypes, BatchIsWritten, StaleIsCounted, historyVars
<1>6. QED
  BY <1>2, <1>4, <1>5 DEF IInv

\* A batch moves from the channel to one worker, which has none.
LEMMA ReceiveInv ==
    ASSUME IInv, NEW w \in Workers, Receive(w)
    PROVE  IInv' /\ \A n : InFlight(n)' = InFlight(n)
<1>1. /\ UNCHANGED <<arrived, readerVars, fresh, failures, historyVars>>
      /\ mode[w] = "waiting"
      /\ mode' = [mode EXCEPT ![w] = "writing"]
      /\ batch' = [batch EXCEPT ![w] = SubSeq(channel, 1, Taken)]
      /\ channel' = SubSeq(channel, Taken + 1, Len(channel))
  BY DEF Receive
<1>2. /\ channel \in Seq(Packets) /\ Len(channel) \in Nat /\ DOMAIN channel = 1..Len(channel)
      /\ batch \in [Workers -> Seq(Packets)] /\ batch[w] = <<>>
  BY <1>1 DEF IInv, DataTypes, BatchIsWritten
<1>3. Taken \in 0..Len(channel)
  BY <1>2 DEF Taken
<1> DEFINE first == SubSeq(channel, 1, Taken)
<1>4. /\ first \in Seq(Packets) /\ DOMAIN first = 1..Taken
      /\ \A i \in 1..Taken : first[i] = channel[i]
      /\ channel' \in Seq(Packets) /\ DOMAIN channel' = 1..(Len(channel) - Taken)
      /\ \A i \in 1..(Len(channel) - Taken) : channel'[i] = channel[i + Taken]
  BY <1>1, <1>2, <1>3, Cut
<1>5. batch'[w] = first /\ \A v \in Workers : v # w => batch'[v] = batch[v]
  BY <1>1, <1>2
<1> HIDE DEF first
<1>6. Held(channel) = Held(first) \cup Held(channel')
  <2>1. Held(first) \subseteq Held(channel) /\ Held(channel') \subseteq Held(channel)
    <3>1. \A i \in 1..Taken : i \in DOMAIN channel
      BY <1>2, <1>3
    <3>2. \A i \in 1..(Len(channel) - Taken) : i + Taken \in DOMAIN channel
      BY <1>2, <1>3
    <3>3. Held(first) \subseteq Held(channel)
      BY <1>4, <3>1 DEF Held
    <3>4. Held(channel') \subseteq Held(channel)
      BY <1>4, <3>2 DEF Held
    <3>5. QED
      BY <3>3, <3>4
  <2>2. ASSUME NEW i \in 1..Len(channel)
        PROVE  channel[i] \in Held(first) \cup Held(channel')
    <3>1. CASE i <= Taken
      <4>1. i \in 1..Taken
        BY <1>3, <3>1
      <4>2. QED
        BY <1>4, <4>1 DEF Held
    <3>2. CASE i > Taken
      <4>1. /\ i - Taken \in 1..(Len(channel) - Taken)
            /\ channel[i] = channel'[i - Taken]
        BY <1>2, <1>3, <1>4, <3>2
      <4>2. QED
        BY <1>4, <4>1 DEF Held
    <3>3. QED
      BY <1>3, <3>1, <3>2
  <2>3. QED
    BY <1>2, <2>1, <2>2 DEF Held
<1>7. \A n \in Held(first) : n \notin Held(channel')
  <2>1. SUFFICES ASSUME NEW i \in 1..Taken, NEW j \in 1..(Len(channel) - Taken),
                        first[i] = channel'[j]
                 PROVE  FALSE
    BY <1>4 DEF Held
  <2>2. /\ channel[i] = channel[j + Taken] /\ i # j + Taken
        /\ i \in DOMAIN channel /\ j + Taken \in DOMAIN channel
    BY <1>2, <1>3, <1>4, <2>1
  <2>3. QED
    BY <2>2 DEF IInv, OnePlace
<1>8. DataTypes'
  BY <1>1, <1>4, <1>5 DEF IInv, DataTypes, readerVars, historyVars, first
<1>9. \A n : InFlight(n)' = InFlight(n)
  <2>1. Held(batch[w]) = {}
    BY <1>2, HeldEmpty
  <2>2. QED
    BY <1>5, <1>6, <2>1 DEF InFlight
<1>10. SocketInOrder' /\ AheadIsUntouched' /\ WrittenOnce' /\ OutageIsBounded'
  BY <1>1, <1>9, UpstreamKept DEF IInv, AheadIsUntouched, WrittenOnce, OutageIsBounded, historyVars
<1>11. OnePlace'
  <2>1. \A i, j \in DOMAIN channel' : channel'[i] = channel'[j] => i = j
    <3>1. TAKE i, j \in DOMAIN channel'
    <3>2. /\ i + Taken \in DOMAIN channel /\ channel'[i] = channel[i + Taken] /\ i \in Nat
          /\ j + Taken \in DOMAIN channel /\ channel'[j] = channel[j + Taken] /\ j \in Nat
      <4>1. /\ i \in 1..(Len(channel) - Taken) /\ channel'[i] = channel[i + Taken]
            /\ j \in 1..(Len(channel) - Taken) /\ channel'[j] = channel[j + Taken]
        BY <1>4
      <4>2. QED
        BY <1>2, <1>3, <4>1
    <3>3. channel[i + Taken] = channel[j + Taken] => i + Taken = j + Taken
      BY <3>2 DEF IInv, OnePlace
    <3>4. QED
      BY <1>3, <3>2, <3>3
  <2>2. \A v \in Workers : \A n \in Held(batch'[v]) : n \notin Held(channel')
    BY <1>5, <1>6, <1>7 DEF IInv, OnePlace
  <2>3. \A u, v \in Workers : \A n \in Held(batch'[u]) : n \in Held(batch'[v]) => u = v
    BY <1>5, <1>6 DEF IInv, OnePlace
  <2>4. QED
    BY <2>1, <2>2, <2>3 DEF OnePlace
<1>12. BatchIsWritten' /\ StaleIsCounted'
  BY <1>1, <1>5 DEF IInv, DataTypes, BatchIsWritten, StaleIsCounted, historyVars
<1>13. QED
  BY <1>8, <1>9, <1>10, <1>11, <1>12 DEF IInv

\* A batch leaves its worker: its readings are written or given up, and those of the
\* others stay where they are.
LEMMA BatchLeaves ==
    ASSUME IInv, NEW w \in Workers, mode[w] = "writing",
           UNCHANGED <<arrived, readerVars, channel, fresh>>,
           batch' = [batch EXCEPT ![w] = <<>>],
           \/ copies' = Written(w) /\ lost' = lost
           \/ copies' = copies /\ lost' = lost \cup Held(batch[w])
    PROVE  /\ copies' \in [Packets -> Nat] /\ lost' \subseteq Packets
           /\ batch' \in [Workers -> Seq(Packets)]
           /\ SocketInOrder' /\ AheadIsUntouched' /\ OnePlace' /\ WrittenOnce'
           /\ \A n \in Packets : InFlight(n) /\ ~InFlight(n)' => copies'[n] > 0 \/ n \in lost'
           /\ \A n \in Held(batch[w]) : n \in Packets /\ InFlight(n)
           /\ \A n \in Packets : InFlight(n)' <=> InFlight(n) /\ n \notin Held(batch[w])
<1>1. /\ batch \in [Workers -> Seq(Packets)] /\ copies \in [Packets -> Nat] /\ lost \subseteq Packets
      /\ batch'[w] = <<>> /\ \A v \in Workers : v # w => batch'[v] = batch[v]
      /\ <<>> \in Seq(Packets)
  BY DEF IInv, DataTypes
<1>2. Held(batch[w]) \subseteq Packets
  BY <1>1, HeldTyping
<1>3. Held(batch'[w]) = {}
  BY <1>1, HeldEmpty
<1>4. copies' \in [Packets -> Nat] /\ lost' \subseteq Packets /\ batch' \in [Workers -> Seq(Packets)]
  BY <1>1, <1>2 DEF Written
<1>5. ASSUME NEW n \in Packets
      PROVE  InFlight(n)' <=> InFlight(n) /\ n \notin Held(batch[w])
  <2>1. n \in Held(batch[w]) => /\ n \notin Held(channel)
                                /\ \A v \in Workers : v # w => n \notin Held(batch[v])
    BY DEF IInv, OnePlace
  <2>2. QED
    BY <1>1, <1>3, <2>1 DEF InFlight
<1>6. ASSUME NEW n \in Packets
      PROVE  /\ n \notin Held(batch[w]) => copies'[n] = copies[n] /\ (n \in lost' <=> n \in lost)
             /\ n \in Held(batch[w]) => /\ InFlight(n)
                                        /\ \/ copies'[n] = copies[n] + 1 /\ (n \in lost' <=> n \in lost)
                                           \/ copies'[n] = copies[n] /\ n \in lost'
  BY <1>1, <1>2 DEF Written, InFlight
<1>7. SocketInOrder' /\ \A n : Ahead(n)' = Ahead(n)
  BY UpstreamKept
<1>8. AheadIsUntouched'
  BY <1>5, <1>6, <1>7 DEF IInv, AheadIsUntouched
<1>9. OnePlace'
  BY <1>1, <1>3 DEF IInv, OnePlace
<1>10. WrittenOnce'
  <2>1. SUFFICES ASSUME NEW n \in Packets
                 PROVE  copies'[n] + (IF n \in lost' THEN 1 ELSE 0)
                          + (IF InFlight(n)' THEN 1 ELSE 0) <= 1
    BY DEF WrittenOnce
  <2>2. /\ copies[n] \in Nat
        /\ copies[n] + (IF n \in lost THEN 1 ELSE 0) + (IF InFlight(n) THEN 1 ELSE 0) <= 1
    BY <1>1 DEF IInv, WrittenOnce
  <2>3. CASE n \in Held(batch[w])
    BY <1>5, <1>6, <2>2, <2>3
  <2>4. CASE n \notin Held(batch[w])
    BY <1>5, <1>6, <2>2, <2>4
  <2>5. QED
    BY <2>3, <2>4
<1>11. ASSUME NEW n \in Packets, InFlight(n), ~InFlight(n)'
       PROVE  copies'[n] > 0 \/ n \in lost'
  BY <1>1, <1>5, <1>6, <1>11
<1>12. \A n \in Held(batch[w]) : n \in Packets /\ InFlight(n)
  BY <1>2, <1>6
<1>13. QED
  BY <1>4, <1>5, <1>7, <1>8, <1>9, <1>10, <1>11, <1>12

LEMMA PutSucceedsInv ==
    ASSUME IInv, NEW w \in Workers, PutSucceeds(w)
    PROVE  IInv' /\ \A n \in Packets : InFlight(n) /\ ~InFlight(n)' => copies'[n] > 0 \/ n \in lost'
<1>1. /\ UNCHANGED <<arrived, readerVars, channel, fresh, lost, missed>>
      /\ mode[w] = "writing" /\ fresh[w]
      /\ copies' = Written(w)
      /\ failures' = [failures EXCEPT ![w] = 0]
      /\ mode' = [mode EXCEPT ![w] = "waiting"]
      /\ batch' = [batch EXCEPT ![w] = <<>>]
  BY DEF PutSucceeds
<1>2. DataTypes'
  <2>1. 0 \in 0..(MaxFailures - 1)
    OBVIOUS
  <2>2. /\ failures' \in [Workers -> 0..(MaxFailures - 1)]
        /\ mode' \in [Workers -> {"connecting", "waiting", "writing"}]
    BY <1>1, <2>1 DEF IInv, DataTypes
  <2>3. /\ copies' \in [Packets -> Nat] /\ lost' \subseteq Packets
        /\ batch' \in [Workers -> Seq(Packets)]
    BY <1>1, BatchLeaves
  <2>4. QED
    BY <1>1, <2>2, <2>3 DEF IInv, DataTypes, readerVars
<1>3. BatchIsWritten' /\ StaleIsCounted' /\ OutageIsBounded'
  BY <1>1 DEF IInv, DataTypes, BatchIsWritten, StaleIsCounted, OutageIsBounded
<1>4. QED
  BY <1>1, <1>2, <1>3, BatchLeaves DEF IInv

\* A failure over a stale connection is counted; the last one that is allowed ends the
\* connection.
LEMMA PutFailsInv ==
    ASSUME IInv, NEW w \in Workers, PutFails(w)
    PROVE  IInv' /\ \A n \in Packets : InFlight(n) /\ ~InFlight(n)' => copies'[n] > 0 \/ n \in lost'
<1>1. /\ UNCHANGED <<arrived, readerVars, channel, fresh>>
      /\ mode[w] = "writing"
      /\ batch' = [batch EXCEPT ![w] = <<>>]
      /\ \/ copies' = Written(w) /\ lost' = lost
         \/ copies' = copies /\ lost' = lost \cup Held(batch[w])
  BY DEF PutFails
<1>2. /\ mode \in [Workers -> {"connecting", "waiting", "writing"}]
      /\ failures \in [Workers -> 0..(MaxFailures - 1)] /\ missed \in [Workers -> Nat]
      /\ fresh[w] \/ missed[w] <= failures[w]
      /\ missed[w] <= MaxFailures
  BY <1>1 DEF IInv, DataTypes, StaleIsCounted, OutageIsBounded
<1>3. /\ \/ mode' = [mode EXCEPT ![w] = "connecting"] /\ failures' = [failures EXCEPT ![w] = 0]
            /\ failures[w] + 1 >= MaxFailures
         \/ mode' = [mode EXCEPT ![w] = "waiting"] /\ failures' = [failures EXCEPT ![w] = failures[w] + 1]
            /\ failures[w] + 1 < MaxFailures
      /\ missed' = [missed EXCEPT ![w] = IF dbUp /\ ~fresh[w] THEN missed[w] + 1 ELSE missed[w]]
  BY <1>2 DEF PutFails, AfterFailure, CountMissed
<1>4. /\ mode' \in [Workers -> {"connecting", "waiting", "writing"}]
      /\ failures' \in [Workers -> 0..(MaxFailures - 1)] /\ missed' \in [Workers -> Nat]
  BY <1>2, <1>3
<1>5. DataTypes'
  BY <1>1, <1>4, BatchLeaves DEF IInv, DataTypes, readerVars
<1>6. ASSUME NEW v \in Workers
      PROVE  /\ mode'[v] # "writing" => batch'[v] = <<>>
             /\ fresh'[v] \/ mode'[v] = "connecting" \/ missed'[v] <= failures'[v]
             /\ missed'[v] <= MaxFailures
  <2>1. CASE v = w
    BY <1>1, <1>2, <1>3, <2>1 DEF IInv, DataTypes
  <2>2. CASE v # w
    BY <1>1, <1>2, <1>3, <2>2 DEF IInv, DataTypes, BatchIsWritten, StaleIsCounted, OutageIsBounded
  <2>3. QED
    BY <2>1, <2>2
<1>7. QED
  BY <1>1, <1>5, <1>6, BatchLeaves DEF IInv, BatchIsWritten, StaleIsCounted, OutageIsBounded

-----------------------------------------------------------------------------
(* The environment *)

\* A packet that arrives is the latest.
LEMMA ArriveInv ==
    ASSUME IInv, NEW record \in Records, Arrive(record)
    PROVE  IInv'
<1>1. /\ UNCHANGED <<reader, offered, channel, workerVars, historyVars>>
      /\ arrived < MaxPackets /\ arrived' = arrived + 1
      /\ socket' \in {Append(socket, [n |-> arrived', record |-> record]), socket}
  BY DEF Arrive
<1>2. /\ arrived \in Nat /\ arrived' \in Packets /\ offered \in Nat
      /\ [n |-> arrived', record |-> record] \in Item
      /\ socket \in Seq(Item)
  BY <1>1 DEF IInv, DataTypes, Packets, Item
<1> DEFINE longer == Append(socket, [n |-> arrived', record |-> record])
<1>3. /\ longer \in Seq(Item)
      /\ DOMAIN longer = 1..(Len(socket) + 1) /\ DOMAIN socket = 1..Len(socket) /\ Len(socket) \in Nat
      /\ \A i \in 1..Len(socket) : longer[i] = socket[i]
      /\ longer[Len(socket) + 1].n = arrived'
  BY <1>2, AppendProperties
<1>4. DataTypes'
  <2>1. socket' \in Seq(Item)
    BY <1>1, <1>2, <1>3
  <2>2. arrived' \in 0..MaxPackets
    BY <1>2 DEF Packets
  <2>3. QED
    BY <1>1, <2>1, <2>2 DEF IInv, DataTypes, workerVars, historyVars
<1>5. SocketInOrder'
  <2> \A i \in 1..Len(socket) : socket[i].n \in Nat
    <3>1. \A i \in 1..Len(socket) : socket[i] \in Item
      BY <1>2
    <3>2. QED
      BY <3>1 DEF Item, Packets
  <2>1. CASE socket' = socket
    BY <1>1, <1>2, <1>3, <2>1 DEF IInv, SocketInOrder
  <2>2. CASE socket' = longer
    <3>1. offered <= arrived /\ (reader = "sending" => offered >= 1)
      BY DEF IInv, SocketInOrder
    <3>2. \A i \in 1..Len(socket) : /\ socket[i].n \in Nat
                                    /\ offered < socket[i].n /\ socket[i].n <= arrived
      BY <1>3 DEF IInv, SocketInOrder
    <3>3. \A i, j \in 1..Len(socket) : i < j => socket[i].n < socket[j].n
      BY <1>3 DEF IInv, SocketInOrder
    <3> HIDE DEF longer
    <3>4. \A i \in DOMAIN longer : offered < longer[i].n /\ longer[i].n <= arrived'
      <4>1. TAKE i \in DOMAIN longer
      <4>2. CASE i = Len(socket) + 1
        BY <1>1, <1>2, <1>3, <3>1, <4>2
      <4>3. CASE i \in 1..Len(socket)
        BY <1>1, <1>2, <1>3, <3>2, <4>3
      <4>4. QED
        BY <1>3, <4>2, <4>3
    <3>5. \A i, j \in DOMAIN longer : i < j => longer[i].n < longer[j].n
      <4>1. TAKE i, j \in DOMAIN longer
      <4>2. CASE j = Len(socket) + 1
        BY <1>1, <1>2, <1>3, <3>2, <4>2
      <4>3. CASE j \in 1..Len(socket)
        BY <1>3, <3>3, <4>3
      <4>4. QED
        BY <1>3, <4>2, <4>3
    <3>6. QED
      BY <1>1, <1>2, <2>2, <3>1, <3>4, <3>5 DEF SocketInOrder
  <2>3. QED
    BY <1>1, <2>1, <2>2
<1>6. AheadIsUntouched'
  <2>1. \A n : Ahead(n)' = Ahead(n)
    BY <1>1 DEF Ahead
  <2>2. QED
    BY <1>1, <2>1, DownstreamKept DEF IInv, AheadIsUntouched, historyVars
<1>7. QED
  BY <1>1, <1>4, <1>5, <1>6, DownstreamKept DEF IInv

\* The count of missed batches starts over when TDengine comes up.
LEMMA DbComesUpInv ==
    ASSUME IInv, DbComesUp
    PROVE  IInv' /\ \A n : InFlight(n)' = InFlight(n)
<1>1. /\ UNCHANGED <<arrived, readerVars, channel, mode, batch, failures, copies, lost>>
      /\ fresh' = [w \in Workers |-> FALSE]
      /\ missed' = [w \in Workers |-> 0]
  BY DEF DbComesUp
<1>2. \A n : InFlight(n)' = InFlight(n)
  BY <1>1 DEF InFlight
<1>3. DataTypes'
  BY <1>1 DEF IInv, DataTypes, readerVars
<1>4. SocketInOrder' /\ AheadIsUntouched' /\ OnePlace' /\ WrittenOnce'
  BY <1>1, <1>2, UpstreamKept DEF IInv, AheadIsUntouched, OnePlace, WrittenOnce
<1>5. BatchIsWritten' /\ StaleIsCounted' /\ OutageIsBounded'
  BY <1>1 DEF IInv, DataTypes, BatchIsWritten, StaleIsCounted, OutageIsBounded
<1>6. QED
  BY <1>2, <1>3, <1>4, <1>5 DEF IInv

-----------------------------------------------------------------------------
(* Every step *)

NoneVanishes ==
    \A n \in Packets : InFlight(n) /\ ~InFlight(n)' => copies'[n] > 0 \/ n \in lost'

LEMMA StepInv == IInv /\ [Next]_vars => IInv' /\ NoneVanishes
<1> SUFFICES ASSUME IInv, [Next]_vars PROVE IInv' /\ NoneVanishes
  OBVIOUS
<1>1. CASE OpenSocket \/ ReadFails \/ ReadMalformed \/ InitSender \/ DbGoesDown
  <2>1. UNCHANGED <<channel, workerVars, historyVars>>
    BY <1>1 DEF OpenSocket, ReadFails, ReadMalformed, InitSender, DbGoesDown
  <2>2. QED
    BY <1>1, <2>1, SocketInv, DownstreamKept DEF NoneVanishes
<1>2. CASE Read
  <2>1. UNCHANGED <<channel, workerVars, historyVars>>
    BY <1>2 DEF Read
  <2>2. QED
    BY <1>2, <2>1, ReadInv, DownstreamKept DEF NoneVanishes
<1>3. CASE TrySend
  <2>1. /\ batch' = batch
        /\ channel' = channel \/ channel' = Append(channel, offered)
    BY <1>3 DEF TrySend, workerVars
  <2>2. channel \in Seq(Packets) /\ offered \in Packets
    BY <1>3 DEF TrySend, IInv, DataTypes, SocketInOrder, Packets
  <2>3. Held(Append(channel, offered)) = Held(channel) \cup {offered}
    BY <2>2, HeldAppend
  <2>4. \A n \in Packets : InFlight(n) => InFlight(n)'
    BY <2>1, <2>3 DEF InFlight
  <2>5. QED
    BY <1>3, <2>4, TrySendInv DEF NoneVanishes
<1>4. CASE \E w \in Workers : Worker(w)
  <2>1. PICK w \in Workers : Worker(w)
    BY <1>4
  <2>2. CASE Connect(w)
    <3>1. \A n : InFlight(n)' = InFlight(n)
      BY <2>2 DEF Connect, InFlight
    <3>2. QED
      BY <2>2, <3>1, ConnectInv DEF NoneVanishes
  <2>3. CASE Receive(w)
    BY <2>3, ReceiveInv DEF NoneVanishes
  <2>4. CASE PutSucceeds(w)
    BY <2>4, PutSucceedsInv DEF NoneVanishes
  <2>5. CASE PutFails(w)
    BY <2>5, PutFailsInv DEF NoneVanishes
  <2>6. QED
    BY <2>1, <2>2, <2>3, <2>4, <2>5 DEF Worker
<1>5. CASE \E record \in Records : Arrive(record)
  <2>1. PICK record \in Records : Arrive(record)
    BY <1>5
  <2>2. UNCHANGED <<channel, workerVars, historyVars>>
    BY <2>1 DEF Arrive
  <2>3. QED
    BY <2>1, <2>2, ArriveInv, DownstreamKept DEF NoneVanishes
<1>6. CASE DbComesUp
  BY <1>6, DbComesUpInv DEF NoneVanishes
<1>7. CASE UNCHANGED vars
  <2>1. UNCHANGED <<arrived, readerVars, channel, workerVars, historyVars>>
    BY <1>7 DEF vars
  <2>2. DataTypes' /\ SocketInOrder' /\ \A n : Ahead(n)' = Ahead(n)
    BY <2>1, UpstreamKept DEF IInv, DataTypes, readerVars, workerVars, historyVars
  <2>3. AheadIsUntouched'
    BY <2>1, <2>2, DownstreamKept DEF IInv, AheadIsUntouched, historyVars
  <2>4. QED
    BY <2>1, <2>2, <2>3, DownstreamKept DEF IInv, NoneVanishes
<1>8. QED
  BY <1>1, <1>2, <1>3, <1>4, <1>5, <1>6, <1>7 DEF Next, Reader

\* Every reachable state satisfies the inductive invariant.
THEOREM Invariance == Spec => []IInv
<1>1. IInv /\ [Next]_vars => IInv'
  BY StepInv
<1>2. QED
  BY InitInv, <1>1, PTL DEF Spec

-----------------------------------------------------------------------------
(* The properties *)

\* A reading is written once at most, and is never written, given up and under way at the
\* same time, for any number of workers and whatever TDengine does.
THEOREM Once == Spec => []WrittenOnce
BY Invariance, PTL DEF IInv

\* After an outage a worker fails MAX_CONSECUTIVE_FAILURES batches at most.
THEOREM BoundedOutage == Spec => []OutageIsBounded
BY Invariance, PTL DEF IInv

\* No hand-over between the reader, the channel and the workers loses a reading.
THEOREM Vanishing == Spec => NothingVanishes
<1>1. IInv /\ [Next]_vars => [NoneVanishes]_vars
  BY StepInv
<1>2. [NoneVanishes]_vars => [\A n \in Packets : InFlight(n) /\ ~InFlight(n)' => copies'[n] > 0 \/ n \in lost']_vars
  BY DEF NoneVanishes
<1>3. QED
  BY Invariance, <1>1, <1>2, PTL DEF Spec, NothingVanishes

-----------------------------------------------------------------------------
(* The sizes of the queues *)

Sizes ==
    /\ dbUp \in BOOLEAN /\ ready \in BOOLEAN
    /\ Len(socket) <= SocketSize
    /\ Len(channel) <= ChannelSize
    /\ \A w \in Workers : Len(batch[w]) <= BatchSize

\* No queue outgrows its limit, and recv_many takes no more than its own.
LEMMA SizesInv == IInv /\ Sizes /\ [Next]_vars => Sizes'
<1> SUFFICES ASSUME IInv, Sizes, [Next]_vars PROVE Sizes'
  OBVIOUS
<1>1. /\ socket \in Seq(Item) /\ Len(socket) \in Nat /\ Len(socket) <= SocketSize
      /\ channel \in Seq(Packets) /\ Len(channel) \in Nat /\ Len(channel) <= ChannelSize
      /\ batch \in [Workers -> Seq(Packets)]
      /\ \A w \in Workers : Len(batch[w]) <= BatchSize
      /\ dbUp \in BOOLEAN /\ ready \in BOOLEAN
  BY DEF IInv, DataTypes, Sizes
<1>2. Len(<<>>) = 0 /\ 0 <= SocketSize /\ 0 <= BatchSize
  OBVIOUS
<1>3. socket # <<>> => Len(Tail(socket)) <= SocketSize
  BY <1>1, HeadTailProperties
<1>4. CASE OpenSocket \/ ReadFails \/ ReadMalformed \/ Read \/ InitSender
  <2>1. /\ dbUp' = dbUp /\ ready' \in BOOLEAN /\ channel' = channel /\ batch' = batch
        /\ socket' \in {socket, <<>>} \/ (socket # <<>> /\ socket' = Tail(socket))
    BY <1>1, <1>4 DEF OpenSocket, ReadFails, ReadMalformed, Read, InitSender, workerVars
  <2>2. Len(socket') <= SocketSize
    BY <1>1, <1>2, <1>3, <2>1
  <2> QED
    BY <1>1, <2>1, <2>2 DEF Sizes
<1>5. CASE TrySend
  <2>1. /\ UNCHANGED <<dbUp, ready, socket, batch>>
        /\ channel' = channel \/ (channel' = Append(channel, offered) /\ Len(channel) < ChannelSize)
    BY <1>5 DEF TrySend, workerVars
  <2>2. offered \in Packets
    BY <1>5 DEF TrySend, IInv, DataTypes, SocketInOrder, Packets
  <2>3. Len(channel') <= ChannelSize
    BY <1>1, <2>1, <2>2, AppendProperties
  <2> QED
    BY <1>1, <2>1, <2>3 DEF Sizes
<1>6. CASE \E w \in Workers : Worker(w)
  <2>1. PICK w \in Workers : Worker(w)
    BY <1>6
  <2>2. CASE Connect(w)
    BY <1>1, <2>2 DEF Connect, readerVars, Sizes
  <2>3. CASE Receive(w)
    <3>1. /\ UNCHANGED <<dbUp, ready, socket>>
          /\ batch' = [batch EXCEPT ![w] = SubSeq(channel, 1, Taken)]
          /\ channel' = SubSeq(channel, Taken + 1, Len(channel))
      BY <2>3 DEF Receive, readerVars
    <3>2. Taken \in 0..Len(channel) /\ Taken <= BatchSize
      BY <1>1 DEF Taken
    <3>3. /\ Len(SubSeq(channel, 1, Taken)) = Taken
          /\ Len(SubSeq(channel, Taken + 1, Len(channel))) = Len(channel) - Taken
      BY <1>1, <3>2, Cut
    <3>4. Len(channel') <= ChannelSize
      BY <1>1, <3>1, <3>2, <3>3
    <3>5. \A v \in Workers : Len(batch'[v]) <= BatchSize
      BY <1>1, <3>1, <3>2, <3>3
    <3> QED
      BY <1>1, <3>1, <3>4, <3>5 DEF Sizes
  <2>4. CASE PutSucceeds(w) \/ PutFails(w)
    <3>1. /\ UNCHANGED <<dbUp, ready, socket, channel>>
          /\ batch' = [batch EXCEPT ![w] = <<>>]
      BY <2>4 DEF PutSucceeds, PutFails, readerVars
    <3>2. \A v \in Workers : Len(batch'[v]) <= BatchSize
      BY <1>1, <1>2, <3>1
    <3> QED
      BY <1>1, <3>1, <3>2 DEF Sizes
  <2> QED
    BY <2>1, <2>2, <2>3, <2>4 DEF Worker
<1>7. CASE \E record \in Records : Arrive(record)
  <2>1. PICK record \in Records : Arrive(record)
    BY <1>7
  <2>2. /\ UNCHANGED <<dbUp, ready, channel, batch>>
        /\ \/ socket' = socket
           \/ /\ socket' = Append(socket, [n |-> arrived', record |-> record])
              /\ Len(socket) < SocketSize
    BY <2>1 DEF Arrive, workerVars
  <2>3. [n |-> arrived', record |-> record] \in Item
    BY <2>1 DEF Arrive, IInv, DataTypes, Packets, Item
  <2>4. Len(socket') <= SocketSize
    BY <1>1, <2>2, <2>3, AppendProperties
  <2> QED
    BY <1>1, <2>2, <2>4 DEF Sizes
<1>8. CASE DbComesUp \/ DbGoesDown \/ UNCHANGED vars
  BY <1>1, <1>8 DEF DbComesUp, DbGoesDown, vars, readerVars, workerVars, Sizes
<1> QED
  BY <1>4, <1>5, <1>6, <1>7, <1>8 DEF Next, Reader

LEMMA SizesInvariance == Spec => []Sizes
<1>1. Init => Sizes
  <2>1. Len(<<>>) = 0 /\ 0 <= SocketSize /\ 0 <= ChannelSize /\ 0 <= BatchSize
    OBVIOUS
  <2> QED
    BY <2>1 DEF Init, Sizes
<1>2. IInv /\ Sizes /\ [Next]_vars => Sizes'
  BY SizesInv
<1> QED
  BY Invariance, <1>1, <1>2, PTL DEF Spec

\* Every value keeps its type, and no queue outgrows its limit.
THEOREM TypeCorrect == Spec => []TypeOK
<1>1. IInv /\ Sizes => TypeOK
  BY DEF IInv, TypeOK, DataTypes, Sizes, Item
<1> QED
  BY Invariance, SizesInvariance, <1>1, PTL

-----------------------------------------------------------------------------
(* What is read *)

\* A record that is read is not one of the vehicle controller.
LEMMA ReadableIsNotCcm ==
    ASSUME NEW record \in Readable
    PROVE  record.sender = "logger"
<1>1. /\ record \in CcmRecords \cup LoggerRecords
      /\ Accepted(PacketOf(record))
  BY RecordsAssumption DEF Readable
<1>2. record \notin CcmRecords
  <2>1. SUFFICES ASSUME record \in CcmRecords PROVE FALSE
    OBVIOUS
  <2>2. /\ record.sender = "ccm" /\ record.state \in Held(CcmStates)
        /\ record.fill \in Byte /\ record.enumSize \in {1, 4}
    BY <2>1 DEF CcmRecords
  <2> QED
    BY <1>1, <2>2, CcmRefused DEF PacketOf
<1> QED
  BY <1>1, <1>2 DEF LoggerRecords

\* What send_message is called with, and so what reaches MQTT, the channel and TDengine, never
\* comes from the vehicle controller, whatever that sends and for however long: can.rs:275
\* refuses every packet of it. CcmPacketIsRead is false for all of them.
THEOREM NothingFromCcm ==
    Spec => [][ reader = "reading" /\ reader' = "sending"
                  => Head(socket).record.sender # "ccm" ]_vars
<1> DEFINE Handed == reader = "reading" /\ reader' = "sending"
                       => Head(socket).record.sender # "ccm"
<1>1. [Next]_vars => [Handed]_vars
  <2> SUFFICES ASSUME Next, reader = "reading", reader' = "sending"
               PROVE  Head(socket).record.sender # "ccm"
    OBVIOUS
  <2>1. CASE Read
    BY <2>1, ReadableIsNotCcm DEF Read
  <2>2. CASE OpenSocket \/ ReadFails \/ ReadMalformed \/ InitSender \/ TrySend
    BY <2>2 DEF OpenSocket, ReadFails, ReadMalformed, InitSender, TrySend
  <2>3. CASE \E w \in Workers : Worker(w)
    BY <2>3 DEF Worker, Connect, Receive, PutSucceeds, PutFails, readerVars
  <2>4. CASE DbComesUp \/ DbGoesDown \/ \E record \in Records : Arrive(record)
    BY <2>4 DEF DbComesUp, DbGoesDown, Arrive, readerVars
  <2> QED
    BY <2>1, <2>2, <2>3, <2>4 DEF Next, Reader
<1> QED
  BY <1>1, PTL DEF Spec

-----------------------------------------------------------------------------
(* The logger implements Store *)

\* The packet in hand is behind all that were passed on or refused.
LEMMA OfferedIsLatest ==
    ASSUME IInv, reader = "sending"
    PROVE  offered \in Packets /\ Promise!Latest(offered)
<1>1. offered \in Packets /\ offered \in Nat /\ lost \subseteq Packets
  BY DEF IInv, DataTypes, SocketInOrder, Packets
<1>2. ASSUME NEW m \in Pending \cup Stored \cup lost
      PROVE  m < offered
  <2>1. m \in Packets /\ m \in Nat
    BY <1>1, <1>2 DEF Pending, Stored, Packets
  <2>2. ~Ahead(m)
    <3>1. Ahead(m) => copies[m] = 0 /\ m \notin lost /\ ~InFlight(m)
      BY <2>1 DEF IInv, AheadIsUntouched
    <3> QED
      BY <1>2, <3>1 DEF Pending, Stored
  <2> QED
    BY <1>1, <2>1, <2>2 DEF Ahead
<1> QED
  BY <1>1, <1>2 DEF Promise!Latest

\* A reading is taken when it enters the channel, and refused when that is full.
LEMMA TrySendPromise ==
    ASSUME IInv, TrySend
    PROVE  Promise!Take(offered) \/ Promise!Refuse(offered)
<1>1. /\ UNCHANGED <<batch, copies>> /\ reader = "sending"
      /\ \/ channel' = Append(channel, offered) /\ lost' = lost
         \/ lost' = lost \cup {offered} /\ channel' = channel
  BY DEF TrySend, workerVars
<1>2. offered \in Packets /\ Promise!Latest(offered) /\ channel \in Seq(Packets)
  BY <1>1, OfferedIsLatest DEF IInv, DataTypes
<1>3. Stored' = Stored
  BY <1>1 DEF Stored
<1>4. CASE channel' = Append(channel, offered) /\ lost' = lost
  <2>1. Held(channel') = Held(channel) \cup {offered}
    BY <1>2, <1>4, HeldAppend
  <2>2. \A n \in Packets : InFlight(n)' <=> InFlight(n) \/ n = offered
    BY <1>1, <2>1 DEF InFlight
  <2>3. Pending' = Pending \cup {offered}
    BY <1>2, <2>2 DEF Pending
  <2> QED
    BY <1>2, <1>3, <1>4, <2>3 DEF Promise!Take
<1>5. CASE lost' = lost \cup {offered} /\ channel' = channel
  <2>1. Pending' = Pending
    BY <1>1, <1>5 DEF Pending, InFlight
  <2> QED
    BY <1>2, <1>3, <1>5, <2>1 DEF Promise!Refuse
<1> QED
  BY <1>1, <1>4, <1>5

\* The readings of a batch are written or lost together.
LEMMA BatchPromise ==
    ASSUME IInv, NEW w \in Workers, PutSucceeds(w) \/ PutFails(w)
    PROVE  /\ Held(batch[w]) \in SUBSET Pending
           /\ Promise!Write(Held(batch[w])) \/ Promise!Lose(Held(batch[w]))
<1>1. /\ mode[w] = "writing"
      /\ UNCHANGED <<arrived, readerVars, channel, fresh>>
      /\ batch' = [batch EXCEPT ![w] = <<>>]
      /\ \/ copies' = Written(w) /\ lost' = lost
         \/ copies' = copies /\ lost' = lost \cup Held(batch[w])
  BY DEF PutSucceeds, PutFails
<1>2. /\ \A n \in Held(batch[w]) : n \in Packets /\ InFlight(n)
      /\ \A n \in Packets : InFlight(n)' <=> InFlight(n) /\ n \notin Held(batch[w])
  BY <1>1, BatchLeaves
<1>3. Held(batch[w]) \in SUBSET Pending /\ Pending' = Pending \ Held(batch[w])
  BY <1>2 DEF Pending
<1>4. CASE copies' = Written(w) /\ lost' = lost
  <2>1. \A n \in Packets : copies[n] \in Nat
    BY DEF IInv, DataTypes
  <2>2. \A n \in Packets : copies'[n] > 0 <=> copies[n] > 0 \/ n \in Held(batch[w])
    BY <1>4, <2>1 DEF Written
  <2>3. Stored' = Stored \cup Held(batch[w])
    BY <1>2, <2>2 DEF Stored
  <2> QED
    BY <1>3, <1>4, <2>3 DEF Promise!Write
<1>5. CASE copies' = copies /\ lost' = lost \cup Held(batch[w])
  <2>1. Stored' = Stored
    BY <1>5 DEF Stored
  <2> QED
    BY <1>3, <1>5, <2>1 DEF Promise!Lose
<1> QED
  BY <1>1, <1>3, <1>4, <1>5

\* Each step of the logger is one of the store, or none.
LEMMA StepPromise == IInv /\ [Next]_vars => [Promise!Next]_<<Pending, Stored, lost>>
<1> SUFFICES ASSUME IInv, [Next]_vars
             PROVE  Promise!Next \/ UNCHANGED <<Pending, Stored, lost>>
  OBVIOUS
<1>1. ASSUME UNCHANGED historyVars, \A n \in Packets : InFlight(n)' = InFlight(n)
      PROVE  UNCHANGED <<Pending, Stored, lost>>
  BY <1>1 DEF Pending, Stored, historyVars
<1>2. ASSUME UNCHANGED <<channel, batch, historyVars>>
      PROVE  UNCHANGED <<Pending, Stored, lost>>
  BY <1>1, <1>2 DEF InFlight
<1>3. CASE OpenSocket \/ ReadFails \/ ReadMalformed \/ Read \/ InitSender
  BY <1>2, <1>3 DEF OpenSocket, ReadFails, ReadMalformed, Read, InitSender, workerVars
<1>4. CASE TrySend
  <2>1. offered \in Packets
    BY <1>4, OfferedIsLatest DEF TrySend
  <2> QED
    BY <1>4, <2>1, TrySendPromise DEF Promise!Next
<1>5. CASE \E w \in Workers : Worker(w)
  <2>1. PICK w \in Workers : Worker(w)
    BY <1>5
  <2>2. CASE Connect(w)
    BY <1>2, <2>2 DEF Connect
  <2>3. CASE Receive(w)
    BY <1>1, <2>3, ReceiveInv DEF Receive
  <2>4. CASE PutSucceeds(w) \/ PutFails(w)
    BY <2>4, BatchPromise DEF Promise!Next
  <2> QED
    BY <2>1, <2>2, <2>3, <2>4 DEF Worker
<1>6. CASE \E record \in Records : Arrive(record)
  BY <1>2, <1>6 DEF Arrive, workerVars
<1>7. CASE DbComesUp
  BY <1>7 DEF DbComesUp, Pending, Stored, InFlight
<1>8. CASE DbGoesDown \/ UNCHANGED vars
  BY <1>2, <1>8 DEF DbGoesDown, vars, workerVars
<1> QED
  BY <1>3, <1>4, <1>5, <1>6, <1>7, <1>8 DEF Next, Reader

\* The logger is a store that takes readings in order, and writes or loses each one that it
\* took, once, for any number of workers, any sizes and whatever TDengine does.
THEOREM Refinement == Spec => StorePromise
<1>1. Init => Promise!Init
  <2> SUFFICES ASSUME Init PROVE Promise!Init
    OBVIOUS
  <2>1. \A n \in Packets : copies[n] = 0 /\ ~InFlight(n)
    BY HeldEmpty DEF Init, InFlight
  <2> QED
    BY <2>1 DEF Init, Promise!Init, Pending, Stored
<1>2. IInv /\ [Next]_vars => [Promise!Next]_<<Pending, Stored, lost>>
  BY StepPromise
<1> QED
  BY <1>1, <1>2, Invariance, PTL DEF Spec, StorePromise, Promise!Spec, Promise!vars
=============================================================================
