--------------------------------- MODULE Daq ---------------------------------
(***************************************************************************)
(* The data logger (fsae-daq): read_can_hardware takes telemetry packets   *)
(* off an ISO-TP socket and decodes them, send_message offers each reading *)
(* to MQTT and to a bounded channel, and worker tasks take batches off the *)
(* channel and write them to TDengine. The packets are those of the        *)
(* vehicle controller (threadTelemetry) and others in the layout the       *)
(* logger itself uses; the module TelemetryRecord has the bytes of both.   *)
(*                                                                         *)
(* The channel, the connections and the workers are made by the first      *)
(* send_message, which waits in get_or_init until TDengine answers. A      *)
(* batch is taken out of the buffer before it is written; it is gone when  *)
(* the write fails. TDengine may fail and come back at any time; a         *)
(* connection made before a failure never works again, and a write that    *)
(* reports an error may have been made.                                    *)
(***************************************************************************)
EXTENDS TelemetryRecord

CONSTANTS Workers,      \* the spawned tasks
          Records,      \* what the senders may put on the bus
          MaxPackets,   \* packets on the bus, in all (a bound of the model)
          SocketSize,   \* packets the socket holds
          ChannelSize,  \* capacity of the mpsc channel
          BatchSize,    \* limit of recv_many
          MaxFailures   \* MAX_CONSECUTIVE_FAILURES

ASSUME DaqAssumption ==
    /\ MaxPackets \in Nat
    /\ {SocketSize, ChannelSize, BatchSize, MaxFailures} \subseteq Nat \ {0}

\* The records of the vehicle controller.
CcmRecords == [sender : {"ccm"}, state : Held(CcmStates), faults : SUBSET Held(CcmFaults),
               fill : Byte, enumSize : {1, 4}]

\* Records in the logger's own layout, as to_bytes makes them. No node of the car's bus
\* sends them in this commit: test.rs sends one over vcan0, and read_can_synthetic hands one
\* after another to send_message (here, a packet that is read as soon as it arrives). They
\* stand for packets that from_bytes takes, and put the pipeline behind it to use.
LoggerRecords == [sender : {"logger"}, state : Held(DaqStates), faults : SUBSET Held(DaqFaults),
                  fill : Byte, warning : 0..3]

ASSUME RecordsAssumption == Records \subseteq CcmRecords \cup LoggerRecords

VARIABLES
  dbUp,      \* TDengine answers
  arrived,   \* packets that have been on the bus so far: they are 1, 2, ...
  reader,    \* read_can_hardware: "closed", "reading" or "sending"
  socket,    \* the packets the open socket holds: their numbers and records
  offered,   \* the last reading send_message was called with
  ready,     \* TDENGINE is initialised
  channel,   \* the mpsc channel
  mode,      \* of each worker: "connecting", "waiting" or "writing"
  batch,     \* the readings a worker is writing
  fresh,     \* the worker's connection was made since TDengine came up
  failures,  \* consecutive_failures
  copies,    \* history: how often each reading was written
  lost,      \* history: the readings dropped by TrySend or with a failed batch
  missed     \* history: batches a worker failed to write since TDengine is up

readerVars == <<reader, socket, offered, ready>>
workerVars == <<mode, batch, fresh, failures>>
historyVars == <<copies, lost, missed>>
vars == <<dbUp, arrived, readerVars, channel, workerVars, historyVars>>

\* The packets are known by their place in the stream.
Packets == 1..MaxPackets

\* The bytes of a record, in the layout of the vehicle controller or of the logger.
PacketOf(record) ==
    IF record.sender = "ccm"
      THEN CcmPacket(record.state, record.faults, record.fill, record.enumSize)
      ELSE DaqPacket(record.state, record.faults, record.fill, record.warning)

\* The records from_bytes takes without a byte left over.
Readable == {record \in Records : Accepted(PacketOf(record))}

TypeOK ==
    /\ dbUp \in BOOLEAN
    /\ arrived \in 0..MaxPackets
    /\ reader \in {"closed", "reading", "sending"}
    /\ socket \in Seq([n : Packets, record : Records]) /\ Len(socket) <= SocketSize
    /\ offered \in 0..MaxPackets
    /\ ready \in BOOLEAN
    /\ channel \in Seq(Packets) /\ Len(channel) <= ChannelSize
    /\ mode \in [Workers -> {"connecting", "waiting", "writing"}]
    /\ batch \in [Workers -> Seq(Packets)]
    /\ \A w \in Workers : Len(batch[w]) <= BatchSize
    /\ fresh \in [Workers -> BOOLEAN]
    /\ failures \in [Workers -> 0..(MaxFailures - 1)]
    /\ copies \in [Packets -> Nat]
    /\ lost \subseteq Packets
    /\ missed \in [Workers -> Nat]

Init ==
    /\ dbUp \in BOOLEAN
    /\ arrived = 0
    /\ reader = "closed"
    /\ socket = <<>>
    /\ offered = 0
    /\ ready = FALSE
    /\ channel = <<>>
    /\ mode = [w \in Workers |-> "connecting"]
    /\ batch = [w \in Workers |-> <<>>]
    /\ fresh = [w \in Workers |-> FALSE]
    /\ failures = [w \in Workers |-> 0]
    /\ copies = [n \in Packets |-> 0]
    /\ lost = {}
    /\ missed = [w \in Workers |-> 0]

-----------------------------------------------------------------------------
(* read_can_hardware and send_message *)

OpenSocket ==
    /\ reader = "closed"
    /\ reader' = "reading"
    /\ UNCHANGED <<dbUp, arrived, socket, offered, ready, channel, workerVars,
                    historyVars>>

\* read_packet fails: the socket is dropped with what it holds.
ReadFails ==
    /\ reader = "reading"
    /\ reader' = "closed"
    /\ socket' = <<>>
    /\ UNCHANGED <<dbUp, arrived, offered, ready, channel, workerVars, historyVars>>

\* A malformed packet, or one with trailing bytes, is logged and dropped.
ReadMalformed ==
    /\ reader = "reading" /\ socket # <<>>
    /\ Head(socket).record \notin Readable
    /\ socket' = Tail(socket)
    /\ UNCHANGED <<dbUp, arrived, reader, offered, ready, channel, workerVars,
                    historyVars>>

\* Mutant of Read: the packet that came last is read first.
ReadNewest ==
    /\ reader = "reading" /\ socket # <<>>
    /\ LET newest == socket[Len(socket)]
       IN /\ newest.record \in Readable
          /\ offered' = newest.n
    /\ socket' = SubSeq(socket, 1, Len(socket) - 1)
    /\ reader' = "sending"
    /\ UNCHANGED <<dbUp, arrived, ready, channel, workerVars, historyVars>>

\* A reading is offered to MQTT, which queues it or drops it, and send_message
\* goes on to get_tdengine_sender.
Read ==
    /\ reader = "reading" /\ socket # <<>>
    /\ Head(socket).record \in Readable
    /\ socket' = Tail(socket)
    /\ offered' = Head(socket).n
    /\ reader' = "sending"
    /\ UNCHANGED <<dbUp, arrived, ready, channel, workerVars, historyVars>>

\* The first call gets a connection, makes the channel and spawns the workers.
InitSender ==
    /\ reader = "sending" /\ ~ready
    /\ dbUp
    /\ ready' = TRUE
    /\ UNCHANGED <<dbUp, arrived, reader, socket, offered, channel, workerVars,
                    historyVars>>

\* Mutant of TrySend: a full channel drops its oldest reading.
TrySendEvicts ==
    /\ reader = "sending" /\ ready
    /\ reader' = "reading"
    /\ channel' = Append(IF Len(channel) < ChannelSize THEN channel ELSE Tail(channel), offered)
    /\ UNCHANGED <<dbUp, arrived, socket, offered, ready, workerVars, historyVars>>

\* try_send: a reading that finds the channel full is dropped.
TrySend ==
    /\ reader = "sending" /\ ready
    /\ reader' = "reading"
    /\ IF Len(channel) < ChannelSize
         THEN channel' = Append(channel, offered) /\ UNCHANGED lost
         ELSE lost' = lost \cup {offered} /\ UNCHANGED channel
    /\ UNCHANGED <<dbUp, arrived, socket, offered, ready, workerVars, copies, missed>>

Reader == OpenSocket \/ ReadMalformed \/ Read \/ InitSender \/ TrySend

-----------------------------------------------------------------------------
(* The workers *)

\* connect_with_retry returns.
Connect(w) ==
    /\ ready /\ dbUp
    /\ mode[w] = "connecting"
    /\ mode' = [mode EXCEPT ![w] = "waiting"]
    /\ fresh' = [fresh EXCEPT ![w] = TRUE]
    /\ failures' = [failures EXCEPT ![w] = 0]
    /\ UNCHANGED <<dbUp, arrived, readerVars, channel, batch, historyVars>>

\* The number of readings recv_many takes at once.
Taken == IF Len(channel) < BatchSize THEN Len(channel) ELSE BatchSize

\* Mutant of Receive: the worker waits for a full batch.
ReceiveFull(w) ==
    /\ mode[w] = "waiting"
    /\ Len(channel) >= BatchSize
    /\ batch' = [batch EXCEPT ![w] = SubSeq(channel, 1, Taken)]
    /\ channel' = SubSeq(channel, Taken + 1, Len(channel))
    /\ mode' = [mode EXCEPT ![w] = "writing"]
    /\ UNCHANGED <<dbUp, arrived, readerVars, fresh, failures, historyVars>>

\* recv_many under the lock of the receiver, which is released before the write.
Receive(w) ==
    /\ mode[w] = "waiting"
    /\ channel # <<>>
    /\ batch' = [batch EXCEPT ![w] = SubSeq(channel, 1, Taken)]
    /\ channel' = SubSeq(channel, Taken + 1, Len(channel))
    /\ mode' = [mode EXCEPT ![w] = "writing"]
    /\ UNCHANGED <<dbUp, arrived, readerVars, fresh, failures, historyVars>>

\* The readings of batch[w] are written.
Written(w) == [n \in Packets |-> IF n \in Held(batch[w]) THEN copies[n] + 1 ELSE copies[n]]

\* put succeeds.
PutSucceeds(w) ==
    /\ mode[w] = "writing"
    /\ dbUp /\ fresh[w]
    /\ copies' = Written(w)
    /\ failures' = [failures EXCEPT ![w] = 0]
    /\ mode' = [mode EXCEPT ![w] = "waiting"]
    /\ batch' = [batch EXCEPT ![w] = <<>>]
    /\ UNCHANGED <<dbUp, arrived, readerVars, channel, fresh, lost, missed>>

\* Mutant of AfterFailure: the worker keeps its connection.
AfterFailureNever(w) ==
    /\ failures' = failures
    /\ mode' = [mode EXCEPT ![w] = "waiting"]

\* Mutant of AfterFailure: one failure more is allowed.
AfterFailureLate(w) ==
    /\ failures' = [failures EXCEPT ![w] = failures[w] + 1]
    /\ mode' = [mode EXCEPT ![w] = IF failures[w] + 1 > MaxFailures THEN "connecting" ELSE "waiting"]

\* One more failure; the worker reconnects after MAX_CONSECUTIVE_FAILURES.
AfterFailure(w) ==
    IF failures[w] + 1 >= MaxFailures
      THEN /\ mode' = [mode EXCEPT ![w] = "connecting"]
           /\ failures' = [failures EXCEPT ![w] = 0]
      ELSE /\ mode' = [mode EXCEPT ![w] = "waiting"]
           /\ failures' = [failures EXCEPT ![w] = failures[w] + 1]

\* The history of missed: a failure over a stale connection to a running TDengine.
CountMissed(w) ==
    missed' = [missed EXCEPT ![w] = IF dbUp /\ ~fresh[w] THEN missed[w] + 1 ELSE missed[w]]

\* Mutant of PutFails: the batch stays in the buffer and is written again.
PutFailsRetry(w) ==
    /\ mode[w] = "writing"
    /\ copies' \in {copies, Written(w)}
    /\ UNCHANGED <<dbUp, arrived, readerVars, channel, workerVars, lost, missed>>

\* put fails, whatever the reason: the batch is dropped, but it may have been written.
PutFails(w) ==
    /\ mode[w] = "writing"
    /\ \/ lost' = lost \cup Held(batch[w]) /\ UNCHANGED copies
       \/ copies' = Written(w) /\ UNCHANGED lost
    /\ AfterFailure(w)
    /\ batch' = [batch EXCEPT ![w] = <<>>]
    /\ CountMissed(w)
    /\ UNCHANGED <<dbUp, arrived, readerVars, channel, fresh>>

Worker(w) == Connect(w) \/ Receive(w) \/ PutSucceeds(w) \/ PutFails(w)

-----------------------------------------------------------------------------
(* Environment *)

\* threadTelemetry, or another sender, sends a record. A socket that is closed or full does
\* not get it.
Arrive(record) ==
    /\ arrived < MaxPackets
    /\ arrived' = arrived + 1
    /\ socket' = IF reader # "closed" /\ Len(socket) < SocketSize
                   THEN Append(socket, [n |-> arrived', record |-> record]) ELSE socket
    /\ UNCHANGED <<dbUp, reader, offered, ready, channel, workerVars, historyVars>>

DbComesUp ==
    /\ ~dbUp
    /\ dbUp' = TRUE
    /\ fresh' = [w \in Workers |-> FALSE]
    /\ missed' = [w \in Workers |-> 0]
    /\ UNCHANGED <<arrived, readerVars, channel, mode, batch, failures, copies, lost>>

DbGoesDown ==
    /\ dbUp
    /\ dbUp' = FALSE
    /\ UNCHANGED <<arrived, readerVars, channel, workerVars, historyVars>>

Next == \/ Reader \/ ReadFails \/ DbComesUp \/ DbGoesDown
        \/ \E record \in Records : Arrive(record)
        \/ \E w \in Workers : Worker(w)

Spec == Init /\ [][Next]_vars

\* The tasks of the runtime make progress. Nothing makes TDengine come up.
Fairness == WF_vars(Reader) /\ \A w \in Workers : WF_vars(Worker(w))

FairSpec == Spec /\ Fairness

-----------------------------------------------------------------------------
(* Safety *)

InFlight(n) == n \in Held(channel) \/ \E w \in Workers : n \in Held(batch[w])

\* A reading is written once at most, and one that is on its way has been neither
\* written nor given up: workers never share readings, and failures never repeat them.
WrittenOnce == \A n \in Packets : copies[n] + (IF n \in lost THEN 1 ELSE 0)
                                    + (IF InFlight(n) THEN 1 ELSE 0) <= 1

\* A reading that is on its way stays there until it is written or given up: no
\* hand-over between reader, channel and workers loses one.
NothingVanishes ==
    [][ \A n \in Packets : InFlight(n) /\ ~InFlight(n)' => copies'[n] > 0 \/ n \in lost' ]_vars

\* What an outage of TDengine costs after it is over: a worker wastes no more than
\* MAX_CONSECUTIVE_FAILURES batches on the connection it had before.
OutageIsBounded == \A w \in Workers : missed[w] <= MaxFailures

-----------------------------------------------------------------------------
(* What the logger implements *)

Pending == {n \in Packets : InFlight(n)}
Stored == {n \in Packets : copies[n] > 0}

\* Seen from outside, the logger is a store (module Store) that takes readings in the order
\* they arrived in, and writes or loses each one that it took, once.
Promise == INSTANCE Store WITH
    Readings <- Packets,
    pending  <- Pending,
    written  <- Stored

StorePromise == Promise!Spec

-----------------------------------------------------------------------------
(* Liveness *)

\* Once TDengine answers for good, all that has arrived is read and taken care of.
Drains ==
    <>[]dbUp => <>[](/\ socket = <<>> /\ reader # "sending"
                     /\ channel = <<>> /\ \A w \in Workers : batch[w] = <<>>)

-----------------------------------------------------------------------------
(* What the sources say and the program does not do *)

\* "Telemetry data record produced by the motor controller. Parsed from the
\* CAN_PACKET_SIZE-byte ISO-TP frame received over CAN." (can.rs:166): a packet of the
\* vehicle controller that is taken off the socket is parsed and handed on.
CcmPacketIsRead ==
    [][ \A i \in DOMAIN socket :
          i = 1 /\ socket[i].record.sender = "ccm" /\ reader' # "closed" /\ socket' = Tail(socket)
            => reader' = "sending" ]_vars
=============================================================================
