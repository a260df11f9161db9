------------------------------- MODULE FoxDen -------------------------------
(***************************************************************************)
(* From the contact of a meter to the tables of the server: the upload and *)
(* the endpoints of the server (DataUpload, MeterServer), extended by what *)
(* DataUpload takes for its environment: the loop task and SenderTask of   *)
(* the board (PulseBuffer) and the WiFi session that SenderTask opens      *)
(* (WebInit).  SenderTask's calls and returns are joint steps of two       *)
(* components.                                                             *)
(***************************************************************************)
EXTENDS DataUpload

CONSTANTS
    QueueSize, SendSize, SendTime, MaxTime, MaxReboots,   \* of PulseBuffer
    LinkDrops                                             \* of WebInit

ASSUME BufferAssumption ==
    /\ QueueSize \in Nat \ {0}
    /\ SendSize \in Nat \ {0} /\ SendSize <= QueueSize
    /\ SendTime \in Nat
    /\ MaxTime \in Nat \ {0} /\ MaxReboots \in Nat
ASSUME LinkAssumption == LinkDrops \in BOOLEAN

VARIABLES
    loopPc, putting, queue, mutexFree, lastQueuePut, now,
    pc, queueSize, batch, sensed, handed, reboots,         \* of PulseBuffer
    web, isReadMac, isWIFIConnect, isSynchronized, sntpStarted   \* of WebInit

Buffer == INSTANCE PulseBuffer

Web == INSTANCE WebInit

bufferVars == <<loopPc, putting, queue, mutexFree, lastQueuePut, now,
                pc, queueSize, batch, sensed, handed, reboots>>
webVars    == <<web, isReadMac, isWIFIConnect, isSynchronized, sntpStarted, online>>
uploadVars == <<serverVars, clientVars>>
systemVars == <<bufferVars, webVars, uploadVars>>

SystemInit == Buffer!Init /\ Web!Init /\ Init

-----------------------------------------------------------------------------
(* Steps of one component.                                                 *)

LoopStep == (Buffer!Loop \/ Buffer!Tick) /\ UNCHANGED <<webVars, uploadVars>>

BufferStep ==
    /\ Buffer!ReadQueueSize \/ Buffer!ReceivePulse \/ Buffer!ReceiveTimedOut
    /\ UNCHANGED <<webVars, uploadVars>>

WebStep == (Web!Steps \/ Web!Network) /\ UNCHANGED <<bufferVars, uploadVars>>

UploadStep == Work /\ UNCHANGED <<bufferVars, webVars>>

ServerStep == Server /\ UNCHANGED <<bufferVars, webVars, clientVars>>

EnvironmentStep == Environment /\ UNCHANGED <<bufferVars, webVars, clientVars>>

(* Calls and returns of SenderTask.                                        *)

Decide ==
    /\ Buffer!Decide
    /\ IF Buffer!TimeToSend THEN Web!Call ELSE UNCHANGED webVars
    /\ UNCHANGED uploadVars

InitWebReturns(ok) ==
    /\ Buffer!InitWebReturns(ok)
    /\ Web!Return(ok)
    /\ UNCHANGED uploadVars

SendBatch ==
    /\ Buffer!SendBatch
    /\ Call(batch)
    /\ UNCHANGED webVars

SendReturns ==
    /\ Buffer!SendReturns
    /\ Web!Disconnect
    /\ Return

\* A loss of power takes the whole board.
Reboot == Buffer!Reboot /\ Web!Restart /\ Restart

SenderCalls ==
    \/ Decide \/ (\E ok \in BOOLEAN : InitWebReturns(ok))
    \/ SendBatch \/ SendReturns

SystemNext ==
    \/ LoopStep \/ BufferStep \/ WebStep \/ UploadStep \/ SenderCalls \/ Reboot
    \/ ServerStep \/ EnvironmentStep

SystemSpec == SystemInit /\ [][SystemNext]_systemVars

\* FreeRTOS runs SenderTask, which waits for nothing without a timeout, and
\* the threads of the server finish the requests that reach it.
SystemFairSpec ==
    /\ SystemSpec
    /\ WF_systemVars(BufferStep \/ WebStep \/ UploadStep \/ SenderCalls)
    /\ WF_systemVars(ServerStep)

-----------------------------------------------------------------------------
(* Properties.                                                             *)

\* A session that initWeb accepted always ends with the radio off, although
\* Disconnect() is skipped for an empty vector and queueSize is an old reading
\* when the queue is drained (buffer.cpp:25-46).
SessionEndsOffline ==
    [][(pc \in {"drain", "send", "web"} /\ pc' = "delay") => online' = FALSE]_systemVars

IdsIn(s) == {s[i].id : i \in DOMAIN s}

\* A pulse is in one place only: the vector of an upload and what is recorded
\* hold no pulse that the buffer still has.
OnePlace ==
    IdsIn(queue \o putting \o batch) \cap (IdsIn(pulses) \cup InFlight \cup IdsIn(changes)) = {}

Promise == INSTANCE MeterReading WITH
    Pulses   <- 1..MaxPulses,
    sensed   <- 1..sensed,
    waiting  <- (IdsIn(putting \o queue \o batch) \cup IdsIn(pulses) \cup InFlight)
                  \ IdsIn(changes),
    recorded <- [p \in 1..MaxPulses |-> Cardinality({i \in DOMAIN changes : changes[i].id = p})]

\* From the contact to the table, every pulse is recorded at most once and
\* never comes back once it is lost.
KeepsPromise == Promise!Spec

\* When nothing fails but session keys expire between uploads, each pulse of a
\* backlog of SendSize ends up in the table (its pin has a device, the address
\* ends with "/"): no wake-up of SenderTask is lost on the way.
BacklogIsRecorded ==
    \A p \in 1..MaxPulses :
        (slash /\ Len(queue) >= SendSize /\ p \in IdsIn(queue)) ~> p \in IdsIn(changes)

\* When no request times out and no power is lost, rows are committed in the
\* order in which the meter gave the pulses.
RecordedInOrder ==
    ~Faults /\ MaxReboots = 0 =>
        \A i, j \in DOMAIN changes : i < j => changes[i].id < changes[j].id

\* SenderTask calls sendData2Web only the way DataUpload assumes: one call at a
\* time, each with new pulses in order.  So what the runs of DataUpload show
\* holds of the whole.
ImplementsUpload == Spec
=============================================================================
