---------------------------- MODULE PulseBuffer ----------------------------
(***************************************************************************)
(* The pulse buffer of the board (borad/main/buffer.cpp): the Arduino loop *)
(* task puts a pulse into a FreeRTOS queue, SenderTask empties the queue   *)
(* into a vector and hands the vector to the web side.                     *)
(*                                                                         *)
(* The web side is the environment here: initWeb returns either answer and *)
(* sendData2Web returns after any time (its result is ignored by the       *)
(* code).  WebInit and DataUpload model it; FoxDen composes the three.     *)
(***************************************************************************)
EXTENDS Naturals, Sequences

CONSTANTS
    Pins,        \* the GPIO pins that meters are wired to (GPIOPin)
    QueueSize,   \* MAX_PULSE_SIZE
    SendSize,    \* MAX_PULSE_SIZE_WHEN_SEND
    SendTime,    \* MAX_PULSE_TIME_WHEN_SEND, in units of the clock "now"
    MaxPulses,   \* bound: pulses a behaviour senses
    MaxTime,     \* bound: last value of the clock since a boot
    MaxReboots   \* bound: losses of power

ASSUME QueueSizeAssumption == QueueSize \in Nat \ {0}
ASSUME SendSizeAssumption  == SendSize \in Nat \ {0} /\ SendSize <= QueueSize
ASSUME SendTimeAssumption  == SendTime \in Nat
ASSUME BoundsAssumption ==
    MaxPulses \in Nat /\ MaxTime \in Nat \ {0} /\ MaxReboots \in Nat

VARIABLES
    loopPc,        \* the loop task inside putData2Buffer
    putting,       \* <<p>> while xQueueSendToBack holds p, else <<>>
    queue,         \* pulseQueue
    mutexFree,     \* queueMutex can be taken
    lastQueuePut,  \* lastQueuePut, 0 until it is first written
    now,           \* millis(), coarsened
    pc,            \* SenderTask
    queueSize,     \* its local queueSize
    batch,         \* its local pulseArray
    sensed,        \* history: pulses sensed since the meter was installed
    handed,        \* history: pulses given to sendData2Web, in order
    reboots        \* history: number of restarts

loopVars   == <<loopPc, putting, lastQueuePut, sensed>>
senderVars == <<pc, queueSize, batch, handed>>
vars == <<loopPc, putting, queue, mutexFree, lastQueuePut, now,
          pc, queueSize, batch, sensed, handed, reboots>>

\* The id is a history component: it tells two pulses of one pin apart.
Pulse == [id : 1..MaxPulses, pin : Pins]

-----------------------------------------------------------------------------
(* Statics of buffer.cpp after initBuffer: xSemaphoreCreateBinary creates  *)
(* the semaphore empty, and nothing gives it before the first take.        *)
Init ==
    /\ loopPc = "poll"
    /\ putting = <<>>
    /\ queue = <<>>
    /\ mutexFree = FALSE
    /\ lastQueuePut = 0
    /\ now = 1
    /\ pc = "delay"
    /\ queueSize = 0
    /\ batch = <<>>
    /\ sensed = 0
    /\ handed = <<>>
    /\ reboots = 0


-----------------------------------------------------------------------------
(* The loop task.                                                          *)

\* loop() saw the contact close and calls putData2Buffer.
Sense(pin) ==
    /\ loopPc = "poll"
    /\ sensed < MaxPulses
    /\ sensed' = sensed + 1
    /\ putting' = <<[id |-> sensed + 1, pin |-> pin]>>
    /\ loopPc' = "put"
    /\ UNCHANGED <<queue, mutexFree, lastQueuePut, now, senderVars, reboots>>

\* Mutant of PutAccepted: the capacity of the queue is off by one.
PutAcceptedBeyond ==
    /\ loopPc = "put"
    /\ Len(queue) <= QueueSize
    /\ queue' = queue \o putting
    /\ putting' = <<>>
    /\ loopPc' = "mark"
    /\ UNCHANGED <<mutexFree, lastQueuePut, now, senderVars, sensed, reboots>>

\* xQueueSendToBack finds room, at once or within PULSE_MAX_DELAY ticks.
PutAccepted ==
    /\ loopPc = "put"
    /\ Len(queue) < QueueSize
    /\ queue' = queue \o putting
    /\ putting' = <<>>
    /\ loopPc' = "mark"
    /\ UNCHANGED <<mutexFree, lastQueuePut, now, senderVars, sensed, reboots>>

\* Mutant of PutTimedOut: the put does not wait for room.
PutGivesUp ==
    /\ loopPc = "put"
    /\ putting' = <<>>
    /\ loopPc' = "poll"
    /\ UNCHANGED <<queue, mutexFree, lastQueuePut, now, senderVars, sensed, reboots>>

\* The queue stayed full for PULSE_MAX_DELAY ticks: the pulse is dropped.
PutTimedOut ==
    /\ loopPc = "put"
    /\ Len(queue) = QueueSize
    /\ putting' = <<>>
    /\ loopPc' = "poll"
    /\ UNCHANGED <<queue, mutexFree, lastQueuePut, now, senderVars, sensed, reboots>>

\* The critical section of putData2Buffer, skipped when the take fails.
MarkPut ==
    /\ loopPc = "mark"
    /\ lastQueuePut' = IF mutexFree THEN now ELSE lastQueuePut
    /\ loopPc' = "poll"
    /\ UNCHANGED <<putting, queue, mutexFree, now, senderVars, sensed, reboots>>

-----------------------------------------------------------------------------
(* SenderTask.                                                             *)

\* Mutant of ReadQueueSize: an empty queue does not reset the reading.
ReadQueueSizeOnce ==
    /\ pc = "delay"
    /\ queueSize' = IF queue = <<>> THEN queueSize ELSE Len(queue)
    /\ pc' = "decide"
    /\ UNCHANGED <<loopVars, queue, mutexFree, now, batch, handed, reboots>>

ReadQueueSize ==
    /\ pc = "delay"
    /\ queueSize' = Len(queue)
    /\ pc' = "decide"
    /\ UNCHANGED <<loopVars, queue, mutexFree, now, batch, handed, reboots>>

\* last_queue_access stays 0 when the take fails.
LastQueueAccess == IF mutexFree THEN lastQueuePut ELSE 0

\* Mutants of TimeToSend: the comparison is off by one, either way.
TimeToSendEarly == queueSize + 1 >= SendSize /\ queueSize > 0
TimeToSendLate  == queueSize > SendSize

TimeToSend ==
    \/ queueSize >= SendSize
    \/ queueSize > 0 /\ LastQueueAccess > 0 /\ now - LastQueueAccess > SendTime

Decide ==
    /\ pc = "decide"
    /\ pc' = IF TimeToSend THEN "initWeb" ELSE "delay"
    /\ UNCHANGED <<loopVars, queue, mutexFree, now, queueSize, batch, handed, reboots>>

InitWebReturns(ok) ==
    /\ pc = "initWeb"
    /\ pc' = IF ok THEN "drain" ELSE "delay"
    /\ UNCHANGED <<loopVars, queue, mutexFree, now, queueSize, batch, handed, reboots>>

\* Mutant of ReceivePulse: the vector is filled from the front.
ReceivePulseReversed ==
    /\ pc = "drain"
    /\ queue # <<>>
    /\ batch' = <<Head(queue)>> \o batch
    /\ queue' = Tail(queue)
    /\ UNCHANGED <<loopVars, mutexFree, now, pc, queueSize, handed, reboots>>

ReceivePulse ==
    /\ pc = "drain"
    /\ queue # <<>>
    /\ batch' = Append(batch, Head(queue))
    /\ queue' = Tail(queue)
    /\ UNCHANGED <<loopVars, mutexFree, now, pc, queueSize, handed, reboots>>

\* No pulse for PULSE_MAX_DELAY ticks ends the loop over xQueueReceive.
ReceiveTimedOut ==
    /\ pc = "drain"
    /\ queue = <<>>
    /\ pc' = IF batch # <<>> THEN "send" ELSE "delay"
    /\ UNCHANGED <<loopVars, queue, mutexFree, now, queueSize, batch, handed, reboots>>

\* Mutant of SendBatch: the vector outlives the session.
SendBatchKept ==
    /\ pc = "send"
    /\ handed' = handed \o batch
    /\ pc' = "web"
    /\ UNCHANGED <<loopVars, queue, mutexFree, now, queueSize, batch, reboots>>

\* The vector goes to sendData2Web by value; the task's copy dies with its scope.
SendBatch ==
    /\ pc = "send"
    /\ handed' = handed \o batch
    /\ batch' = <<>>
    /\ pc' = "web"
    /\ UNCHANGED <<loopVars, queue, mutexFree, now, queueSize, reboots>>

\* Whatever sendData2Web returned is ignored; Disconnect() follows.
SendReturns ==
    /\ pc = "web"
    /\ pc' = "delay"
    /\ UNCHANGED <<loopVars, queue, mutexFree, now, queueSize, batch, handed, reboots>>

-----------------------------------------------------------------------------
Tick ==
    /\ now < MaxTime
    /\ now' = now + 1
    /\ UNCHANGED <<loopVars, queue, mutexFree, senderVars, reboots>>

\* Loss of power: everything above lives in RAM.
Reboot ==
    /\ reboots < MaxReboots
    /\ reboots' = reboots + 1
    /\ loopPc' = "poll"
    /\ putting' = <<>>
    /\ queue' = <<>>
    /\ mutexFree' = FALSE
    /\ lastQueuePut' = 0
    /\ now' = 1
    /\ pc' = "delay"
    /\ queueSize' = 0
    /\ batch' = <<>>
    /\ UNCHANGED <<sensed, handed>>

Loop == (\E pin \in Pins : Sense(pin)) \/ PutAccepted \/ PutTimedOut \/ MarkPut

Sender ==
    \/ ReadQueueSize \/ Decide
    \/ \E ok \in BOOLEAN : InitWebReturns(ok)
    \/ ReceivePulse \/ ReceiveTimedOut \/ SendBatch \/ SendReturns

Next == Loop \/ Sender \/ Tick \/ Reboot

Spec == Init /\ [][Next]_vars

(* FreeRTOS runs a ready task; every wait of SenderTask is bounded by a    *)
(* timeout.  WiFi that is offered again and again is joined at last.       *)
Fairness == WF_vars(Sender) /\ SF_vars(InitWebReturns(TRUE))
FairSpec == Spec /\ Fairness

-----------------------------------------------------------------------------
(* Properties.                                                             *)

IdsOf(s) == {s[i].id : i \in DOMAIN s}

TypeOK ==
    /\ loopPc \in {"poll", "put", "mark"}
    /\ putting \in Seq(Pulse) /\ Len(putting) <= 1
    /\ queue \in Seq(Pulse) /\ Len(queue) <= QueueSize
    /\ mutexFree \in BOOLEAN
    /\ lastQueuePut \in 0..MaxTime
    /\ now \in 1..MaxTime
    /\ pc \in {"delay", "decide", "initWeb", "drain", "send", "web"}
    /\ queueSize \in 0..QueueSize
    /\ batch \in Seq(Pulse)
    /\ sensed \in 0..MaxPulses
    /\ handed \in Seq(Pulse)
    /\ reboots \in 0..MaxReboots

\* All pulses the buffer still answers for, oldest first.
Pipeline == handed \o batch \o queue \o putting

\* Pulses reach sendData2Web in the order in which they were sensed and none
\* twice, whatever the interleaving of the two tasks and the restarts
\* (putData2Buffer and the xQueueReceive loop of SenderTask).
InSensedOrder ==
    \A i, j \in DOMAIN Pipeline : i < j => Pipeline[i].id < Pipeline[j].id

Missing == (1..sensed) \ IdsOf(Pipeline)

\* A pulse disappears from the board only by a loss of power, or alone, at a
\* queue that is full: no step of SenderTask loses one (buffer.cpp:91-102).
LostOnlyWhenFull ==
    [][Missing' # Missing =>
         \/ reboots' # reboots
         \/ Len(queue) = QueueSize /\ Missing' = Missing \cup IdsOf(putting)]_vars

\* A WiFi session that initWeb opened always finds a pulse to send, although
\* queueSize is an old reading: so Disconnect() always ends it
\* (buffer.cpp:42-45 skips Disconnect for an empty vector).
SessionHasPulse == pc \in {"initWeb", "drain"} => queue # <<>> \/ batch # <<>>

\* The half-hour limit never opens a session: each one starts from a reading
\* of at least SendSize pulses, because queueMutex is never available
\* (buffer.cpp:67, 26, 93).  So lastQueuePut is not what the comments at lines
\* 8 and 23 call it, the time of the last write to the queue, and a lone pulse
\* waits for the next one.
OnlyFullBatches == pc \in {"initWeb", "drain"} => queueSize >= SendSize

\* A backlog of SendSize pulses is eventually taken off the queue as long as
\* WiFi can be joined now and again.
BacklogIsDrained == Len(queue) >= SendSize ~> Len(queue) < SendSize
=============================================================================
