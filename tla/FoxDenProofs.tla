---------------------------- MODULE FoxDenProofs ----------------------------
(***************************************************************************)
(* Proofs about FoxDen, for every bound, queue and set of devices: the     *)
(* components called by one another keep what was proved of each of them   *)
(* alone, and the whole keeps the promise of MeterReading.                 *)
(***************************************************************************)
EXTENDS FoxDen, DataUploadProofs

\* FoxDen begins behind the contacts: nothing that PulseBufferProofs says of
\* them is used.
BufferProofs == INSTANCE PulseBufferProofs WITH
    unstable <- {}, debounced <- {}, turn <- 0, uncounted <- {}

-----------------------------------------------------------------------------
(* The lemmas about PulseBuffer that the composition needs.                *)

LEMMA BufferConstants ==
    /\ QueueSize \in Nat \ {0}
    /\ SendSize \in Nat \ {0} /\ SendSize <= QueueSize
    /\ SendTime \in Nat
    /\ MaxPulses \in Nat /\ MaxTime \in Nat \ {0} /\ MaxReboots \in Nat
    /\ Pins \subseteq Nat /\ 0 \in Pins
    BY BufferAssumption, UploadBoundsAssumption, PinsAssumption

BufferInv == BufferProofs!OrderInv /\ BufferProofs!SessionInv

LEMMA SameInit == Buffer!Init => BufferProofs!Init
    BY DEF Buffer!Init, BufferProofs!Init

LEMMA BufferInitially == Buffer!Init => BufferInv
<1> SUFFICES ASSUME Buffer!Init PROVE BufferInv
    OBVIOUS
<1>1. BufferProofs!Init
    BY SameInit
<1>2. BufferProofs!OrderInv
    BY <1>1, BufferConstants, BufferProofs!OrderInit
<1>3. BufferProofs!TypeOK
    BY <1>2 DEF BufferProofs!OrderInv
<1>4. BufferProofs!Session
    BY <1>1 DEF BufferProofs!Init, BufferProofs!Session
<1>. QED
    BY <1>2, <1>3, <1>4 DEF BufferInv, BufferProofs!SessionInv

BufferMove == BufferProofs!Next \/ UNCHANGED BufferProofs!vars

LEMMA BufferNext == BufferInv /\ BufferMove => BufferInv'
    BY BufferConstants, BufferProofs!OrderNext, BufferProofs!SessionNext DEF BufferInv, BufferMove

\* The steps of the instance in FoxDen are those that the proofs are about.
LEMMA BufferSteps ==
    /\ Buffer!Loop => BufferProofs!Loop
    /\ Buffer!Tick => BufferProofs!Tick
    /\ Buffer!ReadQueueSize => BufferProofs!ReadQueueSize
    /\ Buffer!Decide => BufferProofs!Decide
    /\ Buffer!ReceivePulse => BufferProofs!ReceivePulse
    /\ Buffer!ReceiveTimedOut => BufferProofs!ReceiveTimedOut
    /\ Buffer!SendBatch => BufferProofs!SendBatch
    /\ Buffer!SendReturns => BufferProofs!SendReturns
    /\ Buffer!Reboot => BufferProofs!Reboot
    /\ \A ok \in BOOLEAN : Buffer!InitWebReturns(ok) => BufferProofs!InitWebReturns(ok)
<1>1. Buffer!Loop => BufferProofs!Loop
    BY DEF Buffer!Loop, BufferProofs!Loop, Buffer!Sense, BufferProofs!Sense,
           Buffer!PutAccepted, BufferProofs!PutAccepted,
           Buffer!PutTimedOut, BufferProofs!PutTimedOut,
           Buffer!MarkPut, BufferProofs!MarkPut, Buffer!senderVars, BufferProofs!senderVars
<1>2. /\ Buffer!Tick => BufferProofs!Tick
      /\ Buffer!Reboot => BufferProofs!Reboot
    BY DEF Buffer!Tick, BufferProofs!Tick, Buffer!Reboot, BufferProofs!Reboot,
           Buffer!loopVars, BufferProofs!loopVars, Buffer!senderVars, BufferProofs!senderVars
<1>3. Buffer!Decide => BufferProofs!Decide
    BY DEF Buffer!Decide, BufferProofs!Decide, Buffer!TimeToSend, BufferProofs!TimeToSend,
           Buffer!LastQueueAccess, BufferProofs!LastQueueAccess,
           Buffer!loopVars, BufferProofs!loopVars
<1>4. /\ Buffer!ReadQueueSize => BufferProofs!ReadQueueSize
      /\ Buffer!ReceivePulse => BufferProofs!ReceivePulse
      /\ Buffer!ReceiveTimedOut => BufferProofs!ReceiveTimedOut
    BY DEF Buffer!ReadQueueSize, BufferProofs!ReadQueueSize,
           Buffer!ReceivePulse, BufferProofs!ReceivePulse,
           Buffer!ReceiveTimedOut, BufferProofs!ReceiveTimedOut,
           Buffer!loopVars, BufferProofs!loopVars
<1>5. /\ Buffer!SendBatch => BufferProofs!SendBatch
      /\ Buffer!SendReturns => BufferProofs!SendReturns
      /\ \A ok \in BOOLEAN : Buffer!InitWebReturns(ok) => BufferProofs!InitWebReturns(ok)
    BY DEF Buffer!SendBatch, BufferProofs!SendBatch, Buffer!SendReturns, BufferProofs!SendReturns,
           Buffer!InitWebReturns, BufferProofs!InitWebReturns,
           Buffer!loopVars, BufferProofs!loopVars
<1>. QED
    BY <1>1, <1>2, <1>3, <1>4, <1>5

LEMMA SystemMovesBuffer == SystemNext => BufferMove
<1>1. UNCHANGED bufferVars => UNCHANGED BufferProofs!vars
    BY DEF bufferVars, BufferProofs!vars
<1>2. LoopStep \/ BufferStep \/ SenderCalls \/ Reboot => BufferProofs!Next
    BY BufferSteps DEF LoopStep, BufferStep, SenderCalls, Decide, InitWebReturns, SendBatch,
       SendReturns, Reboot, BufferProofs!Next, BufferProofs!Sender
<1>3. WebStep \/ UploadStep \/ ServerStep \/ EnvironmentStep => UNCHANGED bufferVars
    BY DEF WebStep, UploadStep, ServerStep, EnvironmentStep
<1>. QED
    BY <1>1, <1>2, <1>3 DEF SystemNext, BufferMove

-----------------------------------------------------------------------------
(* What the order of the buffer says of its parts.                         *)

LEMMA RisingParts ==
    ASSUME NEW s, NEW t, IsRows(s), IsRows(t), Rising(s \o t)
    PROVE  Rising(s) /\ Rising(t) /\ \A m \in Ids(s), n \in Ids(t) : m < n
<1>1. /\ Len(s) \in Nat /\ DOMAIN s = 1..Len(s)
      /\ Len(t) \in Nat /\ DOMAIN t = 1..Len(t)
      /\ DOMAIN (s \o t) = 1..(Len(s) + Len(t))
      /\ \A i \in 1..Len(s) : (s \o t)[i] = s[i]
      /\ \A i \in 1..Len(t) : (s \o t)[Len(s) + i] = t[i]
    BY RowsDomain, ConcatRows
<1>2. \A i \in DOMAIN s : i \in DOMAIN (s \o t) /\ (s \o t)[i] = s[i]
    BY <1>1
<1>3. \A i \in DOMAIN t : Len(s) + i \in DOMAIN (s \o t) /\ (s \o t)[Len(s) + i] = t[i]
    BY <1>1
<1>4. Rising(s)
    BY <1>2 DEF Rising
<1>5. Rising(t)
  <2> SUFFICES ASSUME NEW i \in DOMAIN t, NEW j \in DOMAIN t, i < j PROVE t[i].id < t[j].id
      BY DEF Rising
  <2>1. Len(s) + i < Len(s) + j
      BY <1>1
  <2>. QED
      BY <1>3, <2>1 DEF Rising
<1>6. ASSUME NEW i \in DOMAIN s, NEW j \in DOMAIN t PROVE s[i].id < t[j].id
  <2>1. i < Len(s) + j
      BY <1>1
  <2>. QED
      BY <1>2, <1>3, <2>1 DEF Rising
<1>. QED
    BY <1>4, <1>5, <1>6 DEF Ids

LEMMA PulsesAreRows ==
    ASSUME NEW s \in Seq(BufferProofs!Pulse)
    PROVE  /\ IsRows(s)
           /\ \A i \in DOMAIN s : s[i].id \in 1..MaxPulses /\ s[i].pin \in Pins
<1>1. DOMAIN s = 1..Len(s) /\ \A i \in 1..Len(s) : s[i] \in BufferProofs!Pulse
    BY LenProperties, ElementOfSeq
<1>2. \A i \in 1..Len(s) : s[i] \in Elements(s)
    BY <1>1 DEF Elements
<1>. QED
    BY <1>1, <1>2, SeqInto DEF IsRows, BufferProofs!Pulse

\* What is handed over is older than what the buffer still has.
LEMMA PipelineParts ==
    ASSUME BufferInv
    PROVE  /\ IsRows(handed) /\ IsRows(batch) /\ IsRows(queue) /\ IsRows(putting)
           /\ Rising(batch)
           /\ \A m \in Ids(handed), n \in Ids(batch) \cup Ids(queue) \cup Ids(putting) : m < n
           /\ Ids(handed) \cup Ids(batch) \cup Ids(queue) \cup Ids(putting) \subseteq 1..sensed
           /\ sensed \in 0..MaxPulses
<1>1. /\ handed \in Seq(BufferProofs!Pulse) /\ batch \in Seq(BufferProofs!Pulse)
      /\ queue \in Seq(BufferProofs!Pulse) /\ putting \in Seq(BufferProofs!Pulse)
      /\ sensed \in 0..MaxPulses
    BY DEF BufferInv, BufferProofs!OrderInv, BufferProofs!TypeOK
<1>2. IsRows(handed) /\ IsRows(batch) /\ IsRows(queue) /\ IsRows(putting)
    BY <1>1, PulsesAreRows
<1>3. IsRows(handed \o batch) /\ IsRows(handed \o batch \o queue)
    BY <1>2, ConcatRows
<1>4. Rising(handed \o batch \o queue \o putting)
    BY DEF BufferInv, BufferProofs!OrderInv, BufferProofs!InSensedOrder, BufferProofs!Pipeline,
           Rising
<1>5. /\ Rising(handed \o batch \o queue)
      /\ \A m \in Ids(handed \o batch \o queue), n \in Ids(putting) : m < n
    BY <1>2, <1>3, <1>4, RisingParts
<1>6. /\ Rising(handed \o batch)
      /\ \A m \in Ids(handed \o batch), n \in Ids(queue) : m < n
    BY <1>2, <1>3, <1>5, RisingParts
<1>7. Rising(batch) /\ \A m \in Ids(handed), n \in Ids(batch) : m < n
    BY <1>2, <1>6, RisingParts
<1>8. /\ Ids(handed \o batch) = Ids(handed) \cup Ids(batch)
      /\ Ids(handed \o batch \o queue) = Ids(handed \o batch) \cup Ids(queue)
      /\ Ids(handed \o batch \o queue \o putting) = Ids(handed \o batch \o queue) \cup Ids(putting)
    BY <1>2, <1>3, ConcatIds
<1>9. \A n \in Ids(handed \o batch \o queue \o putting) : n <= sensed
    BY DEF BufferInv, BufferProofs!OrderInv, BufferProofs!NoneNewer, BufferProofs!Pipeline, Ids
<1>10. Ids(handed) \cup Ids(batch) \cup Ids(queue) \cup Ids(putting) \subseteq 1..MaxPulses
    BY <1>1, PulsesAreRows DEF Ids
<1>11. Ids(handed) \cup Ids(batch) \cup Ids(queue) \cup Ids(putting) \subseteq 1..sensed
    BY <1>1, <1>8, <1>9, <1>10, BufferConstants
<1>. QED
    BY <1>1, <1>2, <1>5, <1>6, <1>7, <1>8, <1>11

\* Pulses that differ are no more than there are ids.
LEMMA ShortVector ==
    ASSUME NEW s, IsRows(s), Distinct(s), Ids(s) \subseteq 1..MaxPulses
    PROVE  Len(s) <= MaxPulses
<1>. DEFINE places == 1..Len(s)
            numbers == 1..MaxPulses
            id == [i \in places |-> s[i].id]
<1>1. Len(s) \in Nat /\ DOMAIN s = places /\ MaxPulses \in Nat
    BY RowsDomain, BufferConstants
<1>2. /\ IsFiniteSet(places) /\ Cardinality(places) = Len(s)
      /\ IsFiniteSet(numbers) /\ Cardinality(numbers) = MaxPulses
  <2>1. ASSUME NEW n \in Nat PROVE IsFiniteSet(1..n) /\ Cardinality(1..n) = n
      BY FS_Interval
  <2>. QED
      BY <1>1, <2>1
<1>3. id \in [places -> numbers] /\ \A i, j \in places : i # j => id[i] # id[j]
    BY <1>1 DEF Ids, Distinct
<1>. HIDE DEF places, numbers, id
<1>4. ~(Cardinality(numbers) < Cardinality(places))
    BY <1>2, <1>3, FS_PigeonHole
<1>. QED
    BY <1>1, <1>2, <1>4

-----------------------------------------------------------------------------
(* The inductive invariant of the whole: how the states of the components  *)
(* go together.                                                            *)

\* An upload runs just while SenderTask waits for it, initWeb only while
\* SenderTask waits for that, and what was handed over is what was given.
LinkInv ==
    /\ Ids(handed) = Given
    /\ pc = "web" => up # "idle"
    /\ up # "idle" => pc = "web"
    /\ up = "idle" => pulses = <<>>
    /\ pc = "send" => batch # <<>>
    /\ pc # "initWeb" => web = "idle"
    /\ online \in BOOLEAN

SystemInv == BufferInv /\ TypeInv /\ LinkInv

LEMMA LinkInit == SystemInit => LinkInv
<1> SUFFICES ASSUME SystemInit PROVE LinkInv
    OBVIOUS
<1>1. handed = <<>> /\ pc = "delay"
    BY DEF SystemInit, Buffer!Init
<1>2. web = "idle" /\ online \in BOOLEAN
    BY DEF SystemInit, Web!Init
<1>3. up = "idle" /\ pulses = <<>> /\ Given = {}
    BY DEF SystemInit, Init, Given
<1>. QED
    BY <1>1, <1>2, <1>3, EmptyRows DEF LinkInv

\* The vector of a call is what DataUpload takes for new pulses in order.
LEMMA VectorIsNew ==
    ASSUME BufferInv, LinkInv, pc = "send"
    PROVE  batch \in Batches
<1>1. /\ IsRows(batch) /\ Rising(batch)
      /\ \A m \in Ids(handed), n \in Ids(batch) : m < n
    BY PipelineParts
<1>2. batch \in Seq(BufferProofs!Pulse) /\ batch # <<>>
    BY DEF BufferInv, BufferProofs!OrderInv, BufferProofs!TypeOK, LinkInv
<1>3. \A i \in DOMAIN batch : batch[i].id \in 1..MaxPulses
    BY <1>2, PulsesAreRows
<1>4. Ids(batch) \subseteq NewIds
    BY <1>1, <1>3 DEF LinkInv, NewIds, Ids
<1>5. DOMAIN batch = 1..Len(batch) /\ Len(batch) \in Nat /\ Len(batch) # 0
    BY <1>2, LenProperties, EmptySeq
<1>6. Len(batch) <= MaxPulses
  <2>1. Distinct(batch)
    <3> SUFFICES ASSUME NEW i \in DOMAIN batch, NEW j \in DOMAIN batch, i # j
                 PROVE  batch[i].id # batch[j].id
        BY DEF Distinct
    <3>1. i < j \/ j < i
        BY <1>5
    <3>2. batch[i].id < batch[j].id \/ batch[j].id < batch[i].id
        BY <1>1, <3>1 DEF Rising
    <3>. QED
        BY <1>3, <3>2, BufferConstants
  <2>2. Ids(batch) \subseteq 1..MaxPulses
      BY <1>3 DEF Ids
  <2>. QED
      BY <1>1, <2>1, <2>2, ShortVector
<1>7. batch \in [1..Len(batch) -> [id : NewIds, pin : Pins]]
  <2>1. \A i \in DOMAIN batch : batch[i] \in BufferProofs!Pulse
      BY <1>2, <1>5, ElementOfSeq
  <2>2. \A i \in DOMAIN batch : batch[i].id \in NewIds
      BY <1>4 DEF Ids
  <2>3. \A i \in DOMAIN batch : batch[i] \in [id : NewIds, pin : Pins]
      BY <2>1, <2>2 DEF BufferProofs!Pulse
  <2>4. batch = [i \in DOMAIN batch |-> batch[i]]
      BY <1>2
  <2>. QED
      BY <1>5, <2>3, <2>4
<1>8. Len(batch) \in 1..MaxPulses
    BY <1>5, <1>6, BufferConstants
<1>. QED
    BY <1>1, <1>7, <1>8 DEF Batches, Rising

\* Every step of the system is a step of DataUpload or leaves it alone.
LEMMA SystemMovesUpload ==
    ASSUME BufferInv, LinkInv, SystemNext
    PROVE  (CalmStep \/ (Reboot /\ Restart)) /\ online' \in BOOLEAN
<1>1. CASE LoopStep \/ BufferStep \/ WebStep \/ Decide \/ \E ok \in BOOLEAN : InitWebReturns(ok)
  <2>1. CalmStep
      BY <1>1 DEF LoopStep, BufferStep, WebStep, Decide, InitWebReturns, uploadVars,
         CalmStep
  <2>2. ASSUME WebStep PROVE online' \in BOOLEAN
      BY <2>2 DEF WebStep, Web!Steps, Web!Network, Web!ReadMacAddress, Web!StartConnecting,
         Web!Connected, Web!ConnectTimedOut, Web!SetDateTime, Web!SkipDateTime,
         Web!DateTimeDone, Web!SntpAnswers, Web!LinkLost, LinkInv
  <2>3. ASSUME ~WebStep PROVE UNCHANGED online
      BY <1>1, <2>3 DEF LoopStep, BufferStep, Decide, InitWebReturns, webVars, Web!Call, Web!Return
  <2>. QED
      BY <2>1, <2>2, <2>3 DEF LinkInv
<1>2. CASE UploadStep
    BY <1>2 DEF UploadStep, webVars, CalmStep, Client, LinkInv
<1>3. CASE ServerStep \/ EnvironmentStep
    BY <1>3 DEF ServerStep, EnvironmentStep, webVars, CalmStep, LinkInv
<1>4. CASE SendBatch
  <2>1. pc = "send" /\ Call(batch) /\ UNCHANGED online
      BY <1>4 DEF SendBatch, Buffer!SendBatch, webVars
  <2>2. NewCall
      BY <2>1, VectorIsNew DEF NewCall, Call
  <2>. QED
      BY <2>1, <2>2 DEF CalmStep, LinkInv
<1>5. CASE SendReturns
    BY <1>5 DEF SendReturns, Return, CalmStep, Client
<1>6. CASE Reboot
    BY <1>6 DEF Reboot, Restart
<1>. QED
    BY <1>1, <1>2, <1>3, <1>4, <1>5, <1>6 DEF SystemNext, SenderCalls

LEMMA LinkNext ==
    ASSUME SystemInv, SystemNext
    PROVE  LinkInv'
<1>0. BufferInv /\ LinkInv /\ online' \in BOOLEAN
    BY SystemMovesUpload DEF SystemInv
<1>. USE DEF LinkInv
<1>1. ASSUME UNCHANGED <<handed, given>> PROVE (Ids(handed) = Given)'
    BY <1>0, <1>1 DEF Ids, Given
<1>2. CASE LoopStep
  <2>1. UNCHANGED <<pc, batch, handed, web, up, pulses, given>>
      BY <1>2 DEF LoopStep, webVars, uploadVars, clientVars, Buffer!Loop, Buffer!Sense,
         Buffer!PutAccepted, Buffer!PutTimedOut, Buffer!MarkPut, Buffer!Tick, Buffer!senderVars
  <2>. QED
      BY <1>0, <1>1, <2>1
<1>3. CASE BufferStep
  <2>1. UNCHANGED <<handed, web, up, pulses, given>>
      BY <1>3 DEF BufferStep, webVars, uploadVars, clientVars, Buffer!ReadQueueSize,
         Buffer!ReceivePulse, Buffer!ReceiveTimedOut
  <2>2. /\ pc \in {"delay", "drain"} /\ pc' \in {"decide", "drain", "send", "delay"}
        /\ pc' = "send" => batch' # <<>>
      BY <1>3 DEF BufferStep, Buffer!ReadQueueSize, Buffer!ReceivePulse, Buffer!ReceiveTimedOut
  <2>. QED
      BY <1>0, <1>1, <2>1, <2>2
<1>4. CASE WebStep
  <2>1. UNCHANGED <<pc, batch, handed, up, pulses, given>>
      BY <1>4 DEF WebStep, bufferVars, uploadVars, clientVars
  <2>2. web = "idle" => web' = "idle"
      BY <1>4 DEF WebStep, Web!Steps, Web!Network, Web!ReadMacAddress, Web!StartConnecting,
         Web!Connected, Web!ConnectTimedOut, Web!SetDateTime, Web!SkipDateTime,
         Web!DateTimeDone, Web!SntpAnswers, Web!LinkLost
  <2>. QED
      BY <1>0, <1>1, <2>1, <2>2
<1>5. CASE UploadStep
  <2>1. UNCHANGED <<pc, batch, handed, web>>
      BY <1>5 DEF UploadStep, bufferVars, webVars
  <2>2. up # "idle" /\ up' # "idle" /\ UNCHANGED <<pulses, given>>
      BY <1>5 DEF UploadStep, Work, TryConnect, TriedConnect, NotConnected, PostChanges,
         PostMisdirected, Posted, RefreshToken, Refreshed, AfterPost
  <2>. QED
      BY <1>0, <1>1, <2>1, <2>2
<1>6. CASE ServerStep \/ EnvironmentStep
  <2>1. UNCHANGED <<pc, batch, handed, web, up, pulses, given>>
      BY <1>6 DEF ServerStep, EnvironmentStep, bufferVars, webVars, clientVars
  <2>. QED
      BY <1>0, <1>1, <2>1
<1>7. CASE Decide
  <2>1. UNCHANGED <<batch, handed, up, pulses, given>>
      BY <1>7 DEF Decide, Buffer!Decide, uploadVars, clientVars
  <2>2. /\ pc = "decide" /\ pc' \in {"initWeb", "delay"}
        /\ pc' # "initWeb" => web' = web
      BY <1>7 DEF Decide, Buffer!Decide, webVars
  <2>. QED
      BY <1>0, <1>1, <2>1, <2>2
<1>8. ASSUME NEW ok \in BOOLEAN, InitWebReturns(ok) PROVE LinkInv'
  <2>1. UNCHANGED <<batch, handed, up, pulses, given>>
      BY <1>8 DEF InitWebReturns, Buffer!InitWebReturns, uploadVars, clientVars
  <2>2. pc = "initWeb" /\ pc' \in {"drain", "delay"} /\ web' = "idle"
      BY <1>8 DEF InitWebReturns, Buffer!InitWebReturns, Web!Return
  <2>. QED
      BY <1>0, <1>1, <2>1, <2>2
<1>9. CASE SendBatch
  <2>1. /\ pc = "send" /\ pc' = "web" /\ up' = "data2Web" /\ UNCHANGED web
        /\ handed' = handed \o batch /\ given' = given \cup {Ids(batch)}
      BY <1>9 DEF SendBatch, Buffer!SendBatch, Call, webVars, Ids
  <2>2. Ids(handed \o batch) = Ids(handed) \cup Ids(batch)
      BY <1>0, PipelineParts, ConcatIds
  <2>3. Given' = Given \cup Ids(batch) /\ Ids(handed)' = Ids(handed \o batch)
      BY <2>1 DEF Given, Ids
  <2>. QED
      BY <1>0, <2>1, <2>2, <2>3
<1>10. CASE SendReturns
  <2>1. /\ pc = "web" /\ pc' = "delay" /\ up' = "idle" /\ pulses' = <<>>
        /\ UNCHANGED <<web, handed, given>>
      BY <1>10 DEF SendReturns, Buffer!SendReturns, Web!Disconnect, Return
  <2>. QED
      BY <1>0, <1>1, <2>1
<1>11. CASE Reboot
  <2>1. /\ pc' = "delay" /\ up' = "idle" /\ pulses' = <<>> /\ web' = "idle"
        /\ UNCHANGED <<handed, given>>
      BY <1>11 DEF Reboot, Buffer!Reboot, Web!Restart, Restart
  <2>. QED
      BY <1>0, <1>1, <2>1
<1>. QED
    BY <1>2, <1>3, <1>4, <1>5, <1>6, <1>7, <1>8, <1>9, <1>10, <1>11 DEF SystemNext, SenderCalls

LEMMA SystemInitially == SystemInit => SystemInv
    BY BufferInitially, TypeInit, LinkInit DEF SystemInit, SystemInv

LEMMA SystemInvNext == SystemInv /\ [SystemNext]_systemVars => SystemInv'
<1> SUFFICES ASSUME SystemInv, [SystemNext]_systemVars PROVE SystemInv'
    OBVIOUS
<1>1. CASE SystemNext
  <2>1. BufferInv'
      BY <1>1, SystemMovesBuffer, BufferNext DEF SystemInv
  <2>2. TypeInv'
      BY <1>1, SystemMovesUpload, TypeNext DEF SystemInv, FreeStep
  <2>. QED
      BY <1>1, <2>1, <2>2, LinkNext DEF SystemInv
<1>2. CASE UNCHANGED systemVars
  <2>1. UNCHANGED <<bufferVars, serverVars, clientVars, web, online>>
      BY <1>2 DEF systemVars, uploadVars, webVars
  <2>2. BufferMove
      BY <2>1 DEF BufferMove, bufferVars, BufferProofs!vars
  <2>3. FreeStep /\ online' \in BOOLEAN
      BY <2>1 DEF FreeStep, CalmStep, SystemInv, LinkInv
  <2>4. LinkInv'
    <3>1. UNCHANGED <<pc, batch, handed, web, up, pulses, given, online>>
        BY <2>1 DEF bufferVars, clientVars
    <3>2. Ids(handed)' = Ids(handed) /\ Given' = Given
        BY <3>1 DEF Ids, Given
    <3>. QED
        BY <3>1, <3>2 DEF SystemInv, LinkInv
  <2>. QED
      BY <2>2, <2>3, <2>4, BufferNext, TypeNext DEF SystemInv
<1>. QED
    BY <1>1, <1>2

\* How the states of the components go together, in every reachable state.
THEOREM SystemInvariant == SystemSpec => []SystemInv
    BY SystemInitially, SystemInvNext, PTL DEF SystemSpec

-----------------------------------------------------------------------------
(* What holds of the whole.                                                *)

\* The loop task and SenderTask stay the buffer of PulseBuffer when initWeb and
\* sendData2Web are the real ones (buffer.cpp:21-49).
THEOREM SystemImplementsBuffer == SystemSpec => Buffer!Spec
<1>1. SystemInit => Buffer!Init
    BY DEF SystemInit
<1>2. [SystemNext]_systemVars => [Buffer!Next]_(Buffer!vars)
  <2>1. LoopStep \/ BufferStep \/ SenderCalls \/ Reboot => Buffer!Next
      BY DEF LoopStep, BufferStep, SenderCalls, Decide, InitWebReturns, SendBatch,
         SendReturns, Reboot, Buffer!Next, Buffer!Sender
  <2>2. WebStep \/ UploadStep \/ ServerStep \/ EnvironmentStep => UNCHANGED bufferVars
      BY DEF WebStep, UploadStep, ServerStep, EnvironmentStep
  <2>3. UNCHANGED systemVars => UNCHANGED bufferVars
      BY DEF systemVars
  <2>4. UNCHANGED bufferVars => UNCHANGED Buffer!vars
      BY DEF bufferVars, Buffer!vars
  <2>. QED
      BY <2>1, <2>2, <2>3, <2>4 DEF SystemNext
<1>. QED
    BY <1>1, <1>2, PTL DEF SystemSpec, Buffer!Spec

\* The vector of an upload, the requests on their way and the table hold only
\* what was handed over, and the buffer only what is newer (buffer.cpp:34-42).
THEOREM PulsesInOnePlace == SystemSpec => []OnePlace
<1>1. ASSUME SystemInv PROVE OnePlace
  <2>1. BufferInv /\ LinkInv /\ GivenInv
      BY <1>1 DEF SystemInv, TypeInv, UploadInv, DataInv
  <2>2. Ids(pulses) \subseteq Given
    <3>1. CASE up = "idle"
        BY <2>1, <3>1, EmptyRows DEF LinkInv
    <3>2. CASE up # "idle"
        BY <2>1, <3>2 DEF GivenInv, Given
    <3>. QED
        BY <3>1, <3>2
  <2>3. InFlight \subseteq Given
    <3>1. \A r \in Posts : Ids(r.rows) \subseteq Given
        BY <2>1 DEF GivenInv, Given
    <3>2. InFlight = UNION {Ids(r.rows) : r \in Posts}
        BY DEF InFlight, Ids, Posts
    <3>. QED
        BY <3>1, <3>2
  <2>4. Ids(changes) \subseteq Given
      BY <2>1 DEF GivenInv
  <2>5. Ids(queue \o putting \o batch) = Ids(queue) \cup Ids(putting) \cup Ids(batch)
    <3>1. IsRows(queue) /\ IsRows(putting) /\ IsRows(batch) /\ IsRows(queue \o putting)
        BY <2>1, PipelineParts, ConcatRows
    <3>. QED
        BY <3>1, ConcatIds
  <2>6. \A m \in Given, n \in Ids(queue \o putting \o batch) : m < n /\ m \in Nat
      BY <2>1, <2>5, PipelineParts DEF LinkInv
  <2>7. Given \cap Ids(queue \o putting \o batch) = {}
      BY <2>6
  <2>. QED
      BY <2>2, <2>3, <2>4, <2>7 DEF OnePlace, IdsIn, Ids
<1>. QED
    BY <1>1, SystemInvariant, PTL

\* The retries of sendData2Web, the rollbacks of the server and the losses of
\* power: what was proved of an upload alone holds behind the buffer.
THEOREM SystemRecords ==
    SystemSpec => [](RecordedOnce /\ BatchAtomic /\ SuccessMeansRecorded)
<1>1. SystemInv => RecordedOnce /\ BatchAtomic /\ SuccessMeansRecorded
    BY Names DEF SystemInv, TypeInv, UploadInv, DataInv, CopyInv
<1>. QED
    BY <1>1, SystemInvariant, PTL

\* The indicator of a device counts its rows behind the buffer as well, through
\* every rollback, late commit and loss of power.
THEOREM SystemCountsRows == SystemSpec => []IndicatorAgrees
<1>1. SystemInit => IndicatorAgrees
  <2> SUFFICES ASSUME SystemInit, NEW d \in Devices
               PROVE  indicator[d] = Cardinality(RowsOf(changes, d))
      BY DEF IndicatorAgrees, RowsOf
  <2>1. indicator[d] = 0 /\ RowsOf(changes, d) = {}
      BY DEF SystemInit, Init, ServerInit, RowsOf
  <2>. QED
      BY <2>1, FS_EmptySet
<1>2. ASSUME SystemInv, IndicatorAgrees, SystemNext PROVE IndicatorAgrees'
  <2>1. FreeStep
      BY <1>2, SystemMovesUpload DEF SystemInv, FreeStep
  <2>2. IndicatorInv
      BY <1>2 DEF SystemInv, TypeInv, IndicatorInv
  <2>. QED
      BY <2>1, <2>2, IndicatorNext
<1>3. ASSUME IndicatorAgrees, UNCHANGED systemVars PROVE IndicatorAgrees'
  <2>1. UNCHANGED <<changes, indicator>>
      BY <1>3 DEF systemVars, uploadVars, serverVars
  <2>. QED
      BY <1>3, <2>1 DEF IndicatorAgrees
<1>4. SystemInv /\ IndicatorAgrees /\ [SystemNext]_systemVars => IndicatorAgrees'
    BY <1>2, <1>3
<1>. QED
    BY <1>1, <1>4, SystemInvariant, PTL DEF SystemSpec

\* A session that initWeb accepted ends with the radio off, although
\* Disconnect() is skipped for an empty vector (buffer.cpp:25-46).
THEOREM SessionsEndOffline == SystemSpec => SessionEndsOffline
<1>. DEFINE EndsOffline == pc \in {"drain", "send", "web"} /\ pc' = "delay" => online' = FALSE
<1>1. ASSUME SystemInv, SystemNext PROVE EndsOffline
  <2>1. CASE LoopStep
      BY <2>1 DEF LoopStep, Buffer!Loop, Buffer!Sense, Buffer!PutAccepted, Buffer!PutTimedOut,
         Buffer!MarkPut, Buffer!Tick, Buffer!senderVars
  <2>2. CASE BufferStep
    <3>1. pc = "drain" => queue # <<>> \/ batch # <<>>
        BY <1>1 DEF SystemInv, BufferInv, BufferProofs!SessionInv, BufferProofs!Session
    <3>. QED
        BY <2>2, <3>1 DEF BufferStep, Buffer!ReadQueueSize, Buffer!ReceivePulse,
           Buffer!ReceiveTimedOut
  <2>3. CASE WebStep \/ UploadStep \/ ServerStep \/ EnvironmentStep
      BY <2>3 DEF WebStep, UploadStep, ServerStep, EnvironmentStep, bufferVars
  <2>4. CASE Decide \/ (\E ok \in BOOLEAN : InitWebReturns(ok)) \/ SendBatch
      BY <2>4 DEF Decide, InitWebReturns, SendBatch, Buffer!Decide, Buffer!InitWebReturns,
         Buffer!SendBatch
  <2>5. CASE SendReturns \/ Reboot
      BY <2>5 DEF SendReturns, Reboot, Return, Restart
  <2>. QED
      BY <1>1, <2>1, <2>2, <2>3, <2>4, <2>5 DEF SystemNext, SenderCalls
<1>2. SystemInv /\ [SystemNext]_systemVars => [EndsOffline]_systemVars
    BY <1>1
<1>. QED
    BY <1>2, SystemInvariant, PTL DEF SystemSpec, SessionEndsOffline

-----------------------------------------------------------------------------
(* The uploads behind the buffer and initWeb.                              *)

\* When nothing fails and the access point keeps the board, a session that
\* initWeb accepted is online until sendData2Web has returned.
OnlineInv ==
    ~Faults /\ ~LinkDrops =>
        /\ pc \in {"drain", "send"} => online
        /\ web \in {"clock", "setDateTime", "ready"} => online

LEMMA OnlineNext ==
    ASSUME LinkInv, OnlineInv, SystemNext
    PROVE  OnlineInv'
<1>. USE DEF OnlineInv
<1>1. CASE LoopStep
    BY <1>1 DEF LoopStep, webVars, Buffer!Loop, Buffer!Sense, Buffer!PutAccepted,
       Buffer!PutTimedOut, Buffer!MarkPut, Buffer!Tick, Buffer!senderVars
<1>2. CASE BufferStep
    BY <1>2 DEF BufferStep, webVars, Buffer!ReadQueueSize, Buffer!ReceivePulse,
       Buffer!ReceiveTimedOut
<1>3. CASE WebStep
  <2>1. UNCHANGED pc
      BY <1>3 DEF WebStep, bufferVars
  <2>2. CASE Web!Network
      BY <2>1, <2>2 DEF Web!Network, Web!SntpAnswers, Web!LinkLost
  <2>3. CASE Web!Steps
    <3>1. pc = "initWeb"
        BY <2>3 DEF LinkInv, Web!Steps, Web!ReadMacAddress, Web!StartConnecting,
           Web!Connected, Web!ConnectTimedOut, Web!SetDateTime, Web!SkipDateTime,
           Web!DateTimeDone
    <3>2. ~Faults /\ ~LinkDrops => (web' \in {"clock", "setDateTime", "ready"} => online')
        BY <2>3 DEF Web!Steps, Web!ReadMacAddress, Web!StartConnecting,
           Web!Connected, Web!ConnectTimedOut, Web!SetDateTime, Web!SkipDateTime,
           Web!DateTimeDone
    <3>. QED
        BY <2>1, <3>1, <3>2
  <2>. QED
      BY <1>3, <2>2, <2>3 DEF WebStep
<1>4. CASE UploadStep \/ ServerStep \/ EnvironmentStep
    BY <1>4 DEF UploadStep, ServerStep, EnvironmentStep, bufferVars, webVars
<1>5. CASE Decide
    BY <1>5 DEF Decide, Buffer!Decide, Web!Call, webVars
<1>6. ASSUME NEW ok \in BOOLEAN, InitWebReturns(ok) PROVE OnlineInv'
    BY <1>6 DEF InitWebReturns, Buffer!InitWebReturns, Web!Return
<1>7. CASE SendBatch
    BY <1>7 DEF SendBatch, Buffer!SendBatch, webVars
<1>8. CASE SendReturns
    BY <1>8 DEF SendReturns, Buffer!SendReturns, Web!Disconnect
<1>9. CASE Reboot
    BY <1>9 DEF Reboot, Buffer!Reboot, Web!Restart
<1>. QED
    BY <1>1, <1>2, <1>3, <1>4, <1>5, <1>6, <1>7, <1>8, <1>9 DEF SystemNext, SenderCalls

\* SenderTask calls sendData2Web only the way DataUpload assumes: one call at a
\* time, each with new pulses in order, and online unless something may fail
\* (buffer.cpp:30-42).  A model without faults has neither restarts nor drops.
THEOREM SystemImplementsUpload ==
    ASSUME Faults \/ (~LinkDrops /\ MaxReboots = 0)
    PROVE  SystemSpec => ImplementsUpload
<1>1. SystemInit => Init /\ OnlineInv
    BY DEF SystemInit, OnlineInv, Buffer!Init, Web!Init
<1>2. SystemInv /\ OnlineInv /\ [SystemNext]_systemVars => OnlineInv'
  <2>1. UNCHANGED systemVars /\ OnlineInv => OnlineInv'
      BY DEF systemVars, bufferVars, webVars, OnlineInv
  <2>. QED
      BY <2>1, OnlineNext DEF SystemInv
<1>3. ASSUME SystemInv, OnlineInv, SystemNext PROVE [Next]_vars
  <2>. USE DEF vars
  <2>0. BufferInv /\ LinkInv
      BY <1>3 DEF SystemInv
  <2>1. CASE LoopStep \/ BufferStep \/ Decide \/ \E ok \in BOOLEAN : InitWebReturns(ok)
    <3>1. UNCHANGED <<serverVars, clientVars, online>>
        BY <2>1 DEF LoopStep, BufferStep, Decide, InitWebReturns, uploadVars, webVars,
           Web!Call, Web!Return
    <3>. QED
        BY <3>1
  <2>2. CASE WebStep
    <3>1. UNCHANGED <<serverVars, clientVars>>
        BY <2>2 DEF WebStep, uploadVars
    <3>2. ASSUME online' # online PROVE online' = ~online /\ (Faults \/ up = "idle")
      <4>1. CASE Web!LinkLost
          BY <4>1 DEF Web!LinkLost
      <4>2. CASE Web!StartConnecting \/ Web!Connected
          BY <2>0, <3>2, <4>2 DEF Web!StartConnecting, Web!Connected, LinkInv
      <4>. QED
          BY <2>2, <3>2, <4>1, <4>2 DEF WebStep, Web!Steps, Web!Network, Web!ReadMacAddress,
             Web!ConnectTimedOut, Web!SetDateTime, Web!SkipDateTime, Web!DateTimeDone,
             Web!SntpAnswers
    <3>. QED
        BY <3>1, <3>2 DEF Next, LinkChanges
  <2>3. CASE UploadStep
      BY <2>3 DEF UploadStep, webVars, Next, Client
  <2>4. CASE ServerStep \/ EnvironmentStep
      BY <2>4 DEF ServerStep, EnvironmentStep, webVars, Next
  <2>5. CASE SendBatch
    <3>1. pc = "send" /\ Call(batch) /\ UNCHANGED online
        BY <2>5 DEF SendBatch, Buffer!SendBatch, webVars
    <3>2. NewCall
        BY <2>0, <3>1, VectorIsNew DEF NewCall, Call
    <3>3. Faults \/ online
        BY <1>3, <3>1 DEF OnlineInv
    <3>. QED
        BY <3>1, <3>2, <3>3 DEF Next
  <2>6. CASE SendReturns
      BY <2>6 DEF SendReturns, Next, Client
  <2>7. CASE Reboot
    <3>1. reboots < MaxReboots /\ reboots \in 0..MaxReboots
        BY <2>0, <2>7 DEF Reboot, Buffer!Reboot, BufferInv, BufferProofs!OrderInv,
           BufferProofs!TypeOK
    <3>2. Faults
        BY <3>1
    <3>. QED
        BY <2>7, <3>2 DEF Reboot, Next
  <2>. QED
      BY <1>3, <2>1, <2>2, <2>3, <2>4, <2>5, <2>6, <2>7 DEF SystemNext, SenderCalls
<1>4. SystemInv /\ OnlineInv /\ [SystemNext]_systemVars => [Next]_vars
  <2>1. UNCHANGED systemVars => UNCHANGED vars
      BY DEF systemVars, uploadVars, webVars, vars
  <2>. QED
      BY <1>3, <2>1
<1>. QED
    BY <1>1, <1>2, <1>4, SystemInvariant, PTL DEF SystemSpec, ImplementsUpload, Spec

\* When no request times out and no power is lost, rows are committed in the
\* order in which the meter gave the pulses (rest_api.cpp:278-295).
THEOREM SystemKeepsOrder == SystemSpec => []RecordedInOrder
<1>. DEFINE Ordered == ~Faults /\ MaxReboots = 0 => RowOrder
<1>1. SystemInit => Ordered
  <2> SUFFICES ASSUME SystemInit PROVE RowOrder
      OBVIOUS
  <2>1. /\ requests = {} /\ changes = <<>> /\ pulses = <<>> /\ up = "idle"
      BY DEF SystemInit, Init, ServerInit
  <2>2. Posts = {} /\ DOMAIN changes = {} /\ DOMAIN pulses = {}
      BY <2>1 DEF Posts
  <2>. QED
      BY <2>1, <2>2 DEF RowOrder, Rising
<1>2. ASSUME SystemInv, Ordered, [SystemNext]_systemVars PROVE Ordered'
  <2> SUFFICES ASSUME ~Faults, MaxReboots = 0 PROVE RowOrder'
      OBVIOUS
  <2>1. TypeInv /\ BufferInv /\ LinkInv /\ RowOrder
      BY <1>2 DEF SystemInv
  <2>2. ~Reboot
      BY <2>1 DEF Reboot, Buffer!Reboot, BufferInv, BufferProofs!OrderInv, BufferProofs!TypeOK
  <2>3. CalmStep
    <3>1. CASE UNCHANGED systemVars
        BY <3>1 DEF systemVars, uploadVars, CalmStep
    <3>. QED
        BY <1>2, <2>1, <2>2, <3>1, SystemMovesUpload
  <2>. QED
      BY <2>1, <2>3, OrderNext
<1>3. Ordered => RecordedInOrder
    BY DEF RowOrder, Rising, RecordedInOrder
<1>. QED
    BY <1>1, <1>2, <1>3, SystemInvariant, PTL DEF SystemSpec

-----------------------------------------------------------------------------
(* The promise of MeterReading.                                            *)

\* The pulses of a system state that may still be recorded, and how many times
\* each one is.
Unrecorded == (IdsIn(putting \o queue \o batch) \cup IdsIn(pulses) \cup InFlight) \ IdsIn(changes)
Counted == [p \in 1..MaxPulses |-> Cardinality({i \in DOMAIN changes : changes[i].id = p})]

LEMMA PromiseLose ==
    ASSUME sensed' = sensed, Counted' = Counted, Unrecorded' \subseteq Unrecorded
    PROVE  Promise!Next
<1>1. Unrecorded' = Unrecorded \ (Unrecorded \ Unrecorded')
    OBVIOUS
<1>2. Promise!Lose(Unrecorded \ Unrecorded')
    BY <1>1 DEF Promise!Lose, Unrecorded, Counted
<1>3. Unrecorded \ Unrecorded' \in SUBSET Unrecorded
    OBVIOUS
<1>. QED
    BY <1>2, <1>3 DEF Promise!Next, Unrecorded

LEMMA PromiseSense ==
    ASSUME sensed \in Nat, sensed + 1 \in 1..MaxPulses, sensed' = sensed + 1,
           Counted' = Counted, Unrecorded' = Unrecorded \cup {sensed + 1}
    PROVE  Promise!Next
<1>. DEFINE S == {sensed + 1}
<1>1. S \in SUBSET (1..MaxPulses \ 1..sensed) /\ S \cap (1..sensed) = {}
    OBVIOUS
<1>2. 1..sensed' = (1..sensed) \cup S
    OBVIOUS
<1>3. Promise!Sense(S)
    BY <1>1, <1>2 DEF Promise!Sense, Unrecorded, Counted
<1>. QED
    BY <1>1, <1>3 DEF Promise!Next

LEMMA PromiseRecord ==
    ASSUME NEW S \in SUBSET Unrecorded, sensed' = sensed, Unrecorded' = Unrecorded \ S,
           Counted' = [p \in 1..MaxPulses |-> IF p \in S THEN Counted[p] + 1 ELSE Counted[p]]
    PROVE  Promise!Next
<1>1. Promise!Record(S)
    BY DEF Promise!Record, Unrecorded, Counted
<1>. QED
    BY <1>1 DEF Promise!Next, Unrecorded

\* A pulse has one row at most, so counting its rows tells whether it has one.
LEMMA CountOfDistinct ==
    ASSUME NEW s, IsRows(s), Distinct(s), NEW p
    PROVE  Cardinality({i \in DOMAIN s : s[i].id = p}) = IF p \in Ids(s) THEN 1 ELSE 0
<1>1. CASE p \in Ids(s)
  <2>1. PICK i \in DOMAIN s : s[i].id = p
      BY <1>1 DEF Ids
  <2>2. {j \in DOMAIN s : s[j].id = p} = {i}
      BY <2>1 DEF Distinct
  <2>. QED
      BY <1>1, <2>2, FS_Singleton
<1>2. CASE p \notin Ids(s)
  <2>1. {j \in DOMAIN s : s[j].id = p} = {}
      BY <1>2 DEF Ids
  <2>. QED
      BY <1>2, <2>1, FS_EmptySet
<1>. QED
    BY <1>1, <1>2

\* The places where a pulse waits.
Buffered == Ids(putting) \cup Ids(queue) \cup Ids(batch)
Uploaded == Ids(pulses) \cup UNION {Ids(r.rows) : r \in Posts}

LEMMA ThreeIds ==
    ASSUME NEW s, NEW t, NEW u, IsRows(s), IsRows(t), IsRows(u)
    PROVE  Ids(s \o t \o u) = Ids(s) \cup Ids(t) \cup Ids(u)
<1>1. IsRows(s \o t)
    BY ConcatRows
<1>2. Ids(s \o t) = Ids(s) \cup Ids(t) /\ Ids(s \o t \o u) = Ids(s \o t) \cup Ids(u)
    BY <1>1, ConcatIds
<1>. QED
    BY <1>2

LEMMA UnrecordedIs == BufferInv => Unrecorded = (Buffered \cup Uploaded) \ Ids(changes)
<1> SUFFICES ASSUME BufferInv PROVE Unrecorded = (Buffered \cup Uploaded) \ Ids(changes)
    OBVIOUS
<1>1. Ids(putting \o queue \o batch) = Buffered
    BY PipelineParts, ThreeIds DEF Buffered
<1>2. Ids(pulses) \cup InFlight = Uploaded
    BY DEF Uploaded, InFlight, Posts, Ids
<1>. QED
    BY <1>1, <1>2 DEF Unrecorded, IdsIn, Ids

\* The same after a step.
LEMMA UnrecordedNext ==
    ASSUME BufferInv'
    PROVE  Unrecorded' = (Buffered' \cup Uploaded') \ Ids(changes)'
<1>1. /\ putting' \in Seq(BufferProofs!Pulse) /\ queue' \in Seq(BufferProofs!Pulse)
      /\ batch' \in Seq(BufferProofs!Pulse)
    BY DEF BufferInv, BufferProofs!OrderInv, BufferProofs!TypeOK
<1>2. IsRows(putting') /\ IsRows(queue') /\ IsRows(batch')
    BY <1>1, PulsesAreRows
<1>3. Ids(putting' \o queue' \o batch') = Ids(putting') \cup Ids(queue') \cup Ids(batch')
    BY <1>2, ThreeIds
<1>4. Ids(pulses)' \cup InFlight' = Uploaded'
    BY DEF Uploaded, InFlight, Posts, Ids
<1>. QED
    BY <1>3, <1>4 DEF Unrecorded, Buffered, IdsIn, Ids

\* Only the contact of a meter brings a pulse into the buffer.
LEMMA BufferedNext ==
    ASSUME BufferInv, SystemNext
    PROVE  \/ sensed' = sensed /\ Buffered' \subseteq Buffered
           \/ /\ sensed' = sensed + 1 /\ sensed + 1 \in 1..MaxPulses
              /\ Buffered' = Buffered \cup {sensed + 1}
              /\ UNCHANGED uploadVars
<1>0. /\ IsRows(queue) /\ IsRows(putting) /\ IsRows(batch) /\ sensed \in 0..MaxPulses
      /\ loopPc # "put" => putting = <<>>
    BY PipelineParts DEF BufferInv, BufferProofs!OrderInv
<1>1. ASSUME NEW pin, Buffer!Sense(pin), UNCHANGED uploadVars
      PROVE  /\ sensed' = sensed + 1 /\ sensed + 1 \in 1..MaxPulses
             /\ Buffered' = Buffered \cup {sensed + 1}
  <2>1. /\ sensed < MaxPulses /\ sensed' = sensed + 1 /\ putting = <<>>
        /\ putting' = <<[id |-> sensed + 1, pin |-> pin]>> /\ UNCHANGED <<queue, batch>>
      BY <1>0, <1>1 DEF Buffer!Sense, Buffer!senderVars
  <2>2. Ids(putting)' = {sensed + 1} /\ Ids(putting) = {}
      BY <2>1, EmptyRows DEF Ids
  <2>3. Ids(queue)' = Ids(queue) /\ Ids(batch)' = Ids(batch)
      BY <2>1 DEF Ids
  <2>4. sensed + 1 \in 1..MaxPulses
      BY <1>0, <2>1, BufferConstants
  <2>. QED
      BY <2>1, <2>2, <2>3, <2>4 DEF Buffered
<1>2. ASSUME sensed' = sensed,
             putting' = putting \/ putting' = <<>>, batch' = batch \/ batch' = <<>>,
             queue' = queue \/ queue' = <<>>
      PROVE  sensed' = sensed /\ Buffered' \subseteq Buffered
    BY <1>2, EmptyRows DEF Buffered, Ids
<1>3. ASSUME Buffer!PutAccepted PROVE sensed' = sensed /\ Buffered' \subseteq Buffered
  <2>1. /\ queue' = queue \o putting /\ putting' = <<>> /\ UNCHANGED <<batch, sensed>>
      BY <1>3 DEF Buffer!PutAccepted, Buffer!senderVars
  <2>2. Ids(queue)' = Ids(queue) \cup Ids(putting)
    <3>1. Ids(queue \o putting) = Ids(queue) \cup Ids(putting)
        BY <1>0, ConcatIds
    <3>. QED
        BY <2>1, <3>1 DEF Ids
  <2>3. Ids(putting)' = {} /\ Ids(batch)' = Ids(batch)
      BY <2>1, EmptyRows DEF Ids
  <2>. QED
      BY <2>1, <2>2, <2>3 DEF Buffered
<1>4. ASSUME Buffer!ReceivePulse PROVE sensed' = sensed /\ Buffered' \subseteq Buffered
  <2>1. /\ queue # <<>> /\ queue' = Tail(queue) /\ batch' = Append(batch, Head(queue))
        /\ UNCHANGED <<putting, sensed>>
      BY <1>4 DEF Buffer!ReceivePulse, Buffer!loopVars
  <2>2. queue \in Seq(BufferProofs!Pulse) /\ batch \in Seq(BufferProofs!Pulse)
      BY DEF BufferInv, BufferProofs!OrderInv, BufferProofs!TypeOK
  <2>3. queue = <<Head(queue)>> \o Tail(queue) /\ batch' = batch \o <<Head(queue)>>
        /\ <<Head(queue)>> \in Seq(BufferProofs!Pulse) /\ Tail(queue) \in Seq(BufferProofs!Pulse)
      BY <2>1, <2>2, AppendIsConcat, HeadTailProperties
  <2>4. IsRows(<<Head(queue)>>) /\ IsRows(Tail(queue))
      BY <2>3, PulsesAreRows
  <2>5. /\ Ids(<<Head(queue)>> \o Tail(queue)) = Ids(<<Head(queue)>>) \cup Ids(Tail(queue))
        /\ Ids(batch \o <<Head(queue)>>) = Ids(batch) \cup Ids(<<Head(queue)>>)
      BY <1>0, <2>4, ConcatIds
  <2>6. /\ Ids(queue) = Ids(<<Head(queue)>>) \cup Ids(Tail(queue))
        /\ Ids(batch)' = Ids(batch) \cup Ids(<<Head(queue)>>)
        /\ Ids(queue)' = Ids(Tail(queue)) /\ Ids(putting)' = Ids(putting)
      BY <2>1, <2>3, <2>5 DEF Ids
  <2>. QED
      BY <2>1, <2>6 DEF Buffered
<1>5. CASE LoopStep
    BY <1>1, <1>2, <1>3, <1>5 DEF LoopStep, Buffer!Loop, Buffer!PutTimedOut, Buffer!MarkPut,
       Buffer!Tick, Buffer!loopVars, Buffer!senderVars
<1>6. CASE BufferStep
    BY <1>2, <1>4, <1>6 DEF BufferStep, Buffer!ReadQueueSize, Buffer!ReceiveTimedOut,
       Buffer!loopVars
<1>7. CASE SenderCalls
    BY <1>2, <1>7 DEF SenderCalls, Decide, InitWebReturns, SendBatch, SendReturns, Buffer!Decide,
       Buffer!InitWebReturns, Buffer!SendBatch, Buffer!SendReturns, Buffer!loopVars
<1>8. CASE Reboot
    BY <1>2, <1>8 DEF Reboot, Buffer!Reboot
<1>9. CASE WebStep \/ UploadStep \/ ServerStep \/ EnvironmentStep
    BY <1>2, <1>9 DEF WebStep, UploadStep, ServerStep, EnvironmentStep, bufferVars
<1>. QED
    BY <1>5, <1>6, <1>7, <1>8, <1>9 DEF SystemNext

\* Only the call of sendData2Web brings a pulse into an upload.
LEMMA ClientUploads ==
    ASSUME Client \/ Restart
    PROVE  changes' = changes /\ Uploaded' \subseteq Uploaded
<1>1. ASSUME UNCHANGED changes, Ids(pulses)' \subseteq Ids(pulses),
             \A r \in Posts' : r \in Posts \/ Ids(r.rows) = Ids(pulses)
      PROVE  changes' = changes /\ Uploaded' \subseteq Uploaded
    BY <1>1 DEF Uploaded
<1>2. CASE TryConnect \/ RefreshToken
  <2>1. /\ requests' \subseteq requests \cup {ConnectRequest} /\ UNCHANGED <<changes, pulses>>
        /\ ConnectRequest.kind # "changes"
      BY <1>2 DEF TryConnect, RefreshToken, Open, ConnectRequest
  <2>. QED
      BY <1>1, <2>1 DEF Ids, Posts
<1>3. CASE PostChanges
  <2>1. /\ requests' \subseteq requests \cup {ChangesRequest} /\ UNCHANGED <<changes, pulses>>
        /\ ChangesRequest.rows = [i \in DOMAIN pulses |-> Row(pulses[i])]
      BY <1>3 DEF PostChanges, Open, ChangesRequest
  <2>2. Ids(ChangesRequest.rows) = Ids(pulses)
      BY <2>1 DEF Ids, Row
  <2>3. \A r \in Posts' : r \in Posts \/ Ids(r.rows) = Ids(pulses)
      BY <2>1, <2>2 DEF Posts
  <2>4. Ids(pulses)' = Ids(pulses)
      BY <2>1 DEF Ids
  <2>. QED
      BY <1>1, <2>1, <2>3, <2>4
<1>4. CASE TriedConnect \/ Refreshed \/ Posted \/ NotConnected \/ PostMisdirected
  <2>1. UNCHANGED <<changes, pulses>> /\ requests' \subseteq requests
      BY <1>4 DEF TriedConnect, Refreshed, Posted, NotConnected, PostMisdirected,
         ConnectReturns, Receive, GiveUp, serverVars
  <2>. QED
      BY <1>1, <2>1 DEF Ids, Posts
<1>5. CASE Return \/ Restart
  <2>1. UNCHANGED <<changes, requests>> /\ pulses' = <<>>
      BY <1>5 DEF Return, Restart, serverVars
  <2>. QED
      BY <1>1, <2>1, EmptyRows DEF Ids, Posts
<1>. QED
    BY <1>2, <1>3, <1>4, <1>5 DEF Client, Work

LEMMA ServerUploads ==
    ASSUME Server, UNCHANGED clientVars, ~\E r \in Posts : Commit(r)
    PROVE  changes' = changes /\ Uploaded' \subseteq Uploaded
<1>1. UNCHANGED pulses
    BY DEF clientVars
<1>2. ASSUME NEW t, ConnectDevice(t) PROVE UNCHANGED changes /\ requests' \subseteq requests
    BY <1>2 DEF ConnectDevice, ConnectOk, ConnectUnauthorized, DatabaseError, Reply
<1>3. ASSUME AddDeviceChanges PROVE UNCHANGED changes /\ requests' \subseteq requests
    BY <1>3 DEF AddDeviceChanges, TokenRejected, RollBack, DatabaseError, Reply, Posts
<1>4. UNCHANGED changes /\ requests' \subseteq requests
    BY <1>2, <1>3 DEF Server
<1>. QED
    BY <1>1, <1>4 DEF Uploaded, Ids, Posts

LEMMA CommitCounts ==
    ASSUME SystemInv, SystemInv', NEW r \in Posts, Commit(r),
           UNCHANGED <<bufferVars, clientVars>>
    PROVE  Promise!Next
<1>. DEFINE R == Ids(r.rows)
<1>1. /\ requests' = requests \ {r} /\ changes' = changes \o r.rows
      /\ UNCHANGED <<pulses, putting, queue, batch, sensed>>
    BY DEF Commit, Reply, bufferVars, clientVars
<1>2. /\ IsRows(changes) /\ IsRows(r.rows) /\ Distinct(changes) /\ R \cap Ids(changes) = {}
      /\ IsRows(changes)' /\ Distinct(changes)'
    BY DEF SystemInv, TypeInv, UploadInv, DataInv, RowsInv, CopyInv
<1>3. Ids(changes)' = Ids(changes) \cup R
  <2>1. Ids(changes \o r.rows) = Ids(changes) \cup R
      BY <1>2, ConcatIds
  <2>. QED
      BY <1>1, <2>1 DEF Ids
<1>4. Posts' = Posts \ {r} /\ Ids(pulses)' = Ids(pulses) /\ Buffered' = Buffered
    BY <1>1 DEF Posts, Ids, Buffered
<1>5. Uploaded' \cup R = Uploaded
    BY <1>4 DEF Uploaded
<1>6. /\ Unrecorded = (Buffered \cup Uploaded) \ Ids(changes)
      /\ Unrecorded' = (Buffered' \cup Uploaded') \ Ids(changes)'
    BY UnrecordedIs, UnrecordedNext DEF SystemInv
<1>. HIDE DEF R
<1>7. R \in SUBSET Unrecorded /\ Unrecorded' = Unrecorded \ R
    BY <1>2, <1>3, <1>4, <1>5, <1>6
<1>8. Counted' = [p \in 1..MaxPulses |-> IF p \in R THEN Counted[p] + 1 ELSE Counted[p]]
  <2>1. ASSUME NEW p \in 1..MaxPulses
        PROVE  /\ Counted[p] = IF p \in Ids(changes) THEN 1 ELSE 0
               /\ Cardinality({i \in DOMAIN changes' : changes'[i].id = p})
                     = IF p \in Ids(changes)' THEN 1 ELSE 0
    <3>1. Counted[p] = Cardinality({i \in DOMAIN changes : changes[i].id = p})
        BY DEF Counted
    <3>2. IsRows(changes') /\ Distinct(changes') /\ Ids(changes') = Ids(changes)'
        BY <1>2 DEF IsRows, Elements, Distinct, Ids
    <3>. QED
        BY <1>2, <3>1, <3>2, CountOfDistinct
  <2>2. Counted' = [p \in 1..MaxPulses |->
                       Cardinality({i \in DOMAIN changes' : changes'[i].id = p})]
      BY DEF Counted
  <2>3. ASSUME NEW p \in 1..MaxPulses
        PROVE  Cardinality({i \in DOMAIN changes' : changes'[i].id = p})
                 = IF p \in R THEN Counted[p] + 1 ELSE Counted[p]
      BY <1>2, <1>3, <2>1
  <2>. QED
      BY <2>2, <2>3
<1>. QED
    BY <1>1, <1>7, <1>8, PromiseRecord

LEMMA PromiseNext ==
    ASSUME SystemInv, SystemInv', SystemNext
    PROVE  Promise!Next
<1>. DEFINE B == Buffered
            U == Uploaded
            C == Ids(changes)
<1>0. /\ BufferInv /\ LinkInv /\ TypeInv /\ FreeStep
      /\ Unrecorded = (B \cup U) \ C /\ Unrecorded' = (B' \cup U') \ C'
    BY SystemMovesUpload, UnrecordedIs, UnrecordedNext DEF SystemInv, FreeStep
<1>1. ASSUME changes' = changes PROVE Counted' = Counted /\ C' = C
    BY <1>1 DEF Counted, Ids
<1>2. CASE SendBatch
  <2>1. /\ up = "idle" /\ pulses' = batch /\ batch' = <<>>
        /\ UNCHANGED <<changes, requests, putting, queue, sensed>>
      BY <1>2 DEF SendBatch, Call, Buffer!SendBatch, Buffer!loopVars, serverVars
  <2>2. Ids(pulses) = {} /\ Ids(pulses)' = Ids(batch) /\ Ids(batch)' = {}
        /\ Posts' = Posts /\ Ids(putting)' = Ids(putting) /\ Ids(queue)' = Ids(queue)
      BY <1>0, <2>1, EmptyRows DEF LinkInv, Ids, Posts
  <2>3. B' \cup U' \subseteq B \cup U
      BY <2>2 DEF Buffered, Uploaded
  <2>4. Unrecorded' \subseteq Unrecorded
      BY <1>0, <1>1, <2>1, <2>3
  <2>. QED
      BY <1>1, <2>1, <2>4, PromiseLose
<1>3. CASE ~SendBatch /\ sensed' = sensed /\ B' \subseteq B
  <2>1. ASSUME changes' = changes, U' \subseteq U PROVE Promise!Next
    <3>1. Unrecorded' \subseteq Unrecorded
        BY <1>0, <1>1, <1>3, <2>1
    <3>. QED
        BY <1>1, <1>3, <2>1, <3>1, PromiseLose
  <2>2. CASE ServerStep
    <3>1. Server /\ UNCHANGED <<bufferVars, clientVars>>
        BY <2>2 DEF ServerStep
    <3>. QED
        BY <2>1, <3>1, ServerUploads, CommitCounts
  <2>3. CASE EnvironmentStep
    <3>1. Environment /\ UNCHANGED clientVars
        BY <2>3 DEF EnvironmentStep
    <3>2. changes' = changes
        BY <3>1 DEF Environment, ExpireToken, SwitchDevice, LoseRequest
    <3>3. Posts' \subseteq Posts /\ Ids(pulses)' = Ids(pulses)
        BY <3>1 DEF Environment, ExpireToken, SwitchDevice, LoseRequest, clientVars, Posts, Ids
    <3>. QED
        BY <2>1, <3>2, <3>3 DEF Uploaded
  <2>4. CASE UploadStep \/ SendReturns \/ Reboot
    <3>1. Client \/ Restart
        BY <2>4 DEF UploadStep, webVars, SendReturns, Reboot, Client
    <3>. QED
        BY <2>1, <3>1, ClientUploads
  <2>5. CASE LoopStep \/ BufferStep \/ WebStep \/ Decide \/ \E ok \in BOOLEAN : InitWebReturns(ok)
    <3>1. UNCHANGED <<serverVars, clientVars>>
        BY <2>5 DEF LoopStep, BufferStep, WebStep, Decide, InitWebReturns, uploadVars
    <3>2. UNCHANGED <<changes, pulses, requests>>
        BY <3>1 DEF serverVars, clientVars
    <3>. QED
        BY <2>1, <3>2 DEF Uploaded, Posts, Ids
  <2>. QED
      BY <1>3, <2>2, <2>3, <2>4, <2>5 DEF SystemNext, SenderCalls
<1>4. CASE /\ sensed' = sensed + 1 /\ sensed + 1 \in 1..MaxPulses
           /\ B' = B \cup {sensed + 1} /\ UNCHANGED uploadVars
  <2>1. UNCHANGED <<changes, requests, pulses>>
      BY <1>4 DEF uploadVars, serverVars, clientVars
  <2>2. U' = U
      BY <2>1 DEF Uploaded, Posts, Ids
  <2>3. sensed + 1 \notin C
    <3>1. C \subseteq Ids(handed)
        BY <1>0 DEF TypeInv, UploadInv, DataInv, GivenInv, LinkInv
    <3>2. C \subseteq 1..sensed /\ sensed \in Nat
        BY <1>0, <3>1, PipelineParts
    <3>. QED
        BY <3>2
  <2>4. Unrecorded' = Unrecorded \cup {sensed + 1}
      BY <1>0, <1>1, <1>4, <2>1, <2>2, <2>3
  <2>5. sensed \in Nat
      BY <1>0, PipelineParts
  <2>. QED
      BY <1>1, <1>4, <2>1, <2>4, <2>5, PromiseSense
<1>. QED
    BY <1>0, <1>2, <1>3, <1>4, BufferedNext

\* From the contact of a meter to the table, every pulse is recorded at most
\* once and never comes back once it is lost: the whole system, whatever fails,
\* does what MeterReading promises.
THEOREM SystemKeepsPromise == SystemSpec => KeepsPromise
<1>1. SystemInit => Promise!Init
  <2> SUFFICES ASSUME SystemInit PROVE Promise!Init
      OBVIOUS
  <2>1. SystemInv /\ sensed = 0 /\ changes = <<>> /\ putting = <<>> /\ queue = <<>> /\ batch = <<>>
        /\ pulses = <<>> /\ requests = {}
      BY SystemInitially DEF SystemInit, Buffer!Init, Init, ServerInit
  <2>2. Buffered = {} /\ Uploaded = {} /\ 1..sensed = {}
      BY <2>1, EmptyRows DEF Buffered, Uploaded, Posts
  <2>3. Unrecorded = {}
      BY <2>1, <2>2, UnrecordedIs DEF SystemInv
  <2>4. Counted = [p \in 1..MaxPulses |-> 0]
    <3>1. \A p \in 1..MaxPulses : Counted[p] = 0
        BY <2>1, EmptyRows, CountOfDistinct DEF Counted
    <3>. QED
        BY <3>1 DEF Counted
  <2>. QED
      BY <2>2, <2>3, <2>4 DEF Promise!Init, Unrecorded, Counted
<1>2. SystemInv /\ SystemInv' /\ [SystemNext]_systemVars => [Promise!Next]_(Promise!vars)
  <2>1. UNCHANGED systemVars => UNCHANGED Promise!vars
    <3> SUFFICES ASSUME UNCHANGED systemVars PROVE UNCHANGED Promise!vars
        OBVIOUS
    <3>1. UNCHANGED <<sensed, putting, queue, batch, pulses, requests, changes>>
        BY DEF systemVars, bufferVars, uploadVars, serverVars, clientVars
    <3>2. Unrecorded' = Unrecorded /\ Counted' = Counted
        BY <3>1 DEF Unrecorded, Counted, IdsIn, InFlight
    <3>. QED
        BY <3>1, <3>2 DEF Promise!vars, Unrecorded, Counted
  <2>. QED
      BY <2>1, PromiseNext
<1>. QED
    BY <1>1, <1>2, SystemInvariant, PTL DEF SystemSpec, KeepsPromise, Promise!Spec

\* What follows from the promise alone: a pulse that waits, or that the meter
\* has not given, is not recorded yet.
ReadingInv ==
    /\ Counted \in [1..MaxPulses -> {0, 1}]
    /\ Unrecorded \subseteq 1..sensed
    /\ \A p \in 1..MaxPulses : p \in Unrecorded \/ p \notin 1..sensed => Counted[p] = 0

LEMMA ReadingNext == ReadingInv /\ [Promise!Next]_(Promise!vars) => ReadingInv'
<1> SUFFICES ASSUME ReadingInv, [Promise!Next]_(Promise!vars) PROVE ReadingInv'
    OBVIOUS
<1>1. ASSUME NEW S \in SUBSET (1..MaxPulses \ 1..sensed), Promise!Sense(S) PROVE ReadingInv'
  <2>1. /\ 1..sensed' = (1..sensed) \cup S /\ Unrecorded' = Unrecorded \cup S
        /\ Counted' = Counted
      BY <1>1 DEF Promise!Sense, Unrecorded, Counted
  <2>. QED
      BY <2>1 DEF ReadingInv
<1>2. ASSUME NEW S \in SUBSET Unrecorded, Promise!Record(S) PROVE ReadingInv'
  <2>1. /\ Counted' = [p \in 1..MaxPulses |-> IF p \in S THEN Counted[p] + 1 ELSE Counted[p]]
        /\ Unrecorded' = Unrecorded \ S /\ 1..sensed' = 1..sensed
      BY <1>2 DEF Promise!Record, Unrecorded, Counted
  <2>2. \A p \in 1..MaxPulses : p \in S => Counted[p] = 0
      BY <1>2 DEF ReadingInv
  <2>3. Counted' \in [1..MaxPulses -> {0, 1}]
      BY <2>1, <2>2 DEF ReadingInv
  <2>4. \A p \in 1..MaxPulses : p \in Unrecorded' \/ p \notin 1..sensed' => Counted'[p] = 0
      BY <1>2, <2>1 DEF ReadingInv
  <2>. QED
      BY <2>1, <2>3, <2>4 DEF ReadingInv
<1>3. ASSUME NEW S \in SUBSET Unrecorded, Promise!Lose(S) PROVE ReadingInv'
  <2>1. Unrecorded' = Unrecorded \ S /\ 1..sensed' = 1..sensed /\ Counted' = Counted
      BY <1>3 DEF Promise!Lose, Unrecorded, Counted
  <2>. QED
      BY <2>1 DEF ReadingInv
<1>4. CASE UNCHANGED Promise!vars
  <2>1. Unrecorded' = Unrecorded /\ 1..sensed' = 1..sensed /\ Counted' = Counted
      BY <1>4 DEF Promise!vars, Unrecorded, Counted
  <2>. QED
      BY <2>1 DEF ReadingInv
<1>. QED
    BY <1>1, <1>2, <1>3, <1>4 DEF Promise!Next, Unrecorded

LEMMA ReadingInvariant == Promise!Spec => []ReadingInv
<1>1. Promise!Init => ReadingInv
    BY DEF Promise!Init, ReadingInv, Unrecorded, Counted
<1>. QED
    BY <1>1, ReadingNext, PTL DEF Promise!Spec

\* A system that keeps the promise counts no pulse twice: the row of a pulse
\* in device_changes is unique, through retries, timeouts and restarts.
THEOREM CountedOnce == KeepsPromise => []Promise!AtMostOnce
<1>1. ReadingInv => Promise!AtMostOnce
  <2> SUFFICES ASSUME ReadingInv, NEW p \in 1..MaxPulses PROVE Counted[p] <= 1
      BY DEF Promise!AtMostOnce, Counted
  <2>1. Counted[p] = 0 \/ Counted[p] = 1
      BY DEF ReadingInv
  <2>. QED
      BY <2>1
<1>. QED
    BY <1>1, ReadingInvariant, PTL DEF KeepsPromise

\* A system that keeps the promise counts only pulses that the meter gave.
THEOREM CountedGiven == KeepsPromise => []Promise!NothingInvented
<1>1. ReadingInv => Promise!NothingInvented
  <2> SUFFICES ASSUME ReadingInv, NEW p \in 1..MaxPulses, Counted[p] > 0 PROVE p \in 1..sensed
      BY DEF Promise!NothingInvented, Counted
  <2>. QED
      BY DEF ReadingInv
<1>. QED
    BY <1>1, ReadingInvariant, PTL DEF KeepsPromise
=============================================================================
