------------------------- MODULE PulseBufferProofs --------------------------
(***************************************************************************)
(* Proofs about PulseBuffer, for every capacity, threshold and bound, and  *)
(* about MeterInput in front of it, for every number of pins.              *)
(***************************************************************************)
EXTENDS MeterInput, SequenceTheorems, TLAPS

LEMMA TypeInit == Init => TypeOK
<1> SUFFICES ASSUME Init PROVE TypeOK
    OBVIOUS
<1>1. <<>> \in Seq(Pulse) /\ Len(<<>>) = 0
    BY EmptySeq
<1>2. putting \in Seq(Pulse) /\ Len(putting) <= 1
    BY <1>1 DEF Init
<1>3. queue \in Seq(Pulse) /\ Len(queue) <= QueueSize
    BY <1>1, QueueSizeAssumption DEF Init
<1>4. batch \in Seq(Pulse) /\ handed \in Seq(Pulse)
    BY <1>1 DEF Init
<1>5. /\ lastQueuePut \in 0..MaxTime /\ now \in 1..MaxTime /\ queueSize \in 0..QueueSize
      /\ sensed \in 0..MaxPulses /\ reboots \in 0..MaxReboots
    BY QueueSizeAssumption, BoundsAssumption DEF Init
<1>6. mutexFree \in BOOLEAN /\ loopPc = "poll" /\ pc = "delay"
    BY DEF Init
<1> QED
    BY <1>2, <1>3, <1>4, <1>5, <1>6 DEF TypeOK

LEMMA TypeNext == TypeOK /\ [Next]_vars => TypeOK'
<1> SUFFICES ASSUME TypeOK, [Next]_vars PROVE TypeOK'
    OBVIOUS
<1> USE QueueSizeAssumption, BoundsAssumption
<1>0. <<>> \in Seq(Pulse) /\ Len(<<>>) = 0
    BY EmptySeq
<1>1. ASSUME NEW pin \in Pins, Sense(pin) PROVE TypeOK'
  <2> DEFINE p == [id |-> sensed + 1, pin |-> pin]
  <2>1. p \in Pulse
      BY <1>1 DEF Sense, TypeOK, Pulse
  <2>2. <<p>> \in Seq(Pulse) /\ Len(<<p>>) = 1
      BY <2>1
  <2> QED
      BY <1>1, <2>2 DEF Sense, TypeOK, senderVars
<1>2. CASE PutAccepted
  <2>1. queue \o putting \in Seq(Pulse) /\ Len(queue \o putting) = Len(queue) + Len(putting)
      BY ConcatProperties DEF TypeOK
  <2>2. Len(queue) \in Nat /\ Len(putting) \in Nat
      BY LenProperties DEF TypeOK
  <2> QED
      BY <1>0, <1>2, <2>1, <2>2 DEF PutAccepted, TypeOK, senderVars
<1>3. CASE PutTimedOut
    BY <1>0, <1>3 DEF PutTimedOut, TypeOK, senderVars
<1>4. CASE MarkPut
    BY <1>4 DEF MarkPut, TypeOK, senderVars
<1>5. CASE ReadQueueSize
  <2>1. Len(queue) \in Nat
      BY LenProperties DEF TypeOK
  <2> QED
      BY <1>5, <2>1 DEF ReadQueueSize, TypeOK, loopVars
<1>6. CASE Decide
    BY <1>6 DEF Decide, TypeOK, loopVars
<1>7. ASSUME NEW ok \in BOOLEAN, InitWebReturns(ok) PROVE TypeOK'
    BY <1>7 DEF InitWebReturns, TypeOK, loopVars
<1>8. CASE ReceivePulse
  <2>1. /\ Head(queue) \in Pulse /\ Tail(queue) \in Seq(Pulse)
        /\ Len(Tail(queue)) = Len(queue) - 1
      BY <1>8, HeadTailProperties DEF ReceivePulse, TypeOK
  <2>2. Append(batch, Head(queue)) \in Seq(Pulse)
      BY <2>1, AppendProperties DEF TypeOK
  <2>3. Len(queue) \in Nat
      BY LenProperties DEF TypeOK
  <2> QED
      BY <1>8, <2>1, <2>2, <2>3 DEF ReceivePulse, TypeOK, loopVars
<1>9. CASE ReceiveTimedOut
    BY <1>9 DEF ReceiveTimedOut, TypeOK, loopVars
<1>10. CASE SendBatch
  <2>1. handed \o batch \in Seq(Pulse)
      BY ConcatProperties DEF TypeOK
  <2> QED
      BY <1>0, <1>10, <2>1 DEF SendBatch, TypeOK, loopVars
<1>11. CASE SendReturns
    BY <1>11 DEF SendReturns, TypeOK, loopVars
<1>12. CASE Tick
    BY <1>12 DEF Tick, TypeOK, loopVars, senderVars
<1>13. CASE Reboot
  <2>1. putting' \in Seq(Pulse) /\ Len(putting') <= 1
      BY <1>0, <1>13 DEF Reboot
  <2>2. queue' \in Seq(Pulse) /\ Len(queue') <= QueueSize
      BY <1>0, <1>13 DEF Reboot
  <2>3. batch' \in Seq(Pulse) /\ handed' \in Seq(Pulse)
      BY <1>0, <1>13 DEF Reboot, TypeOK
  <2>4. /\ lastQueuePut' \in 0..MaxTime /\ now' \in 1..MaxTime /\ queueSize' \in 0..QueueSize
        /\ sensed' \in 0..MaxPulses /\ reboots' \in 0..MaxReboots
      BY <1>13 DEF Reboot, TypeOK
  <2>5. mutexFree' \in BOOLEAN /\ loopPc' = "poll" /\ pc' = "delay"
      BY <1>13 DEF Reboot
  <2> QED
      BY <2>1, <2>2, <2>3, <2>4, <2>5 DEF TypeOK
<1>14. CASE UNCHANGED vars
    BY <1>14 DEF vars, TypeOK
<1> QED
    BY <1>1, <1>2, <1>3, <1>4, <1>5, <1>6, <1>7, <1>8, <1>9, <1>10, <1>11, <1>12,
       <1>13, <1>14 DEF Next, Loop, Sender

\* The types of all variables, and the queue never beyond its capacity
\* (xQueueCreate at buffer.cpp:58).
THEOREM TypeCorrect == Spec => []TypeOK
<1>1. Init => TypeOK
    BY TypeInit
<1>2. TypeOK /\ [Next]_vars => TypeOK'
    BY TypeNext
<1> QED
    BY <1>1, <1>2, PTL DEF Spec

-----------------------------------------------------------------------------
(* The half-hour limit: queueMutex is never available, so lastQueuePut is  *)
(* never written and the first disjunct of TimeToSend decides alone.       *)

NeverMarked == mutexFree = FALSE /\ lastQueuePut = 0

FullBatchInv == TypeOK /\ NeverMarked /\ OnlyFullBatches

LEMMA FullBatchNext == FullBatchInv /\ [Next]_vars => FullBatchInv'
<1> SUFFICES ASSUME FullBatchInv, [Next]_vars PROVE NeverMarked' /\ OnlyFullBatches'
    BY TypeNext DEF FullBatchInv
<1> USE DEF FullBatchInv, NeverMarked, OnlyFullBatches, loopVars, senderVars
<1>1. CASE Decide
  <2>1. LastQueueAccess = 0
      BY DEF LastQueueAccess
  <2>2. TimeToSend => queueSize >= SendSize
      BY <2>1 DEF TimeToSend
  <2> QED
      BY <1>1, <2>2 DEF Decide
<1>2. CASE Reboot
    BY <1>2 DEF Reboot
<1>3. CASE MarkPut
    BY <1>3 DEF MarkPut
<1>4. CASE Loop
    BY <1>3, <1>4 DEF Loop, Sense, PutAccepted, PutTimedOut
<1>5. CASE Sender
    BY <1>1, <1>5 DEF Sender, ReadQueueSize, InitWebReturns, ReceivePulse,
       ReceiveTimedOut, SendBatch, SendReturns
<1>6. CASE Tick
    BY <1>6 DEF Tick
<1>7. CASE UNCHANGED vars
    BY <1>7 DEF vars
<1> QED
    BY <1>2, <1>4, <1>5, <1>6, <1>7 DEF Next

\* SenderTask opens a session only on a reading of SendSize pulses or more:
\* the half-hour limit of buffer.cpp:30 never opens one.
THEOREM FullBatches == Spec => []OnlyFullBatches
<1>1. Init => FullBatchInv
    BY TypeInit DEF Init, FullBatchInv, NeverMarked, OnlyFullBatches
<1>2. FullBatchInv /\ [Next]_vars => FullBatchInv'
    BY FullBatchNext
<1>3. FullBatchInv => OnlyFullBatches
    BY DEF FullBatchInv
<1> QED
    BY <1>1, <1>2, <1>3, PTL DEF Spec

-----------------------------------------------------------------------------
(* The order of the pulses.  A step leaves the sequence Pipeline as it is, *)
(* or adds the newest pulse at its end, or cuts its end off: so "no pulse  *)
(* is newer than sensed" and "the ids increase" are inductive together.    *)

Increasing(s) == \A i, j \in DOMAIN s : i < j => s[i].id < s[j].id

NoneNewer(s, n) == \A i \in DOMAIN s : s[i].id <= n

LEMMA IncreasingPrefix ==
    ASSUME NEW s \in Seq(Pulse), NEW t \in Seq(Pulse), NEW n \in Nat,
           Increasing(s \o t), NoneNewer(s \o t, n)
    PROVE  Increasing(s) /\ NoneNewer(s, n)
<1>1. Len(s) \in Nat /\ Len(t) \in Nat /\ DOMAIN s = 1..Len(s)
    BY LenProperties
<1>2. /\ s \o t \in Seq(Pulse)
      /\ Len(s \o t) = Len(s) + Len(t)
      /\ \A i \in 1..(Len(s) + Len(t)) : (s \o t)[i] = IF i <= Len(s) THEN s[i] ELSE t[i - Len(s)]
    BY ConcatProperties
<1>3. DOMAIN (s \o t) = 1..(Len(s) + Len(t))
    BY <1>2, LenProperties
<1>4. \A i \in DOMAIN s : i \in DOMAIN (s \o t) /\ (s \o t)[i] = s[i]
    BY <1>1, <1>2, <1>3
<1>5. Increasing(s)
    BY <1>4 DEF Increasing
<1>6. NoneNewer(s, n)
    BY <1>4 DEF NoneNewer
<1> QED
    BY <1>5, <1>6

LEMMA IncreasingAppend ==
    ASSUME NEW s \in Seq(Pulse), NEW p \in Pulse, NEW n \in Nat,
           Increasing(s), NoneNewer(s, n), p.id = n + 1
    PROVE  Increasing(s \o <<p>>) /\ NoneNewer(s \o <<p>>, n + 1)
<1> DEFINE t == s \o <<p>>
<1>1. Len(s) \in Nat /\ DOMAIN s = 1..Len(s)
    BY LenProperties
<1>2. t = Append(s, p)
    BY AppendIsConcat
<1>3. /\ t \in Seq(Pulse)
      /\ Len(t) = Len(s) + 1
      /\ \A i \in 1..Len(s) : t[i] = s[i]
      /\ t[Len(s) + 1] = p
    BY <1>2, AppendProperties
<1>4. DOMAIN t = 1..(Len(s) + 1)
    BY <1>3, LenProperties
<1> HIDE DEF t
<1>5. \A i \in DOMAIN t : (i \in DOMAIN s /\ t[i] = s[i]) \/ (i = Len(s) + 1 /\ t[i] = p)
  <2> TAKE i \in DOMAIN t
  <2>1. i \in 1..Len(s) \/ i = Len(s) + 1
      BY <1>1, <1>4
  <2> QED
      BY <1>1, <1>3, <2>1
<1>6. \A i \in DOMAIN s : s[i].id \in Nat
  <2>1. \A i \in DOMAIN s : s[i] \in Pulse
      BY <1>1, ElementOfSeq
  <2> QED
      BY <2>1, BoundsAssumption DEF Pulse
<1>7. ASSUME NEW i \in DOMAIN t, NEW j \in DOMAIN t, i < j
      PROVE  t[i].id < t[j].id
  <2>1. i \in DOMAIN s /\ t[i] = s[i]
      BY <1>1, <1>4, <1>5, <1>7
  <2>2. CASE j \in DOMAIN s /\ t[j] = s[j]
      BY <1>7, <2>1, <2>2 DEF Increasing
  <2>3. CASE t[j] = p
      BY <1>6, <2>1, <2>3 DEF NoneNewer
  <2> QED
      BY <1>5, <2>2, <2>3
<1>8. NoneNewer(t, n + 1)
    BY <1>5, <1>6 DEF NoneNewer
<1> QED
    BY <1>7, <1>8 DEF Increasing, t

OrderInv ==
    /\ TypeOK
    /\ loopPc # "put" => putting = <<>>
    /\ InSensedOrder
    /\ NoneNewer(Pipeline, sensed)

\* How a step changes the pipeline.
Grows(p)  == sensed' = sensed + 1 /\ p.id = sensed + 1 /\ Pipeline' = Pipeline \o <<p>>
Drops(s)  == sensed' = sensed /\ Pipeline = Pipeline' \o s
Same      == sensed' = sensed /\ Pipeline' = Pipeline

LEMMA PipelineType == TypeOK => Pipeline \in Seq(Pulse) /\ handed \o batch \in Seq(Pulse)
                                  /\ handed \o batch \o queue \in Seq(Pulse)
<1> SUFFICES ASSUME TypeOK
             PROVE  Pipeline \in Seq(Pulse) /\ handed \o batch \in Seq(Pulse)
                      /\ handed \o batch \o queue \in Seq(Pulse)
    OBVIOUS
<1>1. handed \in Seq(Pulse) /\ batch \in Seq(Pulse) /\ queue \in Seq(Pulse) /\ putting \in Seq(Pulse)
    BY DEF TypeOK
<1>2. handed \o batch \in Seq(Pulse)
    BY <1>1, ConcatProperties
<1>3. handed \o batch \o queue \in Seq(Pulse)
    BY <1>1, <1>2, ConcatProperties
<1> QED
    BY <1>1, <1>2, <1>3, ConcatProperties DEF Pipeline

LEMMA SenseGrows ==
    ASSUME TypeOK, loopPc # "put" => putting = <<>>, NEW pin \in Pins, Sense(pin)
    PROVE  \E p \in Pulse : Grows(p)
<1> DEFINE p == [id |-> sensed + 1, pin |-> pin]
           front == handed \o batch \o queue
<1>1. p \in Pulse /\ p.id = sensed + 1 /\ sensed' = sensed + 1
    BY BoundsAssumption DEF Sense, TypeOK, Pulse
<1>2. putting = <<>> /\ putting' = <<p>>
    BY DEF Sense
<1>3. front' = front
    BY DEF Sense, senderVars
<1>4. Pipeline = front /\ Pipeline' = front \o <<p>>
    BY <1>2, <1>3, PipelineType, ConcatEmptySeq DEF Pipeline
<1> QED
    BY <1>1, <1>4 DEF Grows

LEMMA PutAcceptedSame ==
    ASSUME TypeOK, PutAccepted PROVE Same
<1> DEFINE front == handed \o batch
<1>1. front \in Seq(Pulse) /\ queue \in Seq(Pulse) /\ putting \in Seq(Pulse)
    BY PipelineType DEF TypeOK
<1>2. front' = front /\ queue' = queue \o putting /\ putting' = <<>> /\ sensed' = sensed
    BY DEF PutAccepted, senderVars
<1>3. Pipeline' = front \o (queue \o putting) \o <<>>
    BY <1>2 DEF Pipeline
<1>4. queue \o putting \in Seq(Pulse)
    BY <1>1, ConcatProperties
<1>5. front \o (queue \o putting) \in Seq(Pulse)
    BY <1>1, <1>4, ConcatProperties
<1>6. Pipeline' = front \o (queue \o putting)
    BY <1>3, <1>5, ConcatEmptySeq
<1>7. (front \o queue) \o putting = front \o (queue \o putting)
    BY <1>1, ConcatAssociative
<1> QED
    BY <1>2, <1>6, <1>7 DEF Pipeline, Same

LEMMA PutTimedOutDrops ==
    ASSUME TypeOK, PutTimedOut PROVE Drops(putting)
<1> DEFINE front == handed \o batch \o queue
<1>1. front \in Seq(Pulse)
    BY PipelineType
<1>2. front' = front /\ putting' = <<>> /\ sensed' = sensed
    BY DEF PutTimedOut, senderVars
<1>3. Pipeline' = front
    BY <1>1, <1>2, ConcatEmptySeq DEF Pipeline
<1> QED
    BY <1>2, <1>3 DEF Pipeline, Drops

LEMMA ReceivePulseSame ==
    ASSUME TypeOK, ReceivePulse PROVE Same
<1> DEFINE h == Head(queue)
           t == Tail(queue)
<1>0. handed \in Seq(Pulse) /\ batch \in Seq(Pulse) /\ queue \in Seq(Pulse) /\ queue # <<>>
    BY DEF TypeOK, ReceivePulse
<1>1. h \in Pulse /\ t \in Seq(Pulse) /\ <<h>> \in Seq(Pulse) /\ queue = <<h>> \o t
    BY <1>0
<1>2. batch' = batch \o <<h>>
    BY <1>0, <1>1, AppendIsConcat DEF ReceivePulse
<1>3. handed \o (batch \o <<h>>) = (handed \o batch) \o <<h>>
    BY <1>0, <1>1, ConcatAssociative
<1>4. handed \o batch \in Seq(Pulse)
    BY PipelineType
<1>5. ((handed \o batch) \o <<h>>) \o t = (handed \o batch) \o queue
    BY <1>1, <1>4, ConcatAssociative
<1>6. handed' = handed /\ queue' = t /\ putting' = putting /\ sensed' = sensed
    BY DEF ReceivePulse, loopVars
<1> QED
    BY <1>2, <1>3, <1>5, <1>6 DEF Pipeline, Same

LEMMA SendBatchSame ==
    ASSUME TypeOK, SendBatch PROVE Same
<1>1. handed \o batch \in Seq(Pulse)
    BY PipelineType
<1>2. handed' = handed \o batch /\ batch' = <<>>
    BY DEF SendBatch
<1>3. handed' \o batch' = handed \o batch
    BY <1>1, <1>2, ConcatEmptySeq
<1>4. queue' = queue /\ putting' = putting /\ sensed' = sensed
    BY DEF SendBatch, loopVars
<1> QED
    BY <1>3, <1>4 DEF Pipeline, Same

LEMMA RebootDrops ==
    ASSUME TypeOK, Reboot PROVE Drops(batch \o queue \o putting)
<1> DEFINE middle == batch \o queue
<1>1. handed \in Seq(Pulse) /\ batch \in Seq(Pulse) /\ queue \in Seq(Pulse) /\ putting \in Seq(Pulse)
    BY DEF TypeOK
<1>2. middle \in Seq(Pulse)
    BY <1>1, ConcatProperties
<1>3. (handed \o batch) \o queue = handed \o middle
    BY <1>1, ConcatAssociative
<1>4. (handed \o middle) \o putting = handed \o (middle \o putting)
  <2> HIDE DEF middle
  <2> QED
      BY <1>1, <1>2, ConcatAssociative
<1>5. Pipeline' = handed
  <2>1. handed' = handed /\ batch' = <<>> /\ queue' = <<>> /\ putting' = <<>>
      BY DEF Reboot
  <2> QED
      BY <1>1, <2>1, ConcatEmptySeq DEF Pipeline
<1>6. sensed' = sensed
    BY DEF Reboot
<1> QED
    BY <1>3, <1>4, <1>5, <1>6 DEF Pipeline, Drops

\* The other steps do not touch the pipeline.
LEMMA PipelineStep ==
    ASSUME TypeOK, loopPc # "put" => putting = <<>>, [Next]_vars
    PROVE  \/ \E p \in Pulse : Grows(p)
           \/ Same
           \/ PutTimedOut /\ Drops(putting)
           \/ Reboot /\ Drops(batch \o queue \o putting)
<1>1. CASE Loop
    BY <1>1, SenseGrows, PutAcceptedSame, PutTimedOutDrops
       DEF Loop, MarkPut, Same, Pipeline, senderVars
<1>2. CASE Sender
    BY <1>2, ReceivePulseSame, SendBatchSame
       DEF Sender, ReadQueueSize, Decide, InitWebReturns, ReceiveTimedOut, SendReturns,
           Same, Pipeline, loopVars
<1>3. CASE Tick
    BY <1>3 DEF Tick, Same, Pipeline, loopVars, senderVars
<1>4. CASE Reboot
    BY <1>4, RebootDrops
<1>5. CASE UNCHANGED vars
    BY <1>5 DEF vars, Same, Pipeline
<1> QED
    BY <1>1, <1>2, <1>3, <1>4, <1>5 DEF Next

LEMMA OrderNext == OrderInv /\ [Next]_vars => OrderInv'
<1> SUFFICES ASSUME OrderInv, [Next]_vars PROVE OrderInv'
    OBVIOUS
<1>1. TypeOK /\ (loopPc # "put" => putting = <<>>) /\ TypeOK'
    BY TypeNext DEF OrderInv
<1>2. (loopPc # "put" => putting = <<>>)'
  <2>1. CASE Loop
      BY <1>1, <2>1 DEF Loop, Sense, PutAccepted, PutTimedOut, MarkPut
  <2>2. CASE Sender \/ Tick
      BY <1>1, <2>2 DEF Sender, ReadQueueSize, Decide, InitWebReturns, ReceivePulse,
         ReceiveTimedOut, SendBatch, SendReturns, Tick, loopVars
  <2>3. CASE Reboot
      BY <2>3 DEF Reboot
  <2>4. CASE UNCHANGED vars
      BY <1>1, <2>4 DEF vars
  <2> QED
      BY <2>1, <2>2, <2>3, <2>4 DEF Next
<1>3. Pipeline \in Seq(Pulse) /\ Pipeline' \in Seq(Pulse)
  <2>1. /\ handed' \in Seq(Pulse) /\ batch' \in Seq(Pulse)
        /\ queue' \in Seq(Pulse) /\ putting' \in Seq(Pulse)
      BY <1>1 DEF TypeOK
  <2>2. handed' \o batch' \in Seq(Pulse)
      BY <2>1, ConcatProperties
  <2>3. handed' \o batch' \o queue' \in Seq(Pulse)
      BY <2>1, <2>2, ConcatProperties
  <2>4. Pipeline' \in Seq(Pulse)
      BY <2>1, <2>3, ConcatProperties DEF Pipeline
  <2> QED
      BY <1>1, <2>4, PipelineType
<1>4. Increasing(Pipeline) /\ NoneNewer(Pipeline, sensed) /\ sensed \in Nat
    BY DEF OrderInv, InSensedOrder, Increasing, TypeOK
<1>5. Increasing(Pipeline') /\ NoneNewer(Pipeline', sensed')
  <2>1. ASSUME NEW p \in Pulse, Grows(p) PROVE Increasing(Pipeline') /\ NoneNewer(Pipeline', sensed')
      BY <1>3, <1>4, <2>1, IncreasingAppend DEF Grows
  <2>2. CASE Same
      BY <1>4, <2>2 DEF Same
  <2>3. ASSUME NEW s \in Seq(Pulse), Drops(s) PROVE Increasing(Pipeline') /\ NoneNewer(Pipeline', sensed')
      BY <1>3, <1>4, <2>3, IncreasingPrefix DEF Drops
  <2>4. putting \in Seq(Pulse) /\ batch \o queue \o putting \in Seq(Pulse)
    <3>1. putting \in Seq(Pulse) /\ batch \o queue \in Seq(Pulse)
        BY <1>1, ConcatProperties DEF TypeOK
    <3> QED
        BY <3>1, ConcatProperties
  <2> QED
      BY <1>1, <2>1, <2>2, <2>3, <2>4, PipelineStep
<1>6. InSensedOrder' /\ NoneNewer(Pipeline, sensed)'
    BY <1>5 DEF InSensedOrder, Increasing, NoneNewer
<1> QED
    BY <1>1, <1>2, <1>6 DEF OrderInv

LEMMA OrderInit == Init => OrderInv
<1> SUFFICES ASSUME Init PROVE OrderInv
    OBVIOUS
<1>1. <<>> \in Seq(Pulse)
    BY EmptySeq
<1>2. Pipeline = <<>>
    BY <1>1, ConcatEmptySeq DEF Pipeline, Init
<1>3. DOMAIN Pipeline = {}
    BY <1>2
<1>4. InSensedOrder /\ NoneNewer(Pipeline, sensed)
    BY <1>3 DEF InSensedOrder, NoneNewer
<1>5. putting = <<>>
    BY DEF Init
<1> QED
    BY <1>4, <1>5, TypeInit DEF OrderInv

LEMMA OrderInvariant == Spec => []OrderInv
<1>1. Init => OrderInv
    BY OrderInit
<1>2. OrderInv /\ [Next]_vars => OrderInv'
    BY OrderNext
<1> QED
    BY <1>1, <1>2, PTL DEF Spec

\* Pulses reach sendData2Web in the order in which the loop task sensed them
\* and none twice, whatever the interleaving with SenderTask and the restarts
\* (buffer.cpp:34-45, 81-103).
THEOREM OrderKept == Spec => []InSensedOrder
<1>1. OrderInv => InSensedOrder
    BY DEF OrderInv
<1> QED
    BY <1>1, OrderInvariant, PTL

-----------------------------------------------------------------------------
(* Where pulses disappear.                                                 *)

LEMMA IdsOfConcat ==
    ASSUME NEW s \in Seq(Pulse), NEW t \in Seq(Pulse)
    PROVE  IdsOf(s \o t) = IdsOf(s) \cup IdsOf(t)
<1> DEFINE c == s \o t
<1>1. Len(s) \in Nat /\ DOMAIN s = 1..Len(s) /\ Len(t) \in Nat /\ DOMAIN t = 1..Len(t)
    BY LenProperties
<1>2. /\ c \in Seq(Pulse)
      /\ Len(c) = Len(s) + Len(t)
      /\ \A i \in 1..(Len(s) + Len(t)) : c[i] = IF i <= Len(s) THEN s[i] ELSE t[i - Len(s)]
    BY ConcatProperties
<1>3. DOMAIN c = 1..(Len(s) + Len(t))
    BY <1>2, LenProperties
<1> HIDE DEF c
<1>4. \A i \in DOMAIN s : i \in DOMAIN c /\ c[i] = s[i]
    BY <1>1, <1>2, <1>3
<1>5. \A i \in DOMAIN t : Len(s) + i \in DOMAIN c /\ c[Len(s) + i] = t[i]
    BY <1>1, <1>2, <1>3
<1>6. \A i \in DOMAIN c : \/ i \in DOMAIN s /\ c[i] = s[i]
                          \/ i - Len(s) \in DOMAIN t /\ c[i] = t[i - Len(s)]
    BY <1>1, <1>2, <1>3
<1>7. IdsOf(c) \subseteq IdsOf(s) \cup IdsOf(t)
    BY <1>6 DEF IdsOf
<1>8. IdsOf(s) \subseteq IdsOf(c) /\ IdsOf(t) \subseteq IdsOf(c)
    BY <1>4, <1>5 DEF IdsOf
<1> QED
    BY <1>7, <1>8 DEF c

LEMMA IncreasingDisjoint ==
    ASSUME NEW s \in Seq(Pulse), NEW t \in Seq(Pulse), Increasing(s \o t)
    PROVE  IdsOf(s) \cap IdsOf(t) = {}
<1> DEFINE c == s \o t
<1>1. Len(s) \in Nat /\ DOMAIN s = 1..Len(s) /\ Len(t) \in Nat /\ DOMAIN t = 1..Len(t)
    BY LenProperties
<1>2. /\ c \in Seq(Pulse)
      /\ Len(c) = Len(s) + Len(t)
      /\ \A i \in 1..(Len(s) + Len(t)) : c[i] = IF i <= Len(s) THEN s[i] ELSE t[i - Len(s)]
    BY ConcatProperties
<1>3. DOMAIN c = 1..(Len(s) + Len(t))
    BY <1>2, LenProperties
<1>4. Increasing(c)
    OBVIOUS
<1> HIDE DEF c
<1>5. \A i \in DOMAIN s : i \in DOMAIN c /\ c[i] = s[i]
    BY <1>1, <1>2, <1>3
<1>6. \A j \in DOMAIN t : Len(s) + j \in DOMAIN c /\ c[Len(s) + j] = t[j]
    BY <1>1, <1>2, <1>3
<1>7. ASSUME NEW i \in DOMAIN s, NEW j \in DOMAIN t PROVE s[i].id # t[j].id
  <2>1. i < Len(s) + j
      BY <1>1
  <2>2. s[i].id < t[j].id
      BY <1>4, <1>5, <1>6, <2>1 DEF Increasing
  <2>3. s[i] \in Pulse /\ t[j] \in Pulse
      BY <1>1, ElementOfSeq
  <2>4. s[i].id \in Nat /\ t[j].id \in Nat
      BY <2>3, BoundsAssumption DEF Pulse
  <2> QED
      BY <2>2, <2>4
<1> QED
    BY <1>7 DEF IdsOf

LEMMA IdsSensed ==
    ASSUME NEW s \in Seq(Pulse), NEW n \in Nat, NoneNewer(s, n)
    PROVE  IdsOf(s) \subseteq 1..n
<1>1. \A i \in DOMAIN s : s[i] \in Pulse
    BY LenProperties, ElementOfSeq
<1>2. \A i \in DOMAIN s : s[i].id \in 1..MaxPulses
    BY <1>1 DEF Pulse
<1> QED
    BY <1>2, BoundsAssumption DEF IdsOf, NoneNewer

\* A pulse disappears from the board only by a loss of power, or alone, at a
\* queue that is full: no step of SenderTask loses one (buffer.cpp:91-102).
THEOREM LossesKnown == Spec => LostOnlyWhenFull
<1> DEFINE Known == Missing' # Missing =>
                      \/ reboots' # reboots
                      \/ Len(queue) = QueueSize /\ Missing' = Missing \cup IdsOf(putting)
<1>1. ASSUME OrderInv, [Next]_vars PROVE Known
  <2>1. TypeOK /\ (loopPc # "put" => putting = <<>>) /\ NoneNewer(Pipeline, sensed)
        /\ Pipeline \in Seq(Pulse) /\ sensed \in Nat /\ putting \in Seq(Pulse)
      BY <1>1, PipelineType DEF OrderInv, TypeOK
  <2>2. Increasing(Pipeline)
      BY <1>1 DEF OrderInv, InSensedOrder, Increasing
  <2>3. OrderInv'
      BY <1>1, OrderNext
  <2>4. ASSUME NEW p \in Pulse, Grows(p) PROVE Missing' = Missing
    <3>1. <<p>> \in Seq(Pulse) /\ IdsOf(<<p>>) = {sensed + 1}
        BY <2>4 DEF Grows, IdsOf
    <3>2. IdsOf(Pipeline') = IdsOf(Pipeline) \cup {sensed + 1}
        BY <2>1, <2>4, <3>1, IdsOfConcat DEF Grows
    <3>3. Missing' = (1..(sensed + 1)) \ IdsOf(Pipeline')
        BY <2>4 DEF Grows, Missing, IdsOf
    <3> QED
        BY <2>1, <3>2, <3>3 DEF Missing
  <2>5. CASE Same
      BY <2>5 DEF Same, Missing, IdsOf
  <2>6. CASE PutTimedOut /\ Drops(putting)
    <3>1. Pipeline' \in Seq(Pulse)
      <4>1. handed' = handed /\ batch' = batch /\ queue' = queue /\ putting' = <<>>
          BY <2>6 DEF PutTimedOut, senderVars
      <4>2. Pipeline' = handed \o batch \o queue
          BY <2>1, <4>1, PipelineType, ConcatEmptySeq DEF Pipeline
      <4> QED
          BY <2>1, <4>2, PipelineType
    <3>2. Pipeline = Pipeline' \o putting /\ sensed' = sensed
        BY <2>6 DEF Drops
    <3>3. IdsOf(Pipeline) = IdsOf(Pipeline') \cup IdsOf(putting)
        BY <2>1, <3>1, <3>2, IdsOfConcat
    <3>4. IdsOf(Pipeline') \cap IdsOf(putting) = {}
        BY <2>1, <2>2, <3>1, <3>2, IncreasingDisjoint
    <3>5. IdsOf(Pipeline) \subseteq 1..sensed
        BY <2>1, IdsSensed
    <3>6. Missing' = (1..sensed) \ IdsOf(Pipeline')
        BY <3>2 DEF Missing, IdsOf
    <3>7. Missing' = Missing \cup IdsOf(putting)
        BY <3>3, <3>4, <3>5, <3>6 DEF Missing
    <3> QED
        BY <2>6, <3>7 DEF PutTimedOut
  <2>7. CASE Reboot
      BY <2>1, <2>7 DEF Reboot, TypeOK
  <2> QED
      BY <1>1, <2>1, <2>4, <2>5, <2>6, <2>7, PipelineStep
<1>2. OrderInv /\ [Next]_vars => [Known]_vars
    BY <1>1
<1> QED
    BY <1>2, OrderInvariant, PTL DEF Spec, LostOnlyWhenFull

-----------------------------------------------------------------------------
(* The old reading queueSize: between the reading and the drain only the   *)
(* loop task touches the queue, and it only adds to it.                    *)

Session ==
    /\ pc \in {"decide", "initWeb"} => queueSize <= Len(queue)
    /\ pc = "initWeb" => queueSize > 0
    /\ pc = "drain" => queue # <<>> \/ batch # <<>>

SessionInv == TypeOK /\ Session

LEMMA SessionNext == SessionInv /\ [Next]_vars => SessionInv'
<1> SUFFICES ASSUME SessionInv, [Next]_vars PROVE Session'
    BY TypeNext DEF SessionInv
<1>1. TypeOK /\ TypeOK' /\ queue \in Seq(Pulse) /\ Len(queue) \in Nat /\ queueSize \in Nat
  <2>1. TypeOK /\ TypeOK'
      BY TypeNext DEF SessionInv
  <2> QED
      BY <2>1, LenProperties, QueueSizeAssumption DEF TypeOK
<1>2. Session
    BY DEF SessionInv
<1> USE DEF Session
<1>3. CASE PutAccepted
  <2>1. queue' = queue \o putting /\ pc' = pc /\ queueSize' = queueSize /\ batch' = batch
      BY <1>3 DEF PutAccepted, senderVars
  <2>2. putting \in Seq(Pulse) /\ Len(putting) \in Nat
      BY <1>1, LenProperties DEF TypeOK
  <2>3. Len(queue') = Len(queue) + Len(putting) /\ (queue # <<>> => queue' # <<>>)
      BY <1>1, <2>1, <2>2, ConcatProperties, ConcatEqualIffEmpty
  <2> QED
      BY <1>1, <1>2, <2>1, <2>2, <2>3
<1>4. CASE Loop
    BY <1>2, <1>3, <1>4 DEF Loop, Sense, PutTimedOut, MarkPut, senderVars
<1>5. CASE ReadQueueSize
    BY <1>1, <1>5 DEF ReadQueueSize
<1>6. CASE Decide
  <2>1. TimeToSend => queueSize > 0
      BY <1>1, SendSizeAssumption DEF TimeToSend
  <2> QED
      BY <1>2, <1>6, <2>1 DEF Decide
<1>7. ASSUME NEW ok \in BOOLEAN, InitWebReturns(ok) PROVE Session'
  <2>1. pc = "initWeb" => queue # <<>>
      BY <1>1, <1>2, EmptySeq
  <2> QED
      BY <1>7, <2>1 DEF InitWebReturns
<1>8. CASE ReceivePulse
  <2>1. batch' # <<>> /\ pc' = "drain"
    <3>1. batch \in Seq(Pulse) /\ Head(queue) \in Pulse
        BY <1>1, <1>8, HeadTailProperties DEF TypeOK, ReceivePulse
    <3> QED
        BY <1>8, <3>1, AppendProperties DEF ReceivePulse
  <2> QED
      BY <2>1
<1>9. CASE ReceiveTimedOut
    BY <1>9 DEF ReceiveTimedOut
<1>10. CASE SendBatch \/ SendReturns
    BY <1>10 DEF SendBatch, SendReturns
<1>11. CASE Tick
    BY <1>2, <1>11 DEF Tick, senderVars
<1>12. CASE Reboot
    BY <1>12 DEF Reboot
<1>13. CASE UNCHANGED vars
    BY <1>2, <1>13 DEF vars
<1> QED
    BY <1>4, <1>5, <1>6, <1>7, <1>8, <1>9, <1>10, <1>11, <1>12, <1>13 DEF Next, Sender

\* A session that initWeb opened finds a pulse to send, so the Disconnect()
\* that buffer.cpp:42-45 skips for an empty vector is never skipped.
THEOREM SessionsSend == Spec => []SessionHasPulse
<1>1. Init => SessionInv
    BY TypeInit DEF Init, SessionInv, Session
<1>2. SessionInv /\ [Next]_vars => SessionInv'
    BY SessionNext
<1>3. SessionInv => SessionHasPulse
  <2> SUFFICES ASSUME SessionInv PROVE SessionHasPulse
      OBVIOUS
  <2>1. queue \in Seq(Pulse) /\ queueSize \in Nat
      BY QueueSizeAssumption DEF SessionInv, TypeOK
  <2>2. pc = "initWeb" => queue # <<>>
      BY <2>1, EmptySeq DEF SessionInv, Session
  <2> QED
      BY <2>2 DEF SessionInv, Session, SessionHasPulse
<1> QED
    BY <1>1, <1>2, <1>3, PTL DEF Spec

-----------------------------------------------------------------------------
(* The polling of the pins in front of the buffer.                         *)

LEMMA InputStepIsStep == [InputNext]_inputVars => [Next]_vars
<1> SUFFICES ASSUME InputNext PROVE [Next]_vars
    BY DEF inputVars
<1>1. ASSUME NEW p \in Pins, NEW reading \in Reading, Poll(p, reading) PROVE [Next]_vars
    BY <1>1 DEF Poll, Next, Loop
<1>2. CASE PutStep
    BY <1>2 DEF PutStep, Next, Loop
<1>3. CASE SenderStep \/ Boot \/ Tick
    BY <1>3 DEF SenderStep, Boot, Next
<1>. QED
    BY <1>1, <1>2, <1>3 DEF InputNext, LoopTask

\* Whatever the contacts and Bounce2 do, the buffer sees its own specification:
\* the theorems about it hold behind loop() (main.ino).
THEOREM InputImplementsBuffer == InputSpec => Spec
<1>1. InputInit => Init
    BY DEF InputInit
<1>. QED
    BY <1>1, InputStepIsStep, PTL DEF InputSpec, Spec

\* A Bounce that is one reading away from a pulse has not yet given one for
\* this closure.
ClosureInv ==
    /\ unstable \in [Pins -> Reading]
    /\ debounced \in [Pins -> Reading]
    /\ uncounted \in [Pins -> BOOLEAN]
    /\ \A p \in Pins : debounced[p] = "HIGH" /\ unstable[p] = "LOW" => uncounted[p]

LEMMA ClosureNext == ClosureInv /\ [InputNext]_inputVars => ClosureInv'
<1> SUFFICES ASSUME ClosureInv, [InputNext]_inputVars PROVE ClosureInv'
    OBVIOUS
<1> USE DEF ClosureInv
<1>1. ASSUME NEW p \in Pins, NEW reading \in Reading, Poll(p, reading) PROVE ClosureInv'
  <2>1. /\ debounced' = [debounced EXCEPT ![p] = Debounce(p, reading)]
        /\ unstable' = [unstable EXCEPT ![p] = reading]
        /\ uncounted' = [uncounted EXCEPT ![p] = Seen(reading, p) /\ ~IsPulse(p)]
        /\ Debounce(p, reading) \in Reading
      BY <1>1 DEF Poll, Debounce
  <2>2. debounced'[p] = Debounce(p, reading) /\ unstable'[p] = reading
      BY <2>1
  <2>3. ASSUME debounced'[p] = "HIGH", unstable'[p] = "LOW" PROVE Seen(reading, p) /\ ~IsPulse(p)
    <3>1. reading = "LOW" /\ unstable[p] = "HIGH"
        BY <2>2, <2>3 DEF Debounce, Reading
    <3>. QED
        BY <2>3, <3>1 DEF Seen, IsPulse
  <2>4. uncounted' \in [Pins -> BOOLEAN]
    <3>1. (Seen(reading, p) /\ ~IsPulse(p)) \in BOOLEAN
        BY DEF Seen, IsPulse
    <3>. QED
        BY <2>1, <3>1
  <2>5. ASSUME NEW q \in Pins, debounced'[q] = "HIGH", unstable'[q] = "LOW" PROVE uncounted'[q]
    <3>1. CASE q = p
        BY <2>1, <2>3, <2>5, <3>1
    <3>2. CASE q # p
        BY <2>1, <2>5, <3>2
    <3>. QED
        BY <3>1, <3>2
  <2>. QED
      BY <2>1, <2>4, <2>5
<1>2. CASE UNCHANGED bounceVars
    BY <1>2 DEF bounceVars
<1>3. CASE Boot
    BY <1>3 DEF Boot, Begin, Seen
<1>. QED
    BY <1>1, <1>2, <1>3 DEF InputNext, LoopTask, PutStep, SenderStep, inputVars

\* A closure of a contact is counted at most once, however long it lasts,
\* however the contact flickers and wherever the board restarts (update() and
\* the LOW test of loop(), begin() in setup()).
THEOREM ClosuresCountOnce == InputSpec => OncePerClosure
<1> DEFINE Once == sensed' # sensed => uncounted[putting'[1].pin]
<1>1. InputInit => ClosureInv
    BY DEF InputInit, ClosureInv
<1>2. ASSUME ClosureInv, InputNext PROVE Once
  <2>1. ASSUME NEW p \in Pins, NEW reading \in Reading, Poll(p, reading), sensed' # sensed
        PROVE  uncounted[p] /\ putting'[1].pin = p
    <3>1. IsPulse(p) /\ Sense(p)
        BY <2>1 DEF Poll, vars
    <3>2. debounced' = [debounced EXCEPT ![p] = Debounce(p, reading)]
        BY <2>1 DEF Poll
    <3>3. debounced[p] = "HIGH" /\ unstable[p] = "LOW"
        BY <1>2, <3>1, <3>2 DEF IsPulse, Debounce, ClosureInv, Reading
    <3>4. putting' = <<[id |-> sensed + 1, pin |-> p]>>
        BY <3>1 DEF Sense
    <3>. QED
        BY <1>2, <3>3, <3>4 DEF ClosureInv
  <2>2. CASE PutStep \/ SenderStep \/ Boot \/ Tick
    <3>1. sensed' = sensed
        BY <2>2 DEF PutStep, PutAccepted, PutTimedOut, MarkPut, SenderStep, Sender,
                    ReadQueueSize, Decide, InitWebReturns, ReceivePulse, ReceiveTimedOut,
                    SendBatch, SendReturns, Boot, Reboot, Tick, loopVars
    <3>. QED
        BY <3>1
  <2>. QED
      BY <1>2, <2>1, <2>2 DEF InputNext, LoopTask
<1>3. ClosureInv /\ [InputNext]_inputVars => [Once]_inputVars
    BY <1>2
<1>. QED
    BY <1>1, <1>3, ClosureNext, PTL DEF InputSpec, OncePerClosure
=============================================================================
