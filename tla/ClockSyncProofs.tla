-------------------------- MODULE ClockSyncProofs ---------------------------
(***************************************************************************)
(* Proofs about ClockSync, for any number of answers: the two ways in      *)
(* which setDateTime and the SNTP callback come to be inside at once, the  *)
(* wait that ends with a time base all the same, and WebInit implemented.  *)
(***************************************************************************)
EXTENDS ClockSync, TLAPS

\* Who holds the semaphore: it exists while setDateTime runs, and as long as
\* nobody gave or passed it without holding it, it is empty and the callback
\* outside when setDateTime has it, and the callback is outside when it is free.
Holding ==
    /\ dt = "off" => mutex \in {"none", "deleted"}
    /\ dt # "off" => mutex = "created"
    /\ ~loose /\ dt \in {"check", "delete"} => tokens = 0 /\ cb \notin Critical
    /\ ~loose /\ dt # "off" /\ tokens = 1 => cb \notin Critical

\* What the flags say of the past.
Flags ==
    /\ web = "setDateTime" <=> dt # "off"
    /\ sntpStarted => isWIFIConnect
    /\ isSynchronized => sntpStarted
    /\ cb # "idle" => sntpStarted /\ currTimeinfo > 0
    /\ cb \in {"synchronized", "stamped", "finished"} => isSynchronized
    /\ cb \in {"stamped", "finished"} => synchTime > 0
    /\ sntpFinish => isSynchronized /\ synchTime > 0
    /\ expired => Faults
    /\ dt = "delete" => sntpFinish \/ expired
    /\ sntpStarted => mutex # "none"

SyncInv == SyncTypeOK /\ Holding /\ Flags

LEMMA SyncInvInit == SyncInit => SyncInv
<1> SUFFICES ASSUME SyncInit PROVE SyncTypeOK /\ Holding /\ Flags
    BY DEF SyncInv
<1>1. answers \in 0..MaxAnswers /\ currTimeinfo \in 0..answers /\ synchTime \in 0..answers
    BY AnswersAssumption DEF SyncInit
<1>2. SyncTypeOK
  <2>1. TypeOK
      BY DEF SyncInit, Init, TypeOK
  <2>4. mutex = "none" /\ tokens \in 0..1
      BY DEF SyncInit
  <2>2. cb \in {"idle", "wrote"} \cup Critical
      BY DEF SyncInit
  <2>3. loose \in BOOLEAN /\ sntpFinish \in BOOLEAN /\ expired \in BOOLEAN
      BY DEF SyncInit
  <2> QED
      BY <1>1, <2>1, <2>2, <2>3, <2>4 DEF SyncInit, SyncTypeOK
<1>3. Holding
    BY DEF SyncInit, Holding
<1>4. Flags
    BY DEF SyncInit, Init, Flags
<1> QED
    BY <1>2, <1>3, <1>4

LEMMA SyncInvNext == SyncInv /\ [SyncNext]_allVars => SyncInv'
<1> SUFFICES ASSUME SyncInv, [SyncNext]_allVars PROVE SyncInv'
    OBVIOUS
<1>1. CASE OtherSteps
  <2>1. UNCHANGED syncVars
      BY <1>1 DEF OtherSteps
  <2>2. Holding'
      BY <2>1 DEF SyncInv, Holding, syncVars
  <2>3. TypeOK' /\ (web' = "setDateTime" <=> web = "setDateTime")
      BY <1>1 DEF SyncInv, SyncTypeOK, TypeOK, OtherSteps, Call, ReadMacAddress, StartConnecting,
         Connected, ConnectTimedOut, SkipDateTime, LinkLost, Disconnect, Return
  <2>4. /\ isWIFIConnect => isWIFIConnect'
        /\ isSynchronized' = isSynchronized /\ sntpStarted' = sntpStarted
    <3>1. CASE Connected
        BY <3>1 DEF Connected
    <3>2. CASE Call \/ StartConnecting
        BY <3>2 DEF Call, StartConnecting
    <3>4. CASE ReadMacAddress
        BY <3>4 DEF ReadMacAddress
    <3>5. CASE ConnectTimedOut \/ SkipDateTime
        BY <3>5 DEF ConnectTimedOut, SkipDateTime
    <3>3. CASE LinkLost \/ Disconnect \/ \E ok \in BOOLEAN : Return(ok)
        BY <3>3 DEF LinkLost, Disconnect, Return
    <3> QED
        BY <1>1, <3>1, <3>2, <3>3, <3>4, <3>5 DEF OtherSteps
  <2>5. SyncTypeOK'
      BY <2>1, <2>3 DEF SyncInv, SyncTypeOK, syncVars
  <2>6. Flags'
      BY <2>1, <2>3, <2>4 DEF SyncInv, Flags, syncVars
  <2> QED
      BY <2>2, <2>5, <2>6 DEF SyncInv
<1>15. CASE SyncRestart
  <2>1. answers' \in 0..MaxAnswers /\ currTimeinfo' \in 0..answers' /\ synchTime' \in 0..answers'
      BY <1>15, AnswersAssumption DEF SyncRestart
  <2>2. SyncTypeOK'
    <3>1. TypeOK'
        BY <1>15 DEF SyncRestart, Restart, TypeOK
    <3>4. mutex' = "none" /\ tokens' \in 0..1
        BY <1>15 DEF SyncRestart
    <3>2. cb' \in {"idle", "wrote"} \cup Critical
        BY <1>15 DEF SyncRestart
    <3>3. loose' \in BOOLEAN /\ sntpFinish' \in BOOLEAN /\ expired' \in BOOLEAN
        BY <1>15 DEF SyncRestart
    <3> QED
        BY <1>15, <2>1, <3>1, <3>2, <3>3, <3>4 DEF SyncRestart, SyncTypeOK
  <2>3. Holding'
      BY <1>15 DEF SyncRestart, Holding
  <2>4. Flags'
      BY <1>15 DEF SyncRestart, Restart, Flags
  <2> QED
      BY <2>2, <2>3, <2>4 DEF SyncInv
<1> USE AnswersAssumption DEF SyncInv, SyncTypeOK, TypeOK, Holding, Flags, Critical, vars
<1>2. CASE BeginDateTime
  <2>1. TypeOK' /\ sntpStarted' /\ web' = "setDateTime" /\ isWIFIConnect' /\ ~isSynchronized
      BY <1>2 DEF BeginDateTime, SetDateTime
  <2>2. isWIFIConnect' = isWIFIConnect /\ isSynchronized' = isSynchronized
      BY <1>2 DEF BeginDateTime, SetDateTime
  <2>3. SyncTypeOK'
    <3>5. loose' = (cb \in Critical)
        BY <1>2 DEF BeginDateTime
    <3>1. loose' \in BOOLEAN /\ sntpFinish' \in BOOLEAN /\ expired' \in BOOLEAN
      <4>1. loose' \in BOOLEAN
        <5> HIDE DEF Critical
        <5>1. CASE cb \in Critical
            BY <3>5, <5>1
        <5>2. CASE cb \notin Critical
            BY <3>5, <5>2
        <5> QED
            BY <5>1, <5>2
      <4> QED
          BY <1>2, <4>1 DEF BeginDateTime
    <3>4. tokens' = 0 /\ 0 \in 0..1
        BY <1>2 DEF BeginDateTime
    <3>2. mutex' = "created" /\ dt' = "take" /\ tokens' \in 0..1
        BY <1>2, <3>4 DEF BeginDateTime
    <3>3. /\ cb' \in {"idle", "wrote"} \cup Critical
          /\ answers' \in 0..MaxAnswers
          /\ currTimeinfo' \in 0..answers' /\ synchTime' \in 0..answers'
        BY <1>2 DEF BeginDateTime
    <3> QED
        BY <2>1, <3>1, <3>2, <3>3
  <2>4. Holding' /\ Flags'
      BY <1>2, <2>1, <2>2 DEF BeginDateTime
  <2> QED
      BY <2>3, <2>4
<1>3. CASE TakeMutex
    BY <1>3 DEF TakeMutex
<1>4. CASE TakeFails
    BY <1>4 DEF TakeFails
<1>5. CASE CheckFinish
    BY <1>5 DEF CheckFinish
<1>6. CASE GiveMutex
    BY <1>6 DEF GiveMutex, Give
<1>7. CASE DeleteMutex
    BY <1>7 DEF DeleteMutex
<1>8. CASE TimePasses
    BY <1>8 DEF TimePasses
<1>9. CASE AnswerArrives
    BY <1>9 DEF AnswerArrives
<1>10. CASE CallbackTakes
    BY <1>10 DEF CallbackTakes
<1>11. CASE CallbackTimesOut
    BY <1>11 DEF CallbackTimesOut
<1>12. CASE CallbackTakesDeleted
    BY <1>12 DEF CallbackTakesDeleted
<1>13. CASE CallbackSynchronizes
    BY <1>13 DEF CallbackSynchronizes
<1>14. CASE CallbackFinishes
    BY <1>14 DEF CallbackFinishes
<1>17. CASE CallbackStamps
    BY <1>17 DEF CallbackStamps
<1>18. CASE CallbackGives
    BY <1>18 DEF CallbackGives, Give
<1>16. CASE UNCHANGED allVars
    BY <1>16 DEF allVars, syncVars
<1> QED
    BY <1>1, <1>2, <1>3, <1>4, <1>5, <1>6, <1>7, <1>8, <1>9, <1>10, <1>11, <1>12,
       <1>13, <1>14, <1>15, <1>16, <1>17, <1>18 DEF SyncNext, SetDateTimeSteps, CallbackSteps

LEMMA SyncInvariant == SyncSpec => []SyncInv
<1>1. SyncInit => SyncInv
    BY SyncInvInit
<1>2. SyncInv /\ [SyncNext]_allVars => SyncInv'
    BY SyncInvNext
<1> QED
    BY <1>1, <1>2, PTL DEF SyncSpec

-----------------------------------------------------------------------------
\* Every variable of the session and of the semaphore keeps its type.
THEOREM SyncTypes == SyncSpec => []SyncTypeOK
<1>1. SyncInv => SyncTypeOK
    BY DEF SyncInv
<1> QED
    BY <1>1, SyncInvariant, PTL

\* setDateTime and the callback are inside at once only after one of two events:
\* setDateTime, whose take timed out, gave the semaphore that the callback held
\* (web_wifi.cpp:209, 216), or the callback outlived the semaphore it waits for
\* or holds (165, 219).  Nothing in the code excludes either.
THEOREM SyncExclusion == SyncSpec => []ExclusiveUnlessLoose
<1>1. SyncInv => ExclusiveUnlessLoose
    BY DEF SyncInv, Holding, ExclusiveUnlessLoose
<1> QED
    BY <1>1, SyncInvariant, PTL

\* setDateTime that ends with sntpFinish leaves a time base behind, whether or
\* not the semaphore kept the two sides apart: sntpFinish is written last.
THEOREM SyncStamped == SyncSpec => []FinishMeansStamped
<1>1. SyncInv => FinishMeansStamped
    BY DEF SyncInv, Flags, FinishMeansStamped
<1> QED
    BY <1>1, SyncInvariant, PTL

\* isSynchronized is never set before the board has joined WiFi once.
THEOREM SyncNeedsWiFi == SyncSpec => []ClockNeedsWiFi
<1>1. SyncInv => ClockNeedsWiFi
    BY DEF SyncInv, Flags, ClockNeedsWiFi
<1> QED
    BY <1>1, SyncInvariant, PTL

-----------------------------------------------------------------------------
(* Refinement: a step of the two tasks is a step of WebInit or changes     *)
(* none of its variables.                                                  *)

LEMMA StepSimulation == SyncInv /\ [SyncNext]_allVars => [Next]_vars
<1> SUFFICES ASSUME SyncInv, [SyncNext]_allVars PROVE Next \/ UNCHANGED vars
    OBVIOUS
<1>1. CASE OtherSteps
    BY <1>1 DEF OtherSteps, Next, Steps, Network
<1>2. CASE BeginDateTime
    BY <1>2 DEF BeginDateTime, Next, Steps
<1>3. CASE TakeMutex \/ TakeFails \/ CheckFinish \/ GiveMutex
    BY <1>3 DEF TakeMutex, TakeFails, CheckFinish, GiveMutex
<1>4. CASE DeleteMutex
  <2>1. isSynchronized \/ Faults
      BY <1>4 DEF DeleteMutex, SyncInv, Flags
  <2>2. DateTimeDone
      BY <1>4, <2>1 DEF DeleteMutex, DateTimeDone
  <2> QED
      BY <2>2 DEF Next, Steps
<1>5. CASE TimePasses \/ AnswerArrives
    BY <1>5 DEF TimePasses, AnswerArrives
<1>6. CASE \/ CallbackTakes \/ CallbackTimesOut \/ CallbackTakesDeleted
           \/ CallbackStamps \/ CallbackFinishes \/ CallbackGives
    BY <1>6 DEF CallbackTakes, CallbackTimesOut, CallbackTakesDeleted, CallbackStamps,
       CallbackFinishes, CallbackGives
<1>7. CASE CallbackSynchronizes
  <2>1. sntpStarted
      BY <1>7 DEF CallbackSynchronizes, SyncInv, Flags
  <2>2. SntpAnswers
      BY <1>7, <2>1 DEF CallbackSynchronizes, SntpAnswers
  <2> QED
      BY <2>2 DEF Next, Network
<1>8. CASE SyncRestart
    BY <1>8 DEF SyncRestart, Next
<1>9. CASE UNCHANGED allVars
    BY <1>9 DEF allVars
<1> QED
    BY <1>1, <1>2, <1>3, <1>4, <1>5, <1>6, <1>7, <1>8, <1>9
       DEF SyncNext, SetDateTimeSteps, CallbackSteps

\* Seen through isSynchronized alone, setDateTime and sntp_notification do
\* what WebInit says, so what is shown with WebInit holds with the semaphore.
THEOREM SyncImplements == SyncSpec => ImplementsWebInit
<1>1. SyncInit => Init
    BY DEF SyncInit
<1>2. SyncInv /\ [SyncNext]_allVars => [Next]_vars
    BY StepSimulation
<1> QED
    BY <1>1, <1>2, SyncInvariant, PTL DEF SyncSpec, ImplementsWebInit, Spec
=============================================================================
