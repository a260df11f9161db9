----------------------------- MODULE ClockSync ------------------------------
(***************************************************************************)
(* initWeb with the semaphore between setDateTime (SenderTask) and         *)
(* sntp_notification (the task of the SNTP client) in                      *)
(* borad/main/web_wifi.cpp.  It implements WebInit, which only knows       *)
(* whether isSynchronized is set.                                          *)
(*                                                                         *)
(* A time server's answer has a number; curr_timeinfo and                  *)
(* synchronizationTime hold the number of the answer they were written     *)
(* from, 0 before the first.  data2Web computes the moment of a pulse from *)
(* both, so it is right only when they come from one answer.               *)
(*                                                                         *)
(* Nothing bounds how long a side holds the semaphore (both print), so a   *)
(* take may time out whenever the semaphore is empty.                      *)
(***************************************************************************)
EXTENDS WebInit, Naturals

CONSTANT MaxAnswers   \* bound: answers of time servers since a boot

ASSUME AnswersAssumption == MaxAnswers \in Nat

VARIABLES
    mutex,           \* synchronizationMutex: none, created or deleted
    tokens,          \* its count: 1 when it can be taken
    loose,           \* history: it was given, or passed, by one who did not hold it
    sntpFinish,      \* global
    expired,         \* WIFI_TIMEOUT has passed since synchronizationStart
    dt,              \* where setDateTime is
    cb,              \* where sntp_notification is
    answers,         \* history: answers that have arrived
    currTimeinfo,    \* global curr_timeinfo
    synchTime        \* global synchronizationTime

syncVars == <<mutex, tokens, loose, sntpFinish, expired, dt, cb, answers, currTimeinfo, synchTime>>
allVars  == <<vars, syncVars>>

SyncInit ==
    /\ Init
    /\ mutex = "none" /\ tokens = 0 /\ loose = FALSE
    /\ sntpFinish = FALSE
    /\ expired = FALSE
    /\ dt = "off"
    /\ cb = "idle"
    /\ answers = 0
    /\ currTimeinfo = 0
    /\ synchTime = 0

-----------------------------------------------------------------------------
\* Mutant of Give: a counting semaphore.
GiveCounts == tokens' = tokens + 1

\* xSemaphoreGive: a binary semaphore that is free stays free.
Give == tokens' = 1

\* Where the callback is between its take and its give.
Critical == {"inside", "synchronized", "stamped", "finished"}

(* setDateTime.                                                            *)

\* xSemaphoreCreateBinary: the semaphore is empty.
BeginDateTime ==
    /\ SetDateTime
    /\ sntpFinish' = FALSE
    /\ expired' = FALSE
    /\ mutex' = "created" /\ tokens' = 0
    /\ loose' = (cb \in Critical)
    /\ dt' = "take"
    /\ UNCHANGED <<cb, answers, currTimeinfo, synchTime>>

TakeMutex ==
    /\ dt = "take"
    /\ tokens > 0
    /\ tokens' = tokens - 1
    /\ dt' = "check"
    /\ UNCHANGED <<vars, mutex, loose, sntpFinish, expired, cb, answers, currTimeinfo, synchTime>>

\* Mutant of TakeFails: the semaphore is given only when it was taken.
TakeFailsQuietly ==
    /\ dt = "take"
    /\ tokens = 0
    /\ UNCHANGED allVars

\* 200 ticks without the semaphore, which the callback may be holding.
TakeFails ==
    /\ dt = "take"
    /\ tokens = 0
    /\ dt' = "give"
    /\ UNCHANGED <<vars, mutex, tokens, loose, sntpFinish, expired, cb, answers, currTimeinfo, synchTime>>

CheckFinish ==
    /\ dt = "check"
    /\ dt' = IF sntpFinish \/ expired THEN "delete" ELSE "give"
    /\ UNCHANGED <<vars, mutex, tokens, loose, sntpFinish, expired, cb, answers, currTimeinfo, synchTime>>

\* Outside the if: the semaphore is given also when it was not taken.
GiveMutex ==
    /\ dt = "give"
    /\ Give
    /\ loose' = (loose \/ cb \in Critical)
    /\ dt' = "take"
    /\ UNCHANGED <<vars, mutex, sntpFinish, expired, cb, answers, currTimeinfo, synchTime>>

\* vSemaphoreDelete, and setDateTime returns to initWeb.
DeleteMutex ==
    /\ dt = "delete"
    /\ mutex' = "deleted"
    /\ dt' = "off"
    /\ web = "setDateTime" /\ web' = "ready"
    /\ UNCHANGED <<isReadMac, isWIFIConnect, isSynchronized, sntpStarted, online>>
    /\ UNCHANGED <<tokens, loose, sntpFinish, expired, cb, answers, currTimeinfo, synchTime>>

TimePasses ==
    /\ Faults
    /\ dt # "off" /\ ~expired
    /\ expired' = TRUE
    /\ UNCHANGED <<vars, mutex, tokens, loose, sntpFinish, dt, cb, answers, currTimeinfo, synchTime>>

-----------------------------------------------------------------------------
(* sntp_notification.                                                      *)

\* curr_timeinfo is written before the semaphore is taken.
AnswerArrives ==
    /\ sntpStarted
    /\ online
    /\ cb = "idle"
    /\ answers < MaxAnswers
    /\ answers' = answers + 1
    /\ currTimeinfo' = answers + 1
    /\ cb' = "wrote"
    /\ UNCHANGED <<vars, mutex, tokens, loose, sntpFinish, expired, dt, synchTime>>

\* Mutant of CallbackTakes: the callback does not wait for the semaphore.
CallbackBargesIn ==
    /\ cb = "wrote"
    /\ cb' = "inside"
    /\ UNCHANGED <<vars, mutex, tokens, loose, sntpFinish, expired, dt, answers, currTimeinfo, synchTime>>

CallbackTakes ==
    /\ cb = "wrote"
    /\ mutex = "created" /\ tokens > 0
    /\ tokens' = tokens - 1
    /\ cb' = "inside"
    /\ UNCHANGED <<vars, mutex, loose, sntpFinish, expired, dt, answers, currTimeinfo, synchTime>>

\* 200 ticks without the semaphore: the answer is dropped.
CallbackTimesOut ==
    /\ cb = "wrote"
    /\ mutex = "created" /\ tokens = 0
    /\ cb' = "idle"
    /\ UNCHANGED <<vars, mutex, tokens, loose, sntpFinish, expired, dt, answers, currTimeinfo, synchTime>>

\* The semaphore has been freed: the take may return either answer (or bring
\* the board down, which is Restart).
CallbackTakesDeleted ==
    /\ cb = "wrote"
    /\ mutex = "deleted"
    /\ cb' \in {"inside", "idle"}
    /\ loose' = (loose \/ cb' = "inside")
    /\ UNCHANGED <<vars, mutex, tokens, sntpFinish, expired, dt, answers, currTimeinfo, synchTime>>

\* Mutant of CallbackSynchronizes: a good time is sometimes refused.
CallbackRefusesTime ==
    /\ cb = "inside"
    /\ isSynchronized' \in BOOLEAN
    /\ cb' = "synchronized"
    /\ UNCHANGED <<web, isReadMac, isWIFIConnect, sntpStarted, online>>
    /\ UNCHANGED <<mutex, tokens, loose, sntpFinish, expired, dt, answers, currTimeinfo, synchTime>>

\* Mutant of CallbackSynchronizes: sntpFinish is set first.
CallbackFinishesFirst ==
    /\ cb = "inside"
    /\ isSynchronized' = TRUE
    /\ sntpFinish' = TRUE
    /\ cb' = "synchronized"
    /\ UNCHANGED <<web, isReadMac, isWIFIConnect, sntpStarted, online>>
    /\ UNCHANGED <<mutex, tokens, loose, expired, dt, answers, currTimeinfo, synchTime>>

\* The time of an answer is after 1970: the other branch cannot be taken.
CallbackSynchronizes ==
    /\ cb = "inside"
    /\ isSynchronized' = TRUE
    /\ cb' = "synchronized"
    /\ UNCHANGED <<web, isReadMac, isWIFIConnect, sntpStarted, online>>
    /\ UNCHANGED <<mutex, tokens, loose, sntpFinish, expired, dt, answers, currTimeinfo, synchTime>>

CallbackStamps ==
    /\ cb = "synchronized"
    /\ synchTime' = currTimeinfo
    /\ cb' = "stamped"
    /\ UNCHANGED <<vars, mutex, tokens, loose, sntpFinish, expired, dt, answers, currTimeinfo>>

CallbackFinishes ==
    /\ cb = "stamped"
    /\ sntpFinish' = TRUE
    /\ cb' = "finished"
    /\ UNCHANGED <<vars, mutex, tokens, loose, expired, dt, answers, currTimeinfo, synchTime>>

CallbackGives ==
    /\ cb = "finished"
    /\ Give
    /\ cb' = "idle"
    /\ UNCHANGED <<vars, mutex, loose, sntpFinish, expired, dt, answers, currTimeinfo, synchTime>>

-----------------------------------------------------------------------------
\* The steps of WebInit that do not touch the semaphore.
OtherSteps ==
    /\ \/ Call \/ ReadMacAddress \/ StartConnecting \/ Connected \/ ConnectTimedOut
       \/ SkipDateTime \/ LinkLost \/ Disconnect
       \/ \E ok \in BOOLEAN : Return(ok)
    /\ UNCHANGED syncVars

SyncRestart ==
    /\ Restart
    /\ mutex' = "none" /\ tokens' = 0 /\ loose' = FALSE /\ sntpFinish' = FALSE /\ expired' = FALSE
    /\ dt' = "off" /\ cb' = "idle"
    /\ answers' = 0 /\ currTimeinfo' = 0 /\ synchTime' = 0

SetDateTimeSteps == TakeMutex \/ TakeFails \/ CheckFinish \/ GiveMutex \/ DeleteMutex

CallbackSteps ==
    CallbackTakes \/ CallbackTimesOut \/ CallbackTakesDeleted
    \/ CallbackSynchronizes \/ CallbackStamps \/ CallbackFinishes \/ CallbackGives

SyncNext ==
    \/ OtherSteps \/ BeginDateTime \/ SetDateTimeSteps \/ TimePasses
    \/ AnswerArrives \/ CallbackSteps \/ SyncRestart

SyncSpec == SyncInit /\ [][SyncNext]_allVars

\* Both tasks run and time passes; the servers need not answer.
SyncFairSpec ==
    /\ SyncSpec
    /\ WF_allVars(OtherSteps /\ (Steps \/ \E ok \in BOOLEAN : Return(ok)))
    /\ WF_allVars(BeginDateTime) /\ WF_allVars(SetDateTimeSteps) /\ WF_allVars(TimePasses)
    /\ WF_allVars(CallbackSteps)

-----------------------------------------------------------------------------
\* Every variable keeps its type; the semaphore is never given twice over,
\* although both sides may give it while the other holds it.
SyncTypeOK ==
    /\ TypeOK
    /\ mutex \in {"none", "created", "deleted"}
    /\ tokens \in 0..1 /\ loose \in BOOLEAN
    /\ sntpFinish \in BOOLEAN /\ expired \in BOOLEAN
    /\ dt \in {"off", "take", "check", "give", "delete"}
    /\ cb \in {"idle", "wrote"} \cup Critical
    /\ answers \in 0..MaxAnswers
    /\ currTimeinfo \in 0..answers /\ synchTime \in 0..answers

\* setDateTime decides and the callback writes under the semaphore one at a
\* time, but for two ways out: setDateTime, whose take has timed out, has given
\* the semaphore that the callback held (web_wifi.cpp:216), or the callback got
\* past a semaphore that had been deleted (web_wifi.cpp:165, 219).
ExclusiveUnlessLoose == dt \in {"check", "delete"} /\ cb \in Critical => loose

\* setDateTime comes back, with or without an answer: the give after a failed
\* take is what frees the semaphore that was created empty.
SetDateTimeReturns == dt # "off" ~> dt = "off"

\* Seen through isSynchronized alone, the two tasks do what WebInit says.
ImplementsWebInit == Spec

\* When the wait ended because of sntpFinish, isSynchronized and the two parts
\* of the time base are those of an answer (web_wifi.cpp:164-183, 210), also
\* when the two sides were inside at once: sntpFinish is written last.
FinishMeansStamped ==
    dt = "delete" /\ sntpFinish => isSynchronized /\ synchTime > 0
=============================================================================
