---------------------------- MODULE LeakNotifier ----------------------------
(***************************************************************************)
(* Leak mails of the server (web/python/app.py).  Threads that an upload   *)
(* starts and requests of the dashboard look for leaks of one device and   *)
(* ask the cache last_notifications, without a lock, whether a kind may be *)
(* mailed.  A monitor looks at every device each quarter of an hour, with  *)
(* a memory of its own, and mails without asking the cache.                *)
(*                                                                         *)
(* Time is kept as ages, in rounds of the monitor, up to the limit that    *)
(* the code compares with.  LeakDetector models the analyses; here they    *)
(* are the environment.  send_leak_alert tries once: _send_email turns     *)
(* every exception into False, so _send_with_retry never repeats.  The     *)
(* histories follow one alert, a device and a kind that Init chooses       *)
(* freely, so that what is said of it is said of each.                     *)
(***************************************************************************)
EXTENDS Naturals, FiniteSets

CONSTANTS
    Devices,   \* devices of users with an address
    Kinds,     \* long_continuous_usage, night_usage, high_consumption_rate
    Checks,    \* upload threads and dashboard requests at work together
    Monitors,  \* BackgroundMonitor objects: two when Flask reloads itself
    Window,    \* the four hours of should_send_notification
    Recheck,   \* the half hour of check_single_device
    MaxRestarts \* bound: restarts in the four hours after a mail

ASSUME WindowAssumption  == Window \in Nat \ {0}
ASSUME RecheckAssumption == Recheck \in Nat \ {0}
ASSUME ChecksAssumption == IsFiniteSet(Checks)
ASSUME RestartsAssumption == MaxRestarts \in Nat

VARIABLES
    found,      \* the kinds that a check of each device would find now
    cacheAge,   \* age of the entry in last_notifications, Window if old or none
    job,        \* what each check is doing
    round,      \* devices that the monitor's present round still has to visit
    checkedAge, \* age of last_checks of each monitor, Recheck if old or none
    letter,     \* the mail that each monitor is sending
    watched,    \* the device and kind, any, that the histories below follow
    windowAge,  \* history: age of the claim that began its four hours, Window
                \* when they have passed; restarts do not end them
    claims,     \* history: its claims in the present window
    lives,      \* history: 1 and the restarts in that window
    tried,      \* history: a mail followed its last claim
    told        \* history: the owner knows of it while it lasts

windowVars  == <<watched, windowAge, claims, lives>>
cacheVars   == <<cacheAge, windowVars, tried>>
monitorVars == <<round, checkedAge, letter>>
vars == <<found, cacheVars, job, monitorVars, told>>

Idle == [pc |-> "idle"]
Keys == Devices \X Kinds

Init ==
    /\ found = [d \in Devices |-> {}]
    /\ cacheAge = [key \in Keys |-> Window]
    /\ job = [c \in Checks |-> Idle]
    /\ round = [m \in Monitors |-> Devices]
    /\ checkedAge = [m \in Monitors |-> [d \in Devices |-> Recheck]]
    /\ letter = [m \in Monitors |-> Idle]
    /\ watched \in Keys
    /\ windowAge = Window
    /\ claims = 0
    /\ lives = 1
    /\ tried = TRUE
    /\ told = FALSE

\* Rows arrive and grow old, a device is switched off: an analysis changes.
AnalysisChanges ==
    /\ \E d \in Devices, ks \in SUBSET Kinds : found' = [found EXCEPT ![d] = ks]
    /\ told' = (told /\ watched[2] \in found'[watched[1]])
    /\ UNCHANGED <<cacheVars, job, monitorVars>>

\* A mail names the watched alert, and the alert still holds.
Names(mail) == watched[1] = mail.dev /\ watched[2] \in mail.mail
Holds == watched[2] \in found[watched[1]]

-----------------------------------------------------------------------------
(* A check: send_automatic_leak_email, check_single_device_for_leaks.      *)

\* The alert whose turn it is: analyze_device lists them in a fixed order.
FirstOf(kinds) == CHOOSE k \in kinds : TRUE
Key(c) == <<job[c].dev, FirstOf(job[c].todo)>>

\* The check turns to the next alert, or to the mail, or returns.
Continue(c, d, todo, mail) ==
    job' = [job EXCEPT ![c] =
              CASE todo # {} -> [pc |-> "look", dev |-> d, todo |-> todo, mail |-> mail]
                [] todo = {} /\ mail # {} -> [pc |-> "send", dev |-> d, mail |-> mail]
                [] OTHER -> Idle]

\* The alert is done with; the mail takes it along or not.
Filter(c, taken) ==
    LET k == FirstOf(job[c].todo) IN
    Continue(c, job[c].dev, job[c].todo \ {k},
             IF taken THEN job[c].mail \cup {k} ELSE job[c].mail)

\* The queries and the analysis; a check that finds nothing changes nothing.
Begin(c, d) ==
    /\ job[c] = Idle
    /\ found[d] # {}
    /\ Continue(c, d, found[d], {})
    /\ UNCHANGED <<found, cacheVars, monitorVars, told>>

\* Mutant of Recent: the limit is off by one.
RecentShort(key) == cacheAge[key] + 1 < Window

Recent(key) == cacheAge[key] < Window

\* Mutant of Look: a kind that was mailed recently ends the whole check.
LookGivesUp(c) ==
    /\ job[c].pc = "look"
    /\ job' = [job EXCEPT ![c] = IF Recent(Key(c)) THEN Idle ELSE [@ EXCEPT !.pc = "claim"]]
    /\ UNCHANGED <<found, cacheVars, monitorVars, told>>

\* should_send_notification reads the cache ...
Look(c) ==
    /\ job[c].pc = "look"
    /\ IF Recent(Key(c))
       THEN Filter(c, FALSE)
       ELSE job' = [job EXCEPT ![c].pc = "claim"]
    /\ UNCHANGED <<found, cacheVars, monitorVars, told>>

\* ... and writes it, before any mail.
Claim(c) ==
    /\ job[c].pc = "claim"
    /\ LET key == Key(c) IN
          /\ cacheAge' = [cacheAge EXCEPT ![key] = 0]
          /\ IF key = watched
             THEN /\ windowAge' = IF windowAge < Window THEN windowAge ELSE 0
                  /\ claims' = claims + 1
                  /\ tried' = FALSE
             ELSE UNCHANGED <<windowAge, claims, tried>>
    /\ Filter(c, TRUE)
    /\ UNCHANGED <<found, watched, lives, monitorVars, told>>

\* send_leak_alert; the cache does not learn what it answered.
Send(c, success) ==
    /\ job[c].pc = "send"
    /\ tried' = (tried \/ Names(job[c]))
    /\ told' = (told \/ (success /\ Names(job[c]) /\ Holds))
    /\ job' = [job EXCEPT ![c] = Idle]
    /\ UNCHANGED <<found, cacheAge, windowVars, monitorVars>>

Check(c) ==
    \/ \E d \in Devices : Begin(c, d)
    \/ Look(c) \/ Claim(c)
    \/ \E success \in BOOLEAN : Send(c, success)

-----------------------------------------------------------------------------
(* The monitors: _monitoring_loop, check_all_devices, check_single_device. *)

\* Mutant of Visit: the memory is renewed at every visit.
VisitRenews(m, d) ==
    /\ letter[m] = Idle
    /\ d \in round[m]
    /\ round' = [round EXCEPT ![m] = @ \ {d}]
    /\ checkedAge' = [checkedAge EXCEPT ![m][d] = 0]
    /\ letter' = IF checkedAge[m][d] < Recheck \/ found[d] = {}
                 THEN letter
                 ELSE [letter EXCEPT ![m] = [pc |-> "send", dev |-> d, mail |-> found[d]]]
    /\ UNCHANGED <<found, cacheVars, job, told>>

\* A device that was looked at less than half an hour ago is passed over.
Visit(m, d) ==
    /\ letter[m] = Idle
    /\ d \in round[m]
    /\ round' = [round EXCEPT ![m] = @ \ {d}]
    /\ IF checkedAge[m][d] < Recheck
       THEN UNCHANGED <<checkedAge, letter>>
       ELSE /\ checkedAge' = [checkedAge EXCEPT ![m][d] = 0]
            /\ letter' = IF found[d] = {}
                         THEN letter
                         ELSE [letter EXCEPT ![m] = [pc |-> "send", dev |-> d, mail |-> found[d]]]
    /\ UNCHANGED <<found, cacheVars, job, told>>

MonitorSends(m, success) ==
    /\ letter[m].pc = "send"
    /\ told' = (told \/ (success /\ Names(letter[m]) /\ Holds))
    /\ letter' = [letter EXCEPT ![m] = Idle]
    /\ UNCHANGED <<found, cacheVars, job, round, checkedAge>>

Monitor(m) ==
    \/ \E d \in Devices : Visit(m, d)
    \/ \E success \in BOOLEAN : MonitorSends(m, success)

-----------------------------------------------------------------------------
Older(age, limit) == IF age < limit THEN age + 1 ELSE age

\* A quarter of an hour: the rounds are over by then, and no thread stays
\* that long between the two lines of should_send_notification.
QuarterHour ==
    /\ \A m \in Monitors : round[m] = {} /\ letter[m] = Idle
    /\ \A c \in Checks : job[c].pc # "claim"
    /\ round' = [m \in Monitors |-> Devices]
    /\ cacheAge' = [key \in Keys |-> Older(cacheAge[key], Window)]
    /\ checkedAge' = [m \in Monitors |-> [d \in Devices |-> Older(checkedAge[m][d], Recheck)]]
    /\ windowAge' = Older(windowAge, Window)
    /\ claims' = IF windowAge' < Window THEN claims ELSE 0
    /\ lives' = IF windowAge' < Window THEN lives ELSE 1
    /\ UNCHANGED <<found, watched, tried, job, letter, told>>

\* The server process starts anew: threads and both memories are gone, and
\* the four hours of a mail go on.
Restart ==
    /\ lives <= MaxRestarts
    /\ cacheAge' = [key \in Keys |-> Window]
    /\ job' = [c \in Checks |-> Idle]
    /\ round' = [m \in Monitors |-> Devices]
    /\ checkedAge' = [m \in Monitors |-> [d \in Devices |-> Recheck]]
    /\ letter' = [m \in Monitors |-> Idle]
    /\ lives' = IF windowAge < Window THEN lives + 1 ELSE 1
    /\ tried' = TRUE
    /\ UNCHANGED <<found, watched, windowAge, claims, told>>

Next ==
    \/ AnalysisChanges \/ QuarterHour \/ Restart
    \/ \E c \in Checks : Check(c)
    \/ \E m \in Monitors : Monitor(m)

Spec == Init /\ [][Next]_vars

(* The monitor's thread and time go on, and so does a thread that is       *)
(* between the two lines of should_send_notification.  The mail server may *)
(* refuse any number of mails in a row, but not every one for ever; the    *)
(* mails of uploads and requests are not needed.                           *)
Fairness ==
    /\ WF_vars(QuarterHour)
    /\ \A c \in Checks : WF_vars(Claim(c))
    /\ \A m \in Monitors : WF_vars(Monitor(m))
    /\ \A m \in Monitors, d \in Devices :
          SF_vars(letter[m].pc = "send" /\ letter[m].dev = d /\ MonitorSends(m, TRUE))

FairSpec == Spec /\ Fairness

-----------------------------------------------------------------------------
(* Properties.                                                             *)

Jobs ==
    {Idle} \cup [pc : {"look", "claim"}, dev : Devices, todo : SUBSET Kinds, mail : SUBSET Kinds]
           \cup [pc : {"send"}, dev : Devices, mail : SUBSET Kinds]

\* Every variable keeps its type (LeakNotifierProofs).
TypeOK ==
    /\ found \in [Devices -> SUBSET Kinds]
    /\ cacheAge \in [Keys -> 0..Window]
    /\ job \in [Checks -> Jobs]
    /\ \A c \in Checks : job[c].pc \in {"look", "claim"} => job[c].todo # {}
    /\ round \in [Monitors -> SUBSET Devices]
    /\ checkedAge \in [Monitors -> [Devices -> 0..Recheck]]
    /\ letter \in [Monitors -> Jobs]
    /\ watched \in Keys
    /\ windowAge \in 0..Window
    /\ claims \in Nat
    /\ lives \in 1..MaxRestarts + 1
    /\ tried \in BOOLEAN
    /\ told \in BOOLEAN

\* In the four hours that a mail of a kind begins, the checks send no more of
\* it than one for each check and each life of the server in these hours: the
\* cache has no lock, so checks that overlap get through together, and it is
\* lost at a restart, yet nobody who asks later gets through
\* (should_send_notification).
MailsPerWindow == claims <= Cardinality(Checks) * lives

\* What the function promises (app.py:87, 92): one mail of a kind in four
\* hours.  It does not hold.
OneMailPerWindow == claims <= 1

\* A kind that holds a window in the cache has been mailed, or a check that is
\* still at work will: no path of a check drops an alert after the cache took
\* note of it (send_automatic_leak_email, check_single_device_for_leaks).
ClaimsAreTried ==
    cacheAge[watched] < Window /\ ~tried =>
        \E c \in Checks : job[c] # Idle /\ Names(job[c])

\* A leak that lasts is told to the owner in the end, although a failed mail
\* keeps its window in the cache and is never repeated: the monitor's half
\* hours see to it, also when the server restarts again and again.
LeakIsReported == Holds ~> (told \/ ~Holds)
=============================================================================
