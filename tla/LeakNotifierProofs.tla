------------------------- MODULE LeakNotifierProofs -------------------------
(***************************************************************************)
(* Proofs about LeakNotifier, for any number of devices, kinds, checks and *)
(* monitors: the cache without a lock lets few mails through, and no check *)
(* drops an alert after the cache took note of it.                         *)
(***************************************************************************)
EXTENDS LeakNotifier, FiniteSetTheorems, TLAPS

\* The checks that are between the two lines of should_send_notification with
\* the watched alert.
Claiming == {c \in Checks : job[c].pc = "claim" /\ Key(c) = watched}

\* The claims that the checks may have in so many lives of the server.
Allowed(l) == Cardinality(Checks) * l

\* Checks get there only while the entry is old, and then only earlier lives of
\* the server have claims in the window; time stands still until they have
\* left.  An entry is no older than the mail that began the window.
WindowInv ==
    /\ cacheAge[watched] = Window => claims <= Allowed(lives - 1)
    /\ claims + Cardinality(Claiming) <= Allowed(lives)
    /\ cacheAge[watched] < Window => cacheAge[watched] <= windowAge
    /\ windowAge = Window => claims = 0 /\ lives = 1

NotifierInv == TypeOK /\ WindowInv /\ ClaimsAreTried

-----------------------------------------------------------------------------
(* Jobs.                                                                   *)

\* What a job may be, pc by pc.
LEMMA JobType ==
    ASSUME TypeOK, NEW c \in Checks
    PROVE  \/ job[c] = Idle /\ job[c].pc = "idle"
           \/ /\ job[c].pc \in {"look", "claim"}
              /\ job[c].dev \in Devices /\ job[c].mail \subseteq Kinds
              /\ job[c].todo \subseteq Kinds /\ FirstOf(job[c].todo) \in job[c].todo
              /\ Key(c) \in Keys
           \/ job[c].pc = "send" /\ job[c].dev \in Devices /\ job[c].mail \subseteq Kinds
<1>1. job[c] \in Jobs
    BY DEF TypeOK
<1>2. CASE job[c] = Idle
    BY <1>2 DEF Idle
<1>3. CASE job[c] \in [pc : {"look", "claim"}, dev : Devices, todo : SUBSET Kinds, mail : SUBSET Kinds]
  <2>1. /\ job[c].pc \in {"look", "claim"}
        /\ job[c].dev \in Devices /\ job[c].mail \subseteq Kinds /\ job[c].todo \subseteq Kinds
      BY <1>3
  <2>2. job[c].todo # {}
      BY <2>1 DEF TypeOK
  <2>3. FirstOf(job[c].todo) \in job[c].todo
      BY <2>2 DEF FirstOf
  <2>. QED
      BY <2>1, <2>3 DEF Key, Keys
<1>4. CASE job[c] \in [pc : {"send"}, dev : Devices, mail : SUBSET Kinds]
    BY <1>4
<1>. QED
    BY <1>1, <1>2, <1>3, <1>4 DEF Jobs

\* A check that turns to its next alert keeps the mail that it has filled.
LEMMA ContinueStep ==
    ASSUME TypeOK, NEW c \in Checks, NEW d \in Devices, NEW todo \in SUBSET Kinds,
           NEW mail \in SUBSET Kinds, Continue(c, d, todo, mail)
    PROVE  /\ job' \in [Checks -> Jobs]
           /\ \A e \in Checks : e # c => job'[e] = job[e]
           /\ job'[c].pc # "claim"
           /\ job'[c].pc = "look" => job'[c].todo # {}
           /\ mail # {} => job'[c] # Idle /\ job'[c].dev = d /\ job'[c].mail = mail
<1>. DEFINE look == [pc |-> "look", dev |-> d, todo |-> todo, mail |-> mail]
            send == [pc |-> "send", dev |-> d, mail |-> mail]
            next == CASE todo # {} -> look
                      [] todo = {} /\ mail # {} -> send
                      [] OTHER -> Idle
<1>1. job \in [Checks -> Jobs] /\ job' = [job EXCEPT ![c] = next]
    BY DEF TypeOK, Continue
<1>2. look \in Jobs /\ send \in Jobs /\ Idle \in Jobs
    BY DEF Jobs
<1>3. /\ todo # {} => next = look
      /\ todo = {} /\ mail # {} => next = send
      /\ todo = {} /\ mail = {} => next = Idle
    OBVIOUS
<1>4. /\ next \in Jobs /\ next.pc # "claim"
      /\ next.pc = "look" => next.todo # {}
      /\ mail # {} => next # Idle /\ next.dev = d /\ next.mail = mail
  <2>1. CASE todo # {}
      BY <1>2, <1>3, <2>1 DEF Idle
  <2>2. CASE todo = {} /\ mail # {}
      BY <1>2, <1>3, <2>2 DEF Idle
  <2>3. CASE todo = {} /\ mail = {}
      BY <1>2, <1>3, <2>3 DEF Idle
  <2>. QED
      BY <2>1, <2>2, <2>3
<1>. HIDE DEF next
<1>. QED
    BY <1>1, <1>4

\* Key and Claiming depend on the jobs alone.
LEMMA KeyKept ==
    ASSUME NEW c \in Checks, job'[c] = job[c]
    PROVE  Key(c)' = Key(c)
    BY DEF Key

LEMMA ClaimingFinite ==
    /\ IsFiniteSet(Claiming) /\ Cardinality(Claiming) \in Nat
    /\ Cardinality(Claiming) <= Cardinality(Checks)
    /\ Cardinality(Checks) \in Nat
<1>1. Claiming \subseteq Checks
    BY DEF Claiming
<1>. QED
    BY <1>1, ChecksAssumption, FS_Subset, FS_CardinalityType

\* A restart allows as many claims again as there are checks.
LEMMA AllowedStep ==
    ASSUME NEW l \in Nat
    PROVE  /\ Allowed(l) \in Nat /\ Allowed(0) = 0 /\ Allowed(1) = Cardinality(Checks)
           /\ Allowed(l + 1) = Allowed(l) + Cardinality(Checks)
<1>. DEFINE n == Cardinality(Checks)
<1>1. n \in Nat
    BY ChecksAssumption, FS_CardinalityType
<1>. HIDE DEF n
<1>2. n * l \in Nat /\ n * 0 = 0 /\ n * 1 = n /\ n * (l + 1) = n * l + n
    BY <1>1
<1>. QED
    BY <1>2 DEF Allowed, n

\* What WindowInv speaks of is typed.
LEMMA WindowType ==
    ASSUME TypeOK
    PROVE  /\ lives \in Nat /\ lives - 1 \in Nat /\ claims \in Nat
           /\ watched \in Keys /\ cacheAge[watched] \in 0..Window
           /\ windowAge \in 0..Window /\ Window \in Nat \ {0}
           /\ Allowed(lives - 1) \in Nat /\ Cardinality(Checks) \in Nat
           /\ Allowed(lives) = Allowed(lives - 1) + Cardinality(Checks)
<1>1. lives \in 1..MaxRestarts + 1
    BY DEF TypeOK
<1>2. /\ lives \in Nat /\ lives - 1 \in Nat
      /\ lives = (lives - 1) + 1
    BY <1>1, RestartsAssumption
<1>3. /\ Allowed(lives - 1) \in Nat /\ Cardinality(Checks) \in Nat
      /\ Allowed((lives - 1) + 1) = Allowed(lives - 1) + Cardinality(Checks)
    BY <1>2, AllowedStep, ChecksAssumption, FS_CardinalityType
<1>. QED
    BY <1>2, <1>3, WindowAssumption DEF TypeOK

-----------------------------------------------------------------------------
\* Nobody has claimed or is claiming at first.
LEMMA NotifierInit == Init => NotifierInv
<1> SUFFICES ASSUME Init PROVE NotifierInv
    OBVIOUS
<1>1. TypeOK
  <2>1. lives \in 1..MaxRestarts + 1 /\ windowAge \in 0..Window /\ claims \in Nat
      BY WindowAssumption, RestartsAssumption DEF Init
  <2>2. cacheAge \in [Keys -> 0..Window] /\ checkedAge \in [Monitors -> [Devices -> 0..Recheck]]
      BY WindowAssumption, RecheckAssumption DEF Init
  <2>3. job \in [Checks -> Jobs] /\ letter \in [Monitors -> Jobs] /\ Idle.pc = "idle"
      BY DEF Init, Jobs, Idle
  <2>4. \A c \in Checks : job[c] = Idle
      BY DEF Init
  <2>5. tried \in BOOLEAN /\ told \in BOOLEAN
      BY DEF Init
  <2>6. /\ found \in [Devices -> SUBSET Kinds]
        /\ round \in [Monitors -> SUBSET Devices] /\ watched \in Keys
      BY DEF Init
  <2>. QED
      BY <2>1, <2>2, <2>3, <2>4, <2>5, <2>6 DEF TypeOK
<1>2. WindowInv
  <2>1. Claiming = {} /\ claims = 0 /\ lives = 1 /\ cacheAge[watched] = Window
      BY DEF Init, Claiming, Idle
  <2>2. /\ Allowed(1 - 1) = 0 /\ Allowed(1) = Cardinality(Checks)
        /\ Cardinality(Checks) \in Nat /\ Cardinality({}) = 0
      BY AllowedStep, ChecksAssumption, FS_CardinalityType, FS_EmptySet
  <2>. QED
      BY <2>1, <2>2, WindowAssumption DEF WindowInv
<1>3. ClaimsAreTried
    BY DEF Init, ClaimsAreTried
<1>. QED
    BY <1>1, <1>2, <1>3 DEF NotifierInv

-----------------------------------------------------------------------------
(* Steps that leave the cache and the jobs alone.                          *)

LEMMA CacheKept ==
    ASSUME WindowInv, ClaimsAreTried, UNCHANGED <<cacheVars, job>>
    PROVE  WindowInv' /\ ClaimsAreTried'
<1>1. UNCHANGED <<cacheAge, watched, windowAge, claims, lives, tried, job>>
    BY DEF cacheVars, windowVars
<1>2. Claiming' = Claiming
    BY <1>1 DEF Claiming, Key
<1>. QED
    BY <1>1, <1>2 DEF WindowInv, ClaimsAreTried, Names

\* Changes of the analyses and the work of a monitor.
LEMMA OutsideKeeps ==
    ASSUME NotifierInv, AnalysisChanges \/ \E m \in Monitors : Monitor(m)
    PROVE  NotifierInv'
<1>. USE DEF NotifierInv
<1>1. UNCHANGED <<cacheVars, job>>
    BY DEF AnalysisChanges, Monitor, Visit, MonitorSends
<1>2. UNCHANGED <<cacheAge, watched, windowAge, claims, lives, tried, job>>
    BY <1>1 DEF cacheVars, windowVars
<1>3. CASE AnalysisChanges
  <2>1. found' \in [Devices -> SUBSET Kinds] /\ told' \in BOOLEAN
      BY <1>3 DEF AnalysisChanges, TypeOK
  <2>2. UNCHANGED <<round, checkedAge, letter>>
      BY <1>3 DEF AnalysisChanges, monitorVars
  <2>. QED
      BY <1>1, <1>2, <2>1, <2>2, CacheKept DEF TypeOK
<1>4. ASSUME NEW m \in Monitors, NEW d \in Devices, Visit(m, d) PROVE TypeOK'
  <2>. DEFINE mail == [pc |-> "send", dev |-> d, mail |-> found[d]]
  <2>1. mail \in Jobs
      BY DEF TypeOK, Jobs
  <2>2. letter' = letter \/ letter' = [letter EXCEPT ![m] = mail]
      BY <1>4 DEF Visit
  <2>3. letter' \in [Monitors -> Jobs]
      BY <2>1, <2>2 DEF TypeOK
  <2>4. checkedAge' = checkedAge \/ checkedAge' = [checkedAge EXCEPT ![m][d] = 0]
      BY <1>4 DEF Visit
  <2>5. checkedAge' \in [Monitors -> [Devices -> 0..Recheck]]
    <3>1. checkedAge \in [Monitors -> [Devices -> 0..Recheck]] /\ 0 \in 0..Recheck
        BY RecheckAssumption DEF TypeOK
    <3>2. [checkedAge[m] EXCEPT ![d] = 0] \in [Devices -> 0..Recheck]
        BY <3>1
    <3>3. checkedAge' = checkedAge \/ checkedAge' = [checkedAge EXCEPT ![m] = [checkedAge[m] EXCEPT ![d] = 0]]
        BY <2>4
    <3>. QED
        BY <3>1, <3>2, <3>3
  <2>6. round' \in [Monitors -> SUBSET Devices] /\ UNCHANGED <<found, told>>
      BY <1>4 DEF Visit, TypeOK
  <2>. QED
      BY <1>2, <2>3, <2>5, <2>6 DEF TypeOK
<1>5. ASSUME NEW m \in Monitors, NEW success \in BOOLEAN, MonitorSends(m, success) PROVE TypeOK'
  <2>1. Idle \in Jobs
      BY DEF Jobs
  <2>3. told' \in BOOLEAN
      BY <1>5 DEF MonitorSends
  <2>4. letter' \in [Monitors -> Jobs]
      BY <1>5, <2>1 DEF MonitorSends, TypeOK
  <2>5. UNCHANGED <<found, round, checkedAge>>
      BY <1>5 DEF MonitorSends
  <2>. QED
      BY <1>2, <2>3, <2>4, <2>5 DEF TypeOK
<1>. QED
    BY <1>1, <1>3, <1>4, <1>5, CacheKept DEF Monitor

-----------------------------------------------------------------------------
(* Time and restarts.                                                      *)

LEMMA OlderAge ==
    ASSUME NEW limit \in Nat, NEW age \in 0..limit
    PROVE  /\ Older(age, limit) \in 0..limit
           /\ Older(age, limit) < limit => age < limit /\ Older(age, limit) = age + 1
           /\ Older(age, limit) = limit => age = limit \/ age = limit - 1
    BY DEF Older

LEMMA QuarterHourKeeps ==
    ASSUME NotifierInv, QuarterHour
    PROVE  NotifierInv'
<1>. USE DEF NotifierInv
<1>1. /\ UNCHANGED <<found, watched, tried, job, letter, told>>
      /\ round' = [m \in Monitors |-> Devices]
      /\ cacheAge' = [key \in Keys |-> Older(cacheAge[key], Window)]
      /\ checkedAge' = [m \in Monitors |-> [d \in Devices |-> Older(checkedAge[m][d], Recheck)]]
      /\ windowAge' = Older(windowAge, Window)
      /\ claims' = IF windowAge' < Window THEN claims ELSE 0
      /\ lives' = IF windowAge' < Window THEN lives ELSE 1
      /\ \A c \in Checks : job[c].pc # "claim"
    BY DEF QuarterHour
<1>2. /\ cacheAge' \in [Keys -> 0..Window] /\ cacheAge'[watched] \in 0..Window /\ windowAge' \in 0..Window
      /\ cacheAge'[watched] < Window => cacheAge[watched] < Window /\ cacheAge'[watched] = cacheAge[watched] + 1
      /\ cacheAge'[watched] = Window => cacheAge[watched] = Window \/ cacheAge[watched] = Window - 1
      /\ windowAge' < Window => windowAge < Window /\ windowAge' = windowAge + 1
      /\ windowAge' = Window => windowAge = Window \/ windowAge = Window - 1
    BY <1>1, OlderAge, WindowAssumption DEF TypeOK
<1>3. TypeOK'
  <2>1. checkedAge' \in [Monitors -> [Devices -> 0..Recheck]]
      BY <1>1, OlderAge, RecheckAssumption DEF TypeOK
  <2>2. claims' \in Nat
      BY <1>1 DEF TypeOK
  <2>4. lives' \in 1..MaxRestarts + 1
      BY <1>1, RestartsAssumption DEF TypeOK
  <2>. QED
      BY <1>1, <1>2, <2>1, <2>2, <2>4 DEF TypeOK
<1>4. WindowInv'
  <2> SUFFICES /\ cacheAge'[watched] = Window => claims' <= Allowed(lives' - 1)
               /\ claims' + Cardinality(Claiming') <= Allowed(lives')
               /\ cacheAge'[watched] < Window => cacheAge'[watched] <= windowAge'
               /\ windowAge' = Window => claims' = 0 /\ lives' = 1
      BY <1>1 DEF WindowInv, Allowed
  <2>1. Cardinality(Claiming) = 0 /\ Cardinality(Claiming') = 0
    <3>1. Claiming = {} /\ Claiming' = {}
        BY <1>1 DEF Claiming
    <3>. QED
        BY <3>1, FS_EmptySet
  <2>2. /\ cacheAge[watched] = Window => claims <= Allowed(lives - 1)
        /\ claims <= Allowed(lives)
        /\ cacheAge[watched] < Window => cacheAge[watched] <= windowAge
    <3>1. claims + Cardinality(Claiming) <= Allowed(lives) /\ claims \in Nat
        BY WindowType DEF WindowInv
    <3>. QED
        BY <2>1, <3>1 DEF WindowInv
  <2>3. CASE windowAge' < Window
    <3>1. claims' = claims /\ lives' = lives
        BY <1>1, <2>3
    <3>. QED
        BY <1>2, <2>1, <2>2, <2>3, <3>1, WindowType
  <2>4. CASE ~(windowAge' < Window)
    <3>3. windowAge' \in 0..Window /\ Window \in Nat
        BY <1>2, WindowAssumption
    <3>4. windowAge' = Window
        BY <2>4, <3>3
    <3>5. claims' = 0 /\ lives' = 1
        BY <1>1, <2>4
    <3>1. claims' = 0 /\ lives' = 1 /\ windowAge' = Window
        BY <3>4, <3>5
    <3>2. Allowed(1 - 1) = 0 /\ Allowed(1) = Cardinality(Checks) /\ Cardinality(Checks) \in Nat
        BY AllowedStep, ChecksAssumption, FS_CardinalityType
    <3>. QED
        BY <1>2, <2>1, <3>1, <3>2, WindowAssumption
  <2>. QED
      BY <2>3, <2>4
<1>5. ClaimsAreTried'
    BY <1>1, <1>2 DEF ClaimsAreTried, Names
<1>. QED
    BY <1>3, <1>4, <1>5

LEMMA RestartKeeps ==
    ASSUME NotifierInv, Restart
    PROVE  NotifierInv'
<1>. USE DEF NotifierInv
<1>1. /\ cacheAge' = [key \in Keys |-> Window]
      /\ watched' = watched /\ claims' = claims /\ windowAge' = windowAge
      /\ lives' = IF windowAge < Window THEN lives + 1 ELSE 1
      /\ lives <= MaxRestarts
      /\ tried' = TRUE
      /\ job' = [c \in Checks |-> Idle] /\ letter' = [m \in Monitors |-> Idle]
      /\ round' = [m \in Monitors |-> Devices]
      /\ checkedAge' = [m \in Monitors |-> [d \in Devices |-> Recheck]]
      /\ UNCHANGED <<found, told>>
    BY DEF Restart
<1>2. TypeOK'
  <2>1. Idle \in Jobs /\ Idle.pc = "idle"
      BY DEF Jobs, Idle
  <2>2. lives' \in 1..MaxRestarts + 1
      BY <1>1, RestartsAssumption DEF TypeOK
  <2>3. cacheAge' \in [Keys -> 0..Window]
      BY <1>1, WindowAssumption
  <2>. QED
      BY <1>1, <2>1, <2>2, <2>3, RecheckAssumption DEF TypeOK
<1>3. WindowInv'
  <2>0. cacheAge'[watched] = Window
      BY <1>1 DEF TypeOK
  <2> SUFFICES /\ claims <= Allowed(lives' - 1)
               /\ claims + Cardinality(Claiming') <= Allowed(lives')
               /\ windowAge = Window => claims = 0 /\ lives' = 1
      BY <1>1, <2>0, WindowAssumption DEF WindowInv, Allowed
  <2>1. Cardinality(Claiming') = 0
    <3>1. Claiming' = {}
        BY <1>1 DEF Claiming, Idle
    <3>. QED
        BY <3>1, FS_EmptySet
  <2>2. /\ claims + Cardinality(Claiming) <= Allowed(lives)
        /\ Cardinality(Claiming) \in Nat
        /\ windowAge = Window => claims = 0
      BY ClaimingFinite DEF WindowInv
  <2>3. CASE windowAge < Window
    <3>1. lives' = lives + 1 /\ lives' - 1 = lives
        BY <1>1, <2>3, WindowType
    <3>2. /\ Allowed(lives + 1) = Allowed(lives) + Cardinality(Checks)
          /\ Allowed(lives) \in Nat
        BY WindowType, AllowedStep
    <3>. QED
        BY <2>1, <2>2, <2>3, <3>1, <3>2, WindowType
  <2>4. CASE ~(windowAge < Window)
    <3>3. windowAge \in 0..Window /\ Window \in Nat
        BY WindowType
    <3>4. windowAge = Window
        BY <2>4, <3>3
    <3>5. lives' = 1
        BY <1>1, <2>4
    <3>1. windowAge = Window /\ claims = 0 /\ lives' = 1
        BY <2>2, <3>4, <3>5
    <3>2. Allowed(1 - 1) = 0 /\ Allowed(1) = Cardinality(Checks) /\ Cardinality(Checks) \in Nat
        BY AllowedStep, ChecksAssumption, FS_CardinalityType
    <3>. QED
        BY <2>1, <3>1, <3>2
  <2>. QED
      BY <2>3, <2>4
<1>4. ClaimsAreTried'
    BY <1>1 DEF ClaimsAreTried
<1>. QED
    BY <1>2, <1>3, <1>4

-----------------------------------------------------------------------------
(* The steps of a check.                                                   *)

\* A step of c that does not end between the two lines takes c out.
LEMMA ClaimingStep ==
    ASSUME NEW c \in Checks, \A e \in Checks : e # c => job'[e] = job[e],
           job'[c].pc # "claim", watched' = watched
    PROVE  Claiming' = Claiming \ {c}
<1>1. \A e \in Checks : e # c => (e \in Claiming' <=> e \in Claiming)
    BY DEF Claiming, Key
<1>. QED
    BY <1>1 DEF Claiming

\* Nor does it change who is claiming, if c was not.
LEMMA WindowKept ==
    ASSUME WindowInv, UNCHANGED <<cacheAge, watched, windowAge, claims, lives>>, NEW c \in Checks,
           \A e \in Checks : e # c => job'[e] = job[e],
           job[c].pc # "claim", job'[c].pc # "claim"
    PROVE  WindowInv'
<1>1. Claiming' = Claiming
    BY ClaimingStep DEF Claiming
<1>. QED
    BY <1>1 DEF WindowInv

LEMMA BeginKeeps ==
    ASSUME NotifierInv, NEW c \in Checks, NEW d \in Devices, Begin(c, d)
    PROVE  NotifierInv'
<1>. USE DEF NotifierInv
<1>1. /\ job[c] = Idle /\ job[c].pc # "claim"
      /\ Continue(c, d, found[d], {})
      /\ UNCHANGED <<cacheAge, watched, windowAge, claims, lives>>
      /\ UNCHANGED <<found, tried, round, checkedAge, letter, told>>
    BY DEF Begin, cacheVars, windowVars, monitorVars, Idle
<1>2. found[d] \in SUBSET Kinds
    BY DEF TypeOK
<1>3. /\ job' \in [Checks -> Jobs]
      /\ \A e \in Checks : e # c => job'[e] = job[e]
      /\ job'[c].pc # "claim"
      /\ job'[c].pc = "look" => job'[c].todo # {}
    BY <1>1, <1>2, ContinueStep
<1>4. TypeOK'
    BY <1>1, <1>3 DEF TypeOK
<1>5. WindowInv'
    BY <1>1, <1>3, WindowKept
<1>6. ClaimsAreTried'
    BY <1>1, <1>3 DEF ClaimsAreTried, Names
<1>. QED
    BY <1>4, <1>5, <1>6

LEMMA LookKeeps ==
    ASSUME NotifierInv, NEW c \in Checks, Look(c)
    PROVE  NotifierInv'
<1>. USE DEF NotifierInv
<1>1. /\ job[c].pc = "look"
      /\ UNCHANGED <<cacheAge, watched, windowAge, claims, lives>>
      /\ UNCHANGED <<found, tried, round, checkedAge, letter, told>>
    BY DEF Look, cacheVars, windowVars, monitorVars
<1>2. /\ job[c] # Idle /\ job[c].dev \in Devices /\ job[c].mail \subseteq Kinds
      /\ job[c].todo \subseteq Kinds /\ Key(c) \in Keys
    BY <1>1, JobType DEF Idle
<1>3. CASE Recent(Key(c))
  <2>1. Continue(c, job[c].dev, job[c].todo \ {FirstOf(job[c].todo)}, job[c].mail)
      BY <1>3 DEF Look, Filter
  <2>2. /\ job' \in [Checks -> Jobs]
        /\ \A e \in Checks : e # c => job'[e] = job[e]
        /\ job'[c].pc # "claim"
        /\ job'[c].pc = "look" => job'[c].todo # {}
        /\ job[c].mail # {} => job'[c] # Idle /\ job'[c].dev = job[c].dev /\ job'[c].mail = job[c].mail
    <3>1. job[c].todo \ {FirstOf(job[c].todo)} \in SUBSET Kinds /\ job[c].mail \in SUBSET Kinds
        BY <1>2
    <3>. QED
        BY <1>2, <2>1, <3>1, ContinueStep
  <2>3. TypeOK'
      BY <1>1, <2>2 DEF TypeOK
  <2>4. WindowInv'
      BY <1>1, <2>2, WindowKept
  <2>5. ClaimsAreTried'
      BY <1>1, <2>2 DEF ClaimsAreTried, Names
  <2>. QED
      BY <2>3, <2>4, <2>5
<1>4. CASE ~Recent(Key(c))
  <2>1. job' = [job EXCEPT ![c] = [job[c] EXCEPT !.pc = "claim"]]
      BY <1>4 DEF Look
  <2>2. job[c] \in [pc : {"look", "claim"}, dev : Devices, todo : SUBSET Kinds, mail : SUBSET Kinds]
      BY <1>1 DEF TypeOK, Jobs, Idle
  <2>3. [job[c] EXCEPT !.pc = "claim"] \in [pc : {"look", "claim"}, dev : Devices, todo : SUBSET Kinds, mail : SUBSET Kinds]
      BY <2>2
  <2>4. /\ job' \in [Checks -> Jobs] /\ job'[c] = [job[c] EXCEPT !.pc = "claim"]
        /\ \A e \in Checks : e # c => job'[e] = job[e]
      BY <2>1, <2>3 DEF TypeOK, Jobs
  <2>5. /\ job'[c].dev = job[c].dev /\ job'[c].todo = job[c].todo
        /\ job'[c].mail = job[c].mail /\ job'[c].pc = "claim" /\ job'[c] # Idle
      BY <2>2, <2>4 DEF Idle
  <2>6. TypeOK'
      BY <1>1, <2>4, <2>5 DEF TypeOK
  <2>7. WindowInv'
    <3> SUFFICES claims + Cardinality(Claiming') <= Allowed(lives)
        BY <1>1 DEF WindowInv, Allowed
    <3>1. Key(c)' = Key(c)
        BY <2>5 DEF Key
    <3>2. CASE watched = Key(c)
      <4>0. cacheAge[watched] \in 0..Window /\ ~(cacheAge[watched] < Window)
          BY <1>4, <3>2 DEF Recent, TypeOK
      <4>1. cacheAge[watched] = Window
          BY <4>0, WindowAssumption
      <4>2. claims <= Allowed(lives - 1)
          BY <4>1 DEF WindowInv
      <4>3. Claiming' \subseteq Checks
          BY DEF Claiming
      <4>4. /\ Cardinality(Claiming') \in Nat /\ Cardinality(Checks) \in Nat
            /\ Cardinality(Claiming') <= Cardinality(Checks)
          BY <4>3, ChecksAssumption, FS_Subset, FS_CardinalityType
      <4>. QED
          BY <4>2, <4>4, WindowType
    <3>3. CASE watched # Key(c)
      <4>1. \A e \in Checks : e # c => (e \in Claiming' <=> e \in Claiming)
          BY <1>1, <2>4 DEF Claiming, Key
      <4>2. c \notin Claiming /\ c \notin Claiming'
          BY <1>1, <3>1, <3>3 DEF Claiming
      <4>3. Claiming' = Claiming
          BY <4>1, <4>2 DEF Claiming
      <4>. QED
          BY <4>3 DEF WindowInv
    <3>. QED
        BY <3>2, <3>3
  <2>8. ClaimsAreTried'
    <3> SUFFICES ASSUME cacheAge[watched] < Window, ~tried
                 PROVE  \E e \in Checks : job'[e] # Idle /\ watched[1] = job'[e].dev /\ watched[2] \in job'[e].mail
        BY <1>1 DEF ClaimsAreTried, Names
    <3>1. PICK e \in Checks : job[e] # Idle /\ watched[1] = job[e].dev /\ watched[2] \in job[e].mail
        BY DEF ClaimsAreTried, Names
    <3>. QED
        BY <2>4, <2>5, <3>1
  <2>. QED
      BY <2>6, <2>7, <2>8
<1>. QED
    BY <1>3, <1>4

LEMMA ClaimKeeps ==
    ASSUME NotifierInv, NEW c \in Checks, Claim(c)
    PROVE  NotifierInv'
<1>. USE DEF NotifierInv
<1>. DEFINE k == FirstOf(job[c].todo)
            key0 == Key(c)
<1>1. /\ job[c].pc = "claim"
      /\ cacheAge' = [cacheAge EXCEPT ![key0] = 0]
      /\ IF key0 = watched
         THEN /\ windowAge' = IF windowAge < Window THEN windowAge ELSE 0
              /\ claims' = claims + 1
              /\ tried' = FALSE
         ELSE UNCHANGED <<windowAge, claims, tried>>
      /\ Continue(c, job[c].dev, job[c].todo \ {k}, job[c].mail \cup {k})
      /\ UNCHANGED <<found, watched, lives, round, checkedAge, letter, told>>
    BY DEF Claim, Filter, monitorVars
<1>2. /\ job[c] # Idle /\ job[c].dev \in Devices /\ job[c].mail \subseteq Kinds
      /\ job[c].todo \subseteq Kinds /\ k \in job[c].todo /\ key0 \in Keys
    BY <1>1, JobType DEF Idle
<1>3. key0[1] = job[c].dev /\ key0[2] = k
    BY DEF Key
<1>4. /\ job' \in [Checks -> Jobs]
      /\ \A e \in Checks : e # c => job'[e] = job[e]
      /\ job'[c].pc # "claim"
      /\ job'[c].pc = "look" => job'[c].todo # {}
      /\ job'[c] # Idle /\ job'[c].dev = job[c].dev /\ job'[c].mail = job[c].mail \cup {k}
  <2>1. /\ job[c].todo \ {k} \in SUBSET Kinds /\ job[c].mail \cup {k} \in SUBSET Kinds
        /\ job[c].mail \cup {k} # {}
      BY <1>2
  <2>. HIDE DEF k
  <2>. QED
      BY <1>1, <1>2, <2>1, ContinueStep
<1>. HIDE DEF k, key0
<1>5. watched \in Keys /\ windowAge \in 0..Window /\ claims \in Nat
    BY DEF TypeOK
<1>6. TypeOK'
  <2>1. cacheAge' \in [Keys -> 0..Window]
    <3>1. cacheAge \in [Keys -> 0..Window] /\ 0 \in 0..Window
        BY WindowAssumption DEF TypeOK
    <3>. QED
        BY <1>1, <3>1
  <2>2. claims' \in Nat /\ windowAge' \in 0..Window /\ tried' \in BOOLEAN
    <3>1. 0 \in 0..Window /\ claims + 1 \in Nat /\ tried \in BOOLEAN
        BY <1>5, WindowAssumption DEF TypeOK
    <3>2. CASE key0 = watched
        BY <1>1, <1>5, <3>1, <3>2
    <3>3. CASE key0 # watched
        BY <1>1, <1>5, <3>1, <3>3
    <3>. QED
        BY <3>2, <3>3
  <2>. QED
      BY <1>1, <1>4, <2>1, <2>2 DEF TypeOK
<1>7. CASE key0 = watched
  <2>1. cacheAge'[watched] = 0
      BY <1>1, <1>5, <1>7 DEF TypeOK
  <2>2. /\ claims' = claims + 1 /\ tried' = FALSE
        /\ windowAge' = IF windowAge < Window THEN windowAge ELSE 0
      BY <1>1, <1>7
  <2>3. windowAge' \in 0..Window /\ windowAge' # Window
      BY <1>5, <2>2, WindowAssumption
  <2>4. Claiming' = Claiming \ {c} /\ c \in Claiming
    <3>1. Claiming' = Claiming \ {c}
        BY <1>1, <1>4, ClaimingStep
    <3>. QED
        BY <1>1, <1>7, <3>1 DEF Claiming, key0
  <2>5. Cardinality(Claiming') = Cardinality(Claiming) - 1 /\ Cardinality(Claiming) \in Nat
      BY <2>4, ClaimingFinite, FS_RemoveElement
  <2>6. claims + Cardinality(Claiming) <= Allowed(lives)
      BY DEF WindowInv
  <2>7. /\ claims' + Cardinality(Claiming') <= Allowed(lives)
        /\ cacheAge'[watched] # Window /\ cacheAge'[watched] <= windowAge'
      BY <1>5, <2>1, <2>2, <2>3, <2>5, <2>6, WindowAssumption, WindowType
  <2>8. WindowInv'
      BY <1>1, <2>3, <2>7 DEF WindowInv, Allowed
  <2>9. Names(job[c])' /\ ClaimsAreTried'
      BY <1>1, <1>3, <1>4, <1>7 DEF ClaimsAreTried, Names
  <2>. QED
      BY <1>6, <2>8, <2>9
<1>8. CASE key0 # watched
  <2>1. cacheAge'[watched] = cacheAge[watched] /\ UNCHANGED <<windowAge, claims, tried>>
      BY <1>1, <1>5, <1>8 DEF TypeOK
  <2>2. Claiming' = Claiming
    <3>1. Claiming' = Claiming \ {c}
        BY <1>1, <1>4, ClaimingStep
    <3>. QED
        BY <1>8, <3>1 DEF Claiming, key0
  <2>3. WindowInv'
      BY <1>1, <2>1, <2>2 DEF WindowInv, Allowed
  <2>4. ClaimsAreTried'
    <3> SUFFICES ASSUME cacheAge[watched] < Window, ~tried
                 PROVE  \E e \in Checks : job'[e] # Idle /\ watched[1] = job'[e].dev /\ watched[2] \in job'[e].mail
        BY <1>1, <2>1 DEF ClaimsAreTried, Names
    <3>1. PICK e \in Checks : job[e] # Idle /\ watched[1] = job[e].dev /\ watched[2] \in job[e].mail
        BY DEF ClaimsAreTried, Names
    <3>. QED
        BY <1>4, <3>1
  <2>. QED
      BY <1>6, <2>3, <2>4
<1>. QED
    BY <1>7, <1>8

LEMMA SendKeeps ==
    ASSUME NotifierInv, NEW c \in Checks, NEW success \in BOOLEAN, Send(c, success)
    PROVE  NotifierInv'
<1>. USE DEF NotifierInv
<1>1. /\ job[c].pc = "send"
      /\ tried' = (tried \/ Names(job[c]))
      /\ told' = (told \/ (success /\ Names(job[c]) /\ Holds))
      /\ job' = [job EXCEPT ![c] = Idle]
      /\ UNCHANGED <<cacheAge, watched, windowAge, claims, lives>>
      /\ UNCHANGED <<found, round, checkedAge, letter>>
    BY DEF Send, windowVars, monitorVars
<1>3. /\ job' \in [Checks -> Jobs] /\ job'[c] = Idle /\ job'[c].pc = "idle"
      /\ \A e \in Checks : e # c => job'[e] = job[e]
    BY <1>1 DEF TypeOK, Jobs, Idle
<1>4. TypeOK'
  <2>1. told' \in BOOLEAN /\ tried' \in BOOLEAN
      BY <1>1
  <2>. QED
      BY <1>1, <1>3, <2>1 DEF TypeOK
<1>5. WindowInv'
    BY <1>1, <1>3, WindowKept
<1>6. ClaimsAreTried'
  <2> SUFFICES ASSUME cacheAge[watched] < Window, ~tried'
               PROVE  \E e \in Checks : job'[e] # Idle /\ watched[1] = job'[e].dev /\ watched[2] \in job'[e].mail
      BY <1>1 DEF ClaimsAreTried, Names
  <2>1. ~tried /\ ~Names(job[c])
      BY <1>1
  <2>2. PICK e \in Checks : job[e] # Idle /\ Names(job[e])
      BY <2>1 DEF ClaimsAreTried
  <2>3. e # c
      BY <2>1, <2>2
  <2>. QED
      BY <1>3, <2>2, <2>3 DEF Names
<1>. QED
    BY <1>4, <1>5, <1>6

-----------------------------------------------------------------------------
LEMMA NotifierNext == NotifierInv /\ [Next]_vars => NotifierInv'
<1> SUFFICES ASSUME NotifierInv, [Next]_vars PROVE NotifierInv'
    OBVIOUS
<1>1. CASE UNCHANGED vars
  <2>1. /\ UNCHANGED <<cacheVars, job>>
        /\ UNCHANGED <<found, cacheAge, watched, windowAge, claims, lives, tried, job, told>>
        /\ UNCHANGED <<round, checkedAge, letter>>
      BY <1>1 DEF vars, cacheVars, windowVars, monitorVars
  <2>. QED
      BY <2>1, CacheKept DEF NotifierInv, TypeOK
<1>2. CASE AnalysisChanges
    BY <1>2, OutsideKeeps
<1>3. CASE QuarterHour
    BY <1>3, QuarterHourKeeps
<1>4. CASE Restart
    BY <1>4, RestartKeeps
<1>5. CASE \E c \in Checks : Check(c)
    BY <1>5, BeginKeeps, LookKeeps, ClaimKeeps, SendKeeps DEF Check
<1>6. CASE \E m \in Monitors : Monitor(m)
    BY <1>6, OutsideKeeps
<1>. QED
    BY <1>1, <1>2, <1>3, <1>4, <1>5, <1>6 DEF Next

\* The inductive invariant of the leak mails holds in every reachable state:
\* what the cache says is tied to the checks that are writing it.
THEOREM NotifierInvariant == Spec => []NotifierInv
    BY NotifierInit, NotifierNext, PTL DEF Spec

\* Every variable of the leak mails keeps its type.
THEOREM NotifierTypes == Spec => []TypeOK
<1>1. NotifierInv => TypeOK
    BY DEF NotifierInv
<1>. QED
    BY <1>1, NotifierInvariant, PTL

\* However many threads ask should_send_notification at once, and although a
\* restart empties its cache, the checks mail a kind no more often in the four
\* hours that a mail begins than there are checks in each of the server's lives.
THEOREM FewMailsPerWindow == Spec => []MailsPerWindow
<1>1. NotifierInv => MailsPerWindow
  <2> SUFFICES ASSUME NotifierInv PROVE claims <= Allowed(lives)
      BY DEF MailsPerWindow, Allowed
  <2>1. /\ Cardinality(Claiming) \in Nat
        /\ claims + Cardinality(Claiming) <= Allowed(lives)
      BY ClaimingFinite DEF NotifierInv, WindowInv
  <2>2. claims \in Nat /\ Allowed(lives) \in Nat
      BY WindowType DEF NotifierInv
  <2>. QED
      BY <2>1, <2>2
<1>. QED
    BY <1>1, NotifierInvariant, PTL

\* No path through a check drops an alert after the cache took note of it.
THEOREM ClaimsLeadToMails == Spec => []ClaimsAreTried
<1>1. NotifierInv => ClaimsAreTried
    BY DEF NotifierInv
<1>. QED
    BY <1>1, NotifierInvariant, PTL
=============================================================================
