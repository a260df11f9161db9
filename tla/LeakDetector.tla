---------------------------- MODULE LeakDetector ----------------------------
(***************************************************************************)
(* LeakDetector.analyze_device (web/python/leak_detector.py) over the rows *)
(* of the last day that check_single_device, send_automatic_leak_email and *)
(* check_single_device_for_leaks (web/python/app.py) fetch for it.  The    *)
(* scan for long usage is the loop of the code, one iteration a step; the  *)
(* other two analyses are expressions.                                     *)
(*                                                                         *)
(* Moments are whole numbers of some unit.  Every row of a day is also a   *)
(* row of the last seven days, so the history of the rate is all rows.     *)
(***************************************************************************)
EXTENDS Integers, Sequences, FiniteSetsExt

CONSTANTS
    MinInterval,   \* min_interval_minutes
    MaxContinuous, \* max_continuous_minutes
    Day,           \* length of a day, and of the window of the query
    NightEnd,      \* night_hours: from the start of a day up to here
    NightRows,     \* rows that make a night suspicious
    MinRows,       \* rows that an analysis needs
    RateRows,      \* the rate is looked at with more rows than this
    Recent,        \* the two hours of the present rate
    RecentRows,    \* rows that the present rate needs
    HistoryRows,   \* rows that the normal rate needs
    RecentFloor,   \* least time span of the present rate
    HistoryFloor,  \* least time span of the normal rate
    Multiplier,    \* high_consumption_multiplier
    MaxRows,       \* bound: rows in the window
    MaxNow         \* bound: the clock

ASSUME RowsAssumption == MinRows \in Nat \ {0}
ASSUME LimitsAssumption ==
    /\ MinInterval \in Nat /\ MaxContinuous \in Nat /\ Day \in Nat \ {0}
    /\ NightEnd \in Nat /\ NightRows \in Nat
    /\ RateRows \in Nat /\ Recent \in Nat /\ RecentRows \in Nat /\ HistoryRows \in Nat
    /\ RecentFloor \in Nat /\ HistoryFloor \in Nat /\ Multiplier \in Nat
    /\ MaxRows \in Nat /\ MaxNow \in Nat

VARIABLES
    now,       \* datetime.now()
    rows,      \* moments of the last day in device_changes, in order
    pc,        \* "idle", or "scan" inside the loop of _detect_long_continuous_usage
    i,         \* rows that the loop has gone through
    start,     \* continuous_start, as a row; 0 for None
    segments,  \* suspicious_segments, as pairs of first and last row
    verdict,   \* the alerts of the last analysis
    kept       \* history: no row has grown too old since then

vars == <<now, rows, pc, i, start, segments, verdict, kept>>

NoAlert == [long |-> FALSE, night |-> FALSE, rate |-> FALSE]

Init ==
    /\ now = 0
    /\ rows = <<>>
    /\ pc = "idle"
    /\ i = 0
    /\ start = 0
    /\ segments = {}
    /\ verdict = NoAlert
    /\ kept = TRUE

-----------------------------------------------------------------------------
(* Rows.                                                                   *)

\* rows with moment behind its first k.
Inserted(k, moment) ==
    [a \in 1..(Len(rows) + 1) |->
        IF a <= k THEN rows[a] ELSE IF a = k + 1 THEN moment ELSE rows[a - 1]]

\* Mutant of RowArrives: rows in the order of their arrival.
RowArrivesLast(moment) ==
    /\ pc = "idle"
    /\ Len(rows) < MaxRows
    /\ rows' = Append(rows, moment)
    /\ UNCHANGED <<now, pc, i, start, segments, verdict, kept>>

\* The board uploads late and in groups, so a moment may lie in the past.
RowArrives(moment) ==
    /\ pc = "idle"
    /\ Len(rows) < MaxRows
    /\ \E k \in 0..Len(rows) :
          /\ k > 0 => rows[k] <= moment
          /\ k < Len(rows) => moment < rows[k + 1]
          /\ rows' = Inserted(k, moment)
    /\ UNCHANGED <<now, pc, i, start, segments, verdict, kept>>

\* Rows that are older than the window of the query leave it.
TimePasses ==
    /\ pc = "idle"
    /\ now < MaxNow
    /\ now' = now + 1
    /\ \E k \in 0..Len(rows) :
          /\ k > 0 => rows[k] <= now' - Day
          /\ k < Len(rows) => rows[k + 1] > now' - Day
          /\ rows' = SubSeq(rows, k + 1, Len(rows))
          /\ kept' = (kept /\ k = 0)
    /\ UNCHANGED <<pc, i, start, segments, verdict>>

-----------------------------------------------------------------------------
(* _detect_long_continuous_usage.                                          *)

Long(a, b) == rows[b] - rows[a] > MaxContinuous

\* The segment that is open, if any, joins the suspicious ones.
Closed(last) ==
    IF start # 0 /\ Long(start, last) THEN segments \cup {<<start, last>>} ELSE segments

\* analyze_device needs three rows and then begins with this scan.
Analyze ==
    /\ pc = "idle"
    /\ IF Len(rows) < MinRows
       THEN /\ verdict' = NoAlert
            /\ kept' = TRUE
            /\ UNCHANGED <<pc, i, start, segments>>
       ELSE /\ pc' = "scan"
            /\ i' = 1
            /\ start' = 0
            /\ segments' = {}
            /\ UNCHANGED <<verdict, kept>>
    /\ UNCHANGED <<now, rows>>

\* Mutant of UsageContinues: a run starts at the row after the first gap.
UsageContinuesLate ==
    /\ pc = "scan" /\ i < Len(rows)
    /\ rows[i + 1] - rows[i] <= MinInterval
    /\ start' = IF start = 0 THEN i + 1 ELSE start
    /\ i' = i + 1
    /\ UNCHANGED <<now, rows, pc, segments, verdict, kept>>

UsageContinues ==
    /\ pc = "scan" /\ i < Len(rows)
    /\ rows[i + 1] - rows[i] <= MinInterval
    /\ start' = IF start = 0 THEN i ELSE start
    /\ i' = i + 1
    /\ UNCHANGED <<now, rows, pc, segments, verdict, kept>>

UsagePauses ==
    /\ pc = "scan" /\ i < Len(rows)
    /\ rows[i + 1] - rows[i] > MinInterval
    /\ segments' = Closed(i)
    /\ start' = 0
    /\ i' = i + 1
    /\ UNCHANGED <<now, rows, pc, verdict, kept>>

-----------------------------------------------------------------------------
(* _detect_night_leaks and _detect_high_consumption_rate.                  *)

NightLeak == Cardinality({k \in DOMAIN rows : rows[k] % Day < NightEnd}) >= NightRows

\* The time between the first and the last of some rows.
Span(part, floor) ==
    LET span == rows[Max(part)] - rows[Min(part)] IN IF span < floor THEN floor ELSE span

\* Mutant of Faster: without high_consumption_multiplier.
FasterAtAll(recent) ==
    Cardinality(recent) * Span(DOMAIN rows, HistoryFloor) > Len(rows) * Span(recent, RecentFloor)

\* Rows per span of time, compared without division.
Faster(recent) ==
    Cardinality(recent) * Span(DOMAIN rows, HistoryFloor)
        > Multiplier * Len(rows) * Span(recent, RecentFloor)

RecentChanges == {k \in DOMAIN rows : rows[k] >= now - Recent}

HighRate ==
    /\ Len(rows) > RateRows
    /\ Cardinality(RecentChanges) >= RecentRows
    /\ Len(rows) >= HistoryRows
    /\ Faster(RecentChanges)

\* Mutant of ScanEnds: the segment that is open at the end is forgotten.
ScanEndsOpen ==
    /\ pc = "scan" /\ i = Len(rows)
    /\ pc' = "idle"
    /\ segments' = segments
    /\ verdict' = [long |-> segments' # {}, night |-> NightLeak, rate |-> HighRate]
    /\ kept' = TRUE
    /\ UNCHANGED <<now, rows, i, start>>

\* The last segment is checked, the other analyses follow, and analyze_device
\* returns.
ScanEnds ==
    /\ pc = "scan" /\ i = Len(rows)
    /\ pc' = "idle"
    /\ segments' = Closed(i)
    /\ verdict' = [long |-> segments' # {}, night |-> NightLeak, rate |-> HighRate]
    /\ kept' = TRUE
    /\ UNCHANGED <<now, rows, i, start>>

Scan == UsageContinues \/ UsagePauses \/ ScanEnds

Next ==
    \/ \E moment \in now - Day + 1 .. now : RowArrives(moment)
    \/ TimePasses \/ Analyze \/ Scan

Spec == Init /\ [][Next]_vars

-----------------------------------------------------------------------------
(* Properties.                                                             *)

\* Every variable keeps its type, and rows are in order.
TypeOK ==
    /\ now \in 0..MaxNow
    /\ rows \in Seq(Int)
    /\ \A a, b \in DOMAIN rows : a <= b => rows[a] <= rows[b]
    /\ pc \in {"idle", "scan"}
    /\ i \in Nat /\ start \in Nat
    /\ segments \subseteq Nat \X Nat
    /\ verdict \in [long : BOOLEAN, night : BOOLEAN, rate : BOOLEAN]
    /\ kept \in BOOLEAN

\* The rows from a to b follow each other within MinInterval, and neither the
\* row before nor the one after does.
Tight(a, b) == \A k \in a..(b - 1) : rows[k + 1] - rows[k] <= MinInterval
Run(a, b) ==
    /\ a \in 1..Len(rows) /\ b \in 1..Len(rows) /\ a < b
    /\ Tight(a, b)
    /\ a > 1 => rows[a] - rows[a - 1] > MinInterval
    /\ b < Len(rows) => rows[b + 1] - rows[b] > MinInterval

\* When the scan ends it has found exactly the maximal runs of rows that last
\* longer than an hour: none is missed at the end of the data, none is split
\* or joined, none is counted twice (_detect_long_continuous_usage).
FindsLongRuns ==
    [][ScanEnds =>
          segments' = {r \in (1..Len(rows)) \X (1..Len(rows)) : Run(r[1], r[2]) /\ Long(r[1], r[2])}]_vars

\* Rows that arrive, in whatever order, never take an alert for long usage or
\* for the night back: until the day is over the next analysis repeats it.
AlertsStay ==
    [][kept => /\ verdict.long => verdict'.long
               /\ verdict.night => verdict'.night]_vars

\* A flow as even as the clock shows, over at least an hour, is never called
\* abnormally fast, wherever the last two hours begin.
Even == \A a \in 2..(Len(rows) - 1) : rows[a + 1] - rows[a] = rows[a] - rows[a - 1]
EvenFlowIsNormal ==
    [][ScanEnds /\ Even /\ rows[Len(rows)] - rows[1] >= HistoryFloor => ~verdict'.rate]_vars
=============================================================================
