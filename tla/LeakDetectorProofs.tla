------------------------- MODULE LeakDetectorProofs -------------------------
(***************************************************************************)
(* Proofs about LeakDetector: the scan for long usage finds exactly the    *)
(* maximal runs, for every list of rows and every limit.                   *)
(***************************************************************************)
EXTENDS LeakDetector, SequenceTheorems, FiniteSetTheorems, FunctionTheorems,
        WellFoundedInduction, TLAPS

Gap(k) == rows[k + 1] - rows[k]

\* What the loop knows when it has gone through i rows.
OpenRun ==
    /\ i \in 1..Len(rows)
    /\ start \in 0..(i - 1)
    /\ start # 0 => /\ Tight(start, i)
                    /\ start > 1 => Gap(start - 1) > MinInterval
    /\ start = 0 /\ i > 1 => Gap(i - 1) > MinInterval

\* The long runs that end before the row last.
LongRuns(last) ==
    {r \in (1..Len(rows)) \X (1..Len(rows)) :
        r[2] < last /\ Run(r[1], r[2]) /\ Long(r[1], r[2])}

ScanInv ==
    /\ now \in Nat
    /\ rows \in Seq(Int)
    /\ pc = "scan" => OpenRun /\ segments = LongRuns(i)

-----------------------------------------------------------------------------
\* A gap is a whole number.
LEMMA GapType ==
    ASSUME rows \in Seq(Int), NEW k \in 1..(Len(rows) - 1)
    PROVE  Gap(k) \in Int
<1>1. k \in 1..Len(rows) /\ k + 1 \in 1..Len(rows)
  OBVIOUS
<1>. QED BY <1>1 DEF Gap

\* At row i, where the data end or a gap follows, the only run that ends is the
\* one that the loop has open.
LEMMA OnlyOpenRun ==
    ASSUME rows \in Seq(Int), OpenRun,
           i = Len(rows) \/ Gap(i) > MinInterval,
           NEW a \in 1..Len(rows)
    PROVE  Run(a, i) <=> start # 0 /\ a = start
<1>. USE LimitsAssumption
<1>. i \in 1..Len(rows) /\ Len(rows) \in Nat /\ start \in 0..(i - 1)
  BY DEF OpenRun
<1>1. ASSUME start # 0 PROVE Run(start, i)
  BY <1>1 DEF OpenRun, Run, Gap
<1>2. ASSUME Run(a, i) PROVE start # 0 /\ a = start
  <2>1. a < i /\ Tight(a, i)
    BY <1>2 DEF Run
  <2>2. start # 0
    <3>1. ASSUME start = 0 PROVE FALSE
      <4>1. i - 1 \in a..(i - 1) /\ Gap(i - 1) > MinInterval
        BY <2>1, <3>1 DEF OpenRun
      <4>2. Gap(i - 1) <= MinInterval
        BY <2>1, <4>1 DEF Tight, Gap
      <4>3. Gap(i - 1) \in Int
        BY <2>1, GapType
      <4>. QED BY <4>1, <4>2, <4>3
    <3>. QED BY <3>1
  <2>3. ~(a < start)
    <3>1. ASSUME a < start PROVE FALSE
      <4>1. start - 1 \in a..(i - 1) /\ start - 1 \in 1..Len(rows) /\ Gap(start - 1) > MinInterval
        BY <2>2, <3>1 DEF OpenRun
      <4>2. Gap(start - 1) <= MinInterval
        BY <2>1, <4>1 DEF Tight, Gap
      <4>3. Gap(start - 1) \in Int
        BY <4>1, <2>2, <3>1, GapType
      <4>. QED BY <4>1, <4>2, <4>3
    <3>. QED BY <3>1
  <2>4. ~(start < a)
    <3>1. ASSUME start < a PROVE FALSE
      <4>1. a - 1 \in start..(i - 1) /\ a - 1 \in 1..Len(rows) /\ a > 1
        BY <2>1, <2>2, <3>1
      <4>2. Gap(a - 1) <= MinInterval
        BY <2>2, <4>1 DEF OpenRun, Tight, Gap
      <4>3. Gap(a - 1) > MinInterval
        BY <1>2, <4>1 DEF Run, Gap
      <4>4. Gap(a - 1) \in Int
        BY <4>1, GapType
      <4>. QED BY <4>2, <4>3, <4>4
    <3>. QED BY <3>1
  <2>. QED BY <2>2, <2>3, <2>4
<1>. QED BY <1>1, <1>2

\* Closing the open run at row i adds exactly the long runs that end there.
LEMMA ClosedRuns ==
    ASSUME rows \in Seq(Int), OpenRun, segments = LongRuns(i),
           i = Len(rows) \/ Gap(i) > MinInterval
    PROVE  Closed(i) = LongRuns(i + 1)
<1>. i \in 1..Len(rows) /\ Len(rows) \in Nat /\ start \in 0..(i - 1)
  BY DEF OpenRun
<1>1. \A r \in (1..Len(rows)) \X (1..Len(rows)) : r[2] < i + 1 <=> r[2] < i \/ r[2] = i
  OBVIOUS
<1>2. \A a \in 1..Len(rows) : Run(a, i) <=> start # 0 /\ a = start
  BY OnlyOpenRun
<1>3. LongRuns(i + 1) =
        LongRuns(i) \cup {r \in (1..Len(rows)) \X (1..Len(rows)) :
                            r[2] = i /\ Run(r[1], i) /\ Long(r[1], i)}
  BY <1>1 DEF LongRuns
<1>4. {r \in (1..Len(rows)) \X (1..Len(rows)) : r[2] = i /\ Run(r[1], i) /\ Long(r[1], i)}
        = IF start # 0 /\ Long(start, i) THEN {<<start, i>>} ELSE {}
  BY <1>2
<1>. QED BY <1>3, <1>4 DEF Closed

\* No run ends at a row that the next one follows closely.
LEMMA NoRunEnds ==
    ASSUME rows \in Seq(Int), i \in 1..Len(rows), i < Len(rows), Gap(i) <= MinInterval
    PROVE  LongRuns(i + 1) = LongRuns(i)
<1>. Len(rows) \in Nat /\ Gap(i) \in Int /\ MinInterval \in Nat
  BY LimitsAssumption, GapType
<1>1. \A a : ~Run(a, i)
  BY DEF Run, Gap
<1>2. \A r \in (1..Len(rows)) \X (1..Len(rows)) : r[2] < i + 1 <=> r[2] < i \/ r[2] = i
  OBVIOUS
<1>. QED BY <1>1, <1>2 DEF LongRuns

-----------------------------------------------------------------------------
\* A row more is still a list of moments.
LEMMA InsertedIsSeq ==
    ASSUME rows \in Seq(Int), NEW k \in 0..Len(rows), NEW moment \in Int
    PROVE  Inserted(k, moment) \in Seq(Int) /\ Len(Inserted(k, moment)) = Len(rows) + 1
<1>1. \A a \in 1..(Len(rows) + 1) :
        (IF a <= k THEN rows[a] ELSE IF a = k + 1 THEN moment ELSE rows[a - 1]) \in Int
  <2>1. \A a \in 1..(Len(rows) + 1) : a <= k => a \in 1..Len(rows)
    OBVIOUS
  <2>2. \A a \in 1..(Len(rows) + 1) : a > k + 1 => a - 1 \in 1..Len(rows)
    OBVIOUS
  <2>. QED BY <2>1, <2>2
<1>2. Inserted(k, moment) \in [1..(Len(rows) + 1) -> Int]
  BY <1>1 DEF Inserted
<1>. QED BY <1>2

\* Rows in the order of their moments.
Ordered == \A a, b \in DOMAIN rows : a <= b => rows[a] <= rows[b]

\* The order survives where RowArrives puts a moment.
LEMMA InsertedInOrder ==
    ASSUME rows \in Seq(Int), Ordered, NEW k \in 0..Len(rows), NEW moment \in Int,
           k > 0 => rows[k] <= moment,
           k < Len(rows) => moment < rows[k + 1],
           rows' = Inserted(k, moment)
    PROVE  Ordered'
<1>1. DOMAIN rows = 1..Len(rows) /\ DOMAIN rows' = 1..(Len(rows) + 1) /\ Len(rows) \in Nat
  BY DEF Inserted
<1> SUFFICES ASSUME NEW a \in 1..(Len(rows) + 1), NEW b \in 1..(Len(rows) + 1), a <= b
             PROVE  rows'[a] <= rows'[b]
  BY <1>1 DEF Ordered
<1>2. /\ rows'[a] = IF a <= k THEN rows[a] ELSE IF a = k + 1 THEN moment ELSE rows[a - 1]
      /\ rows'[b] = IF b <= k THEN rows[b] ELSE IF b = k + 1 THEN moment ELSE rows[b - 1]
  BY DEF Inserted
<1>3. ASSUME a <= k PROVE rows[a] \in Int /\ rows[a] <= moment
  <2>1. a \in DOMAIN rows /\ k \in DOMAIN rows
    BY <1>1, <1>3
  <2>. QED BY <1>3, <2>1 DEF Ordered
<1>4. ASSUME b > k + 1 PROVE rows[b - 1] \in Int /\ moment <= rows[b - 1]
  <2>1. b - 1 \in DOMAIN rows /\ k + 1 \in DOMAIN rows /\ k + 1 <= b - 1
    BY <1>1, <1>4
  <2>. QED BY <1>4, <2>1 DEF Ordered
<1>5. CASE b <= k
  <2>1. a <= k /\ a \in DOMAIN rows /\ b \in DOMAIN rows
    BY <1>1, <1>5
  <2>. QED BY <1>2, <1>5, <2>1 DEF Ordered
<1>6. CASE b = k + 1
  BY <1>2, <1>3, <1>6
<1>7. CASE b > k + 1
  <2>1. CASE a <= k
    BY <1>2, <1>3, <1>4, <1>7, <2>1
  <2>2. CASE a = k + 1
    BY <1>2, <1>4, <1>7, <2>2
  <2>3. CASE a > k + 1
    <3>1. a - 1 \in DOMAIN rows /\ b - 1 \in DOMAIN rows /\ a - 1 <= b - 1
      BY <1>1, <1>7, <2>3
    <3>. QED BY <1>2, <1>7, <2>3, <3>1 DEF Ordered
  <2>. QED BY <2>1, <2>2, <2>3
<1>. QED BY <1>5, <1>6, <1>7

-----------------------------------------------------------------------------
\* The scan keeps track of exactly the long runs behind it, whatever rows
\* arrive or leave between two scans.
LEMMA ScanInvInductive ==
    ScanInv /\ [Next]_vars => ScanInv'
<1> SUFFICES ASSUME ScanInv, [Next]_vars PROVE ScanInv'
  OBVIOUS
<1>. now \in Nat /\ rows \in Seq(Int) /\ Len(rows) \in Nat /\ MinInterval \in Nat
  BY LimitsAssumption DEF ScanInv
<1>1. ASSUME NEW moment \in now - Day + 1 .. now, RowArrives(moment) PROVE ScanInv'
  <2>1. pc' # "scan"
    BY <1>1 DEF RowArrives
  <2>2. PICK k \in 0..Len(rows) : rows' = Inserted(k, moment)
    BY <1>1 DEF RowArrives
  <2>3. moment \in Int
    BY <1>1, LimitsAssumption
  <2>4. rows' \in Seq(Int)
    BY <2>2, <2>3, InsertedIsSeq
  <2>. QED BY <2>1, <2>4, <1>1 DEF ScanInv, RowArrives
<1>2. CASE TimePasses
  <2>1. pc' # "scan"
    BY <1>2 DEF TimePasses
  <2>2. rows' \in Seq(Int)
    BY <1>2 DEF TimePasses
  <2>. QED BY <2>1, <2>2, <1>2 DEF ScanInv, TimePasses
<1>3. CASE Analyze
  <2>. rows' = rows /\ now' = now
    BY <1>3 DEF Analyze
  <2>1. CASE Len(rows) < MinRows
    BY <1>3, <2>1 DEF Analyze, ScanInv
  <2>2. CASE ~(Len(rows) < MinRows)
    <3>1. i' = 1 /\ start' = 0 /\ segments' = {} /\ 1 \in 1..Len(rows)
      BY <1>3, <2>2, RowsAssumption DEF Analyze
    <3>2. OpenRun'
      BY <3>1 DEF OpenRun
    <3>3. LongRuns(i)' = {}
      BY <3>1 DEF LongRuns
    <3>. QED BY <3>1, <3>2, <3>3 DEF ScanInv
  <2>. QED BY <2>1, <2>2
<1>4. CASE UsageContinues
  <2>. /\ rows' = rows /\ i' = i + 1 /\ segments' = segments /\ i < Len(rows)
       /\ start' = IF start = 0 THEN i ELSE start
       /\ OpenRun /\ segments = LongRuns(i) /\ Gap(i) <= MinInterval
    BY <1>4 DEF UsageContinues, ScanInv, Gap
  <2>. i \in 1..Len(rows) /\ start \in 0..(i - 1)
    BY DEF OpenRun
  <2>1. OpenRun'
    <3>1. i' \in 1..Len(rows) /\ start' \in 1..(i' - 1)
      OBVIOUS
    <3>2. Tight(start', i')
      <4>1. SUFFICES ASSUME NEW k \in start'..(i' - 1) PROVE Gap(k) <= MinInterval
        BY DEF Tight, Gap
      <4>2. CASE k = i
        BY <4>2
      <4>3. CASE k # i
        BY <4>1, <4>3 DEF OpenRun, Tight, Gap
      <4>. QED BY <4>2, <4>3
    <3>3. start' > 1 => Gap(start' - 1) > MinInterval
      BY DEF OpenRun
    <3>. QED BY <3>1, <3>2, <3>3 DEF OpenRun, Tight, Gap
  <2>2. LongRuns(i)' = LongRuns(i + 1)
    BY DEF LongRuns, Run, Long, Tight
  <2>. QED BY <2>1, <2>2, NoRunEnds, <1>4 DEF ScanInv, UsageContinues
<1>5. CASE UsagePauses
  <2>. /\ rows' = rows /\ i' = i + 1 /\ segments' = Closed(i) /\ i < Len(rows)
       /\ start' = 0 /\ OpenRun /\ segments = LongRuns(i) /\ Gap(i) > MinInterval
    BY <1>5 DEF UsagePauses, ScanInv, Gap
  <2>. i \in 1..Len(rows)
    BY DEF OpenRun
  <2>1. OpenRun'
    <3>1. i' - 1 = i
      OBVIOUS
    <3>. QED BY <3>1 DEF OpenRun, Gap
  <2>2. LongRuns(i)' = LongRuns(i + 1)
    BY DEF LongRuns, Run, Long, Tight
  <2>. QED BY <2>1, <2>2, ClosedRuns, <1>5 DEF ScanInv, UsagePauses
<1>6. CASE ScanEnds
  BY <1>6 DEF ScanEnds, ScanInv
<1>7. CASE UNCHANGED vars
  BY <1>7 DEF vars, ScanInv, OpenRun, LongRuns, Run, Long, Tight, Gap
<1>. QED BY <1>1, <1>2, <1>3, <1>4, <1>5, <1>6, <1>7 DEF Next, Scan

\* The scan of analyze_device finds the maximal runs of rows that last longer
\* than max_continuous_minutes, all of them and nothing else, for every list of
\* rows, every limit and every order of arrival.
THEOREM ScanFindsLongRuns == Spec => FindsLongRuns
<1>1. Init => ScanInv
  BY DEF Init, ScanInv
<1>2. ScanInv /\ [Next]_vars => ScanInv'
  BY ScanInvInductive
<1>3. ScanInv /\ [Next]_vars =>
        [ScanEnds => segments' = {r \in (1..Len(rows)) \X (1..Len(rows)) :
                                    Run(r[1], r[2]) /\ Long(r[1], r[2])}]_vars
  <2> SUFFICES ASSUME ScanInv, ScanEnds
               PROVE segments' = {r \in (1..Len(rows)) \X (1..Len(rows)) :
                                    Run(r[1], r[2]) /\ Long(r[1], r[2])}
    OBVIOUS
  <2>1. /\ rows \in Seq(Int) /\ OpenRun /\ segments = LongRuns(i)
        /\ i = Len(rows) /\ segments' = Closed(i)
    BY DEF ScanInv, ScanEnds
  <2>2. segments' = LongRuns(i + 1)
    BY <2>1, ClosedRuns
  <2>3. \A r \in (1..Len(rows)) \X (1..Len(rows)) : r[2] < i + 1
    BY <2>1
  <2>. QED BY <2>2, <2>3 DEF LongRuns
<1>. QED BY <1>1, <1>2, <1>3, PTL DEF Spec, FindsLongRuns

-----------------------------------------------------------------------------
\* Every variable keeps its type and the rows stay in the order of their
\* moments, wherever a late upload inserts one.
LEMMA TypeInductive ==
    TypeOK /\ ScanInv /\ [Next]_vars => TypeOK'
<1> SUFFICES ASSUME TypeOK, ScanInv, [Next]_vars PROVE TypeOK'
  OBVIOUS
<1>. USE LimitsAssumption DEF TypeOK
<1>. Ordered /\ rows \in Seq(Int) /\ Len(rows) \in Nat
  BY DEF Ordered
<1>1. ASSUME NEW moment \in now - Day + 1 .. now, RowArrives(moment) PROVE TypeOK'
  <2>1. PICK k \in 0..Len(rows) :
          /\ k > 0 => rows[k] <= moment
          /\ k < Len(rows) => moment < rows[k + 1]
          /\ rows' = Inserted(k, moment)
    BY <1>1 DEF RowArrives
  <2>2. moment \in Int
    OBVIOUS
  <2>3. rows' \in Seq(Int) /\ Ordered'
    BY <2>1, <2>2, InsertedIsSeq, InsertedInOrder
  <2>. QED BY <1>1, <2>3 DEF RowArrives, Ordered
<1>2. CASE TimePasses
  <2>1. PICK k \in 0..Len(rows) :
          rows' = SubSeq(rows, k + 1, Len(rows)) /\ kept' = (kept /\ k = 0)
    BY <1>2 DEF TimePasses
  <2>2. /\ rows' \in Seq(Int) /\ Len(rows') = Len(rows) - k
        /\ \A a \in 1..(Len(rows) - k) : rows'[a] = rows[k + a]
    BY <2>1
  <2>3. Ordered'
    <3>1. DOMAIN rows' = 1..(Len(rows) - k)
      BY <2>2
    <3> SUFFICES ASSUME NEW a \in 1..(Len(rows) - k), NEW b \in 1..(Len(rows) - k), a <= b
                 PROVE  rows'[a] <= rows'[b]
      BY <3>1 DEF Ordered
    <3>2. k + a \in DOMAIN rows /\ k + b \in DOMAIN rows /\ k + a <= k + b
      OBVIOUS
    <3>. QED BY <2>2, <3>2 DEF Ordered
  <2>4. kept' \in BOOLEAN
    BY <2>1
  <2>5. /\ now' \in 0..MaxNow
        /\ pc' = pc /\ i' = i /\ start' = start /\ segments' = segments /\ verdict' = verdict
    BY <1>2 DEF TimePasses
  <2>. QED BY <2>2, <2>3, <2>4, <2>5 DEF Ordered
<1>3. CASE Analyze
  <2>1. NoAlert \in [long : BOOLEAN, night : BOOLEAN, rate : BOOLEAN]
    BY DEF NoAlert
  <2>2. now' = now /\ rows' = rows
    BY <1>3 DEF Analyze
  <2>3. CASE Len(rows) < MinRows
    BY <1>3, <2>1, <2>2, <2>3 DEF Analyze
  <2>4. CASE ~(Len(rows) < MinRows)
    BY <1>3, <2>2, <2>4 DEF Analyze
  <2>. QED BY <2>3, <2>4
<1>4. CASE UsageContinues
  BY <1>4 DEF UsageContinues
<1>5. ASSUME pc = "scan" PROVE Closed(i) \subseteq Nat \X Nat
  BY <1>5 DEF Closed
<1>6. CASE UsagePauses
  BY <1>5, <1>6 DEF UsagePauses
<1>7. CASE ScanEnds
  <2>1. NightLeak \in BOOLEAN /\ HighRate \in BOOLEAN
    BY DEF NightLeak, HighRate, Faster
  <2>. QED BY <1>5, <1>7, <2>1 DEF ScanEnds
<1>8. CASE UNCHANGED vars
  BY <1>8 DEF vars
<1>. QED BY <1>1, <1>2, <1>3, <1>4, <1>6, <1>7, <1>8 DEF Next, Scan

LEMMA TypeInvariant == Spec => [](TypeOK /\ ScanInv)
<1>1. Init => TypeOK /\ ScanInv
  <2> SUFFICES ASSUME Init PROVE TypeOK /\ ScanInv
    OBVIOUS
  <2>1. rows = <<>> /\ DOMAIN rows = {}
    BY DEF Init
  <2>. QED BY <2>1, LimitsAssumption DEF Init, TypeOK, ScanInv, NoAlert
<1>. QED BY <1>1, TypeInductive, ScanInvInductive, PTL DEF Spec

\* Every variable keeps its type and the rows of the window stay in order
\* (check_single_device in app.py, the analyses of leak_detector.py).
THEOREM TypeCorrect == Spec => []TypeOK
    BY TypeInvariant, PTL

-----------------------------------------------------------------------------
(* Alerts stay.                                                            *)

HasLong == \E a, b \in 1..Len(rows) : a < b /\ Tight(a, b) /\ Long(a, b)
Nights == {k \in DOMAIN rows : rows[k] % Day < NightEnd}

\* A verdict that still covers the same rows, or more of them, is what they
\* give; and a long stretch behind the scan is closed or open.
StayInv ==
    /\ kept /\ verdict.long => Len(rows) >= MinRows /\ HasLong
    /\ kept /\ verdict.night => Len(rows) >= MinRows /\ NightLeak
    /\ pc = "scan" => Len(rows) >= MinRows
    /\ pc = "scan" =>
         \A a, b \in 1..i : a < b /\ Tight(a, b) /\ Long(a, b) =>
             segments # {} \/ (start # 0 /\ start <= a)

\* A row more moves the gaps behind it and splits the one that it falls into.
LEMMA InsertedGaps ==
    ASSUME rows \in Seq(Int), NEW k \in 0..Len(rows), NEW moment \in Int,
           k > 0 => rows[k] <= moment,
           k < Len(rows) => moment < rows[k + 1],
           rows' = Inserted(k, moment),
           NEW c \in 1..(Len(rows) - 1)
    PROVE  /\ c < k => Gap(c)' = Gap(c)
           /\ c > k => Gap(c + 1)' = Gap(c)
           /\ c = k => Gap(c)' <= Gap(c) /\ Gap(c + 1)' <= Gap(c)
<1>. Len(rows) \in Nat
  OBVIOUS
<1>1. rows[c] \in Int /\ rows[c + 1] \in Int
  OBVIOUS
<1>2. ASSUME c < k PROVE Gap(c)' = Gap(c)
  <2>1. c + 1 \in 1..(Len(rows) + 1) /\ c + 1 <= k
    BY <1>2
  <2>2. rows'[c] = rows[c] /\ rows'[c + 1] = rows[c + 1]
    BY <1>2, <2>1 DEF Inserted
  <2>. QED BY <2>2 DEF Gap
<1>3. ASSUME c > k PROVE Gap(c + 1)' = Gap(c)
  <2>1. /\ c + 1 \in 1..(Len(rows) + 1) /\ c + 1 > k + 1 /\ (c + 1) - 1 = c
        /\ (c + 1) + 1 \in 1..(Len(rows) + 1) /\ (c + 1) + 1 > k + 1 /\ ((c + 1) + 1) - 1 = c + 1
    BY <1>3
  <2>2. rows'[c + 1] = rows[(c + 1) - 1] /\ rows'[(c + 1) + 1] = rows[((c + 1) + 1) - 1]
    BY <1>3, <2>1 DEF Inserted
  <2>. QED BY <2>1, <2>2 DEF Gap
<1>4. ASSUME c = k PROVE Gap(c)' <= Gap(c) /\ Gap(c + 1)' <= Gap(c)
  <2>1. /\ c + 1 \in 1..(Len(rows) + 1) /\ c + 1 = k + 1
        /\ (c + 1) + 1 \in 1..(Len(rows) + 1) /\ (c + 1) + 1 > k + 1 /\ ((c + 1) + 1) - 1 = c + 1
    BY <1>4
  <2>2. rows'[c] = rows[c] /\ rows'[c + 1] = moment /\ rows'[(c + 1) + 1] = rows[((c + 1) + 1) - 1]
    BY <1>4, <2>1 DEF Inserted
  <2>3. rows[c] <= moment /\ moment < rows[c + 1]
    BY <1>4
  <2>. QED BY <1>1, <2>1, <2>2, <2>3 DEF Gap
<1>. QED BY <1>2, <1>3, <1>4

\* Numbers of rows behind the one that was put in, before and after.
LEMMA BehindTheRow ==
    ASSUME NEW a \in Int, NEW b \in Int, NEW c \in Int, NEW k \in Int,
           NEW x \in Int, NEW y \in Int, x <= c, c <= y - 1,
           a < b, y <= b + 1, a <= k => x = a, a > k => x = a + 1,
           c > k + 1 \/ (c = k + 1 /\ a > k)
    PROVE  c - 1 \in a..(b - 1) /\ c - 1 > k /\ (c - 1) + 1 = c
    OBVIOUS

\* So a long stretch stays one, with the row in front of it, behind it or in it.
LEMMA InsertKeepsLong ==
    ASSUME rows \in Seq(Int), NEW k \in 0..Len(rows), NEW moment \in Int,
           k > 0 => rows[k] <= moment,
           k < Len(rows) => moment < rows[k + 1],
           rows' = Inserted(k, moment), HasLong
    PROVE  HasLong'
<1>. Len(rows') = Len(rows) + 1 /\ Len(rows) \in Nat /\ rows' \in Seq(Int) /\ MinInterval \in Nat
  BY InsertedIsSeq, LimitsAssumption
<1>1. PICK a \in 1..Len(rows), b \in 1..Len(rows) : a < b /\ Tight(a, b) /\ Long(a, b)
  BY DEF HasLong
<1>. DEFINE x == IF a <= k THEN a ELSE a + 1
            y == IF b <= k THEN b ELSE b + 1
<1>2. x \in 1..Len(rows') /\ y \in 1..Len(rows') /\ x < y
  <2>1. a \in Int /\ b \in Int /\ k \in Int /\ 1 <= a /\ a < b /\ b <= Len(rows)
    BY <1>1
  <2>2. CASE b <= k
    <3>1. x = a /\ y = b
      BY <2>1, <2>2
    <3>. HIDE DEF x, y
    <3>. QED BY <2>1, <3>1
  <2>3. CASE a > k
    <3>1. x = a + 1 /\ y = b + 1
      BY <2>1, <2>3
    <3>. HIDE DEF x, y
    <3>. QED BY <2>1, <3>1
  <2>4. CASE a <= k /\ b > k
    <3>1. x = a /\ y = b + 1
      BY <2>1, <2>4
    <3>. HIDE DEF x, y
    <3>. QED BY <2>1, <3>1
  <2>. QED BY <2>1, <2>2, <2>3, <2>4
<1>3. rows'[x] = rows[a] /\ rows'[y] = rows[b]
  <2>1. ASSUME NEW c \in 1..Len(rows)
        PROVE  rows'[IF c <= k THEN c ELSE c + 1] = rows[c]
    <3>1. CASE c <= k
      BY <3>1 DEF Inserted
    <3>2. CASE c > k
      <4>1. c + 1 \in 1..(Len(rows) + 1) /\ c + 1 > k + 1 /\ (c + 1) - 1 = c
        BY <3>2
      <4>2. rows'[c + 1] = rows[(c + 1) - 1]
        BY <4>1 DEF Inserted
      <4>. QED BY <3>2, <4>1, <4>2
    <3>. QED BY <3>1, <3>2
  <2>. QED BY <2>1
<1>4. ASSUME NEW c \in x..(y - 1) PROVE Gap(c)' <= MinInterval
  <2>1. ASSUME NEW d \in a..(b - 1)
        PROVE  d \in 1..(Len(rows) - 1) /\ Gap(d) \in Int /\ Gap(d) <= MinInterval
    <3>1. d \in 1..(Len(rows) - 1)
      BY <1>1
    <3>2. Gap(d) <= MinInterval
      BY <1>1 DEF Tight, Gap
    <3>. QED BY <3>1, <3>2, GapType
  <2>2. c \in Int /\ Gap(c)' \in Int
    <3>1. x \in Int /\ y \in Int /\ 1 <= x /\ y <= Len(rows')
      BY <1>2
    <3>. HIDE DEF x, y
    <3>2. c \in 1..Len(rows') /\ c + 1 \in 1..Len(rows')
      BY <3>1, SMTT(40)
    <3>3. rows'[c] \in Int /\ rows'[c + 1] \in Int
      BY <3>2
    <3>. QED BY <3>2, <3>3 DEF Gap
  <2>3. CASE c < k
    <3>1. c \in a..(b - 1)
      BY <1>1, <2>3
    <3>2. c \in 1..(Len(rows) - 1) /\ Gap(c) <= MinInterval
      BY <2>1, <3>1
    <3>3. Gap(c)' = Gap(c)
      BY <2>3, <3>2, InsertedGaps
    <3>. QED BY <3>2, <3>3
  <2>4. CASE c = k
    <3>1. c \in a..(b - 1)
      BY <1>1, <2>4
    <3>2. c \in 1..(Len(rows) - 1) /\ Gap(c) <= MinInterval /\ Gap(c) \in Int
      BY <2>1, <3>1
    <3>3. Gap(c)' <= Gap(c)
      BY <2>4, <3>2, InsertedGaps
    <3>. QED BY <2>2, <3>2, <3>3
  <2>5. CASE c = k + 1 /\ a <= k
    <3>1. k \in a..(b - 1)
      BY <1>1, <2>5
    <3>2. k \in 1..(Len(rows) - 1) /\ Gap(k) <= MinInterval /\ Gap(k) \in Int
      BY <2>1, <3>1
    <3>3. Gap(k + 1)' <= Gap(k)
      BY <3>2, InsertedGaps
    <3>. QED BY <2>2, <2>5, <3>2, <3>3
  <2>6. CASE c > k + 1 \/ (c = k + 1 /\ a > k)
    <3>1. c - 1 \in a..(b - 1) /\ c - 1 > k /\ (c - 1) + 1 = c
      <4>1. x \in Int /\ y \in Int /\ x <= c /\ c <= y - 1
        BY <1>2
      <4>2. a < b /\ y <= b + 1 /\ (a <= k => x = a) /\ (a > k => x = a + 1)
        BY <1>1
      <4>3. a \in Int /\ b \in Int /\ k \in Int /\ c \in Int
        BY <1>1, <2>2
      <4>. HIDE DEF x, y
      <4>. QED BY <2>6, <4>1, <4>2, <4>3, BehindTheRow, SMTT(40)
    <3>2. c - 1 \in 1..(Len(rows) - 1) /\ Gap(c - 1) <= MinInterval
      BY <2>1, <3>1
    <3>3. Gap((c - 1) + 1)' = Gap(c - 1)
      BY <3>1, <3>2, InsertedGaps
    <3>. QED BY <3>1, <3>2, <3>3
  <2>. QED BY <2>2, <2>3, <2>4, <2>5, <2>6
<1>. HIDE DEF x, y
<1>5. Tight(x, y)' /\ Long(x, y)'
  BY <1>1, <1>3, <1>4 DEF Tight, Long, Gap
<1>. QED BY <1>2, <1>5 DEF HasLong

\* A row more takes no row of the night away.
LEMMA InsertKeepsNight ==
    ASSUME rows \in Seq(Int), NEW k \in 0..Len(rows), NEW moment \in Int,
           rows' = Inserted(k, moment), NightLeak
    PROVE  NightLeak'
<1>. DEFINE f == [c \in Nights |-> IF c <= k THEN c ELSE c + 1]
<1>. Len(rows') = Len(rows) + 1 /\ Len(rows) \in Nat /\ rows' \in Seq(Int)
     /\ DOMAIN rows = 1..Len(rows) /\ DOMAIN rows' = 1..(Len(rows) + 1)
  BY InsertedIsSeq
<1>1. /\ \A c \in 1..Len(rows) : c <= k => rows'[c] = rows[c]
      /\ \A c \in 1..Len(rows) : c > k => rows'[c + 1] = rows[c]
  BY DEF Inserted
<1>2. \A c \in Nights : f[c] \in Nights'
  BY <1>1 DEF Nights
<1>3. \A c, d \in Nights : f[c] = f[d] => c = d
  <2>1. Nights \subseteq 1..Len(rows)
    BY DEF Nights
  <2>2. \A c \in Nights : c \in Int /\ f[c] = IF c <= k THEN c ELSE c + 1
    BY <2>1
  <2>. HIDE DEF f
  <2>. QED BY <2>2
<1>4. f \in Injection(Nights, Nights')
  BY <1>2, <1>3, Fun_IsInj
<1>5. IsFiniteSet(Nights') /\ IsFiniteSet(Nights)
  <2>1. IsFiniteSet(1..Len(rows)) /\ IsFiniteSet(1..(Len(rows) + 1))
    BY FS_Interval
  <2>2. Nights \subseteq 1..Len(rows) /\ Nights' \subseteq 1..(Len(rows) + 1)
    BY DEF Nights
  <2>. QED BY <2>1, <2>2, FS_Subset
<1>. HIDE DEF f
<1>6. Cardinality(Nights) <= Cardinality(Nights')
  BY <1>4, <1>5, FS_Injection
<1>7. Cardinality(Nights) \in Nat /\ Cardinality(Nights') \in Nat
  BY <1>5, FS_CardinalityType
<1>. QED BY <1>6, <1>7, LimitsAssumption DEF NightLeak, Nights

\* At the end of a scan some long stretch exists exactly when a segment does.
LEMMA LongStretchIsSegment ==
    ASSUME TypeOK, ScanInv, StayInv, pc = "scan", i = Len(rows)
    PROVE  HasLong <=> Closed(i) # {}
<1>. /\ rows \in Seq(Int) /\ Len(rows) \in Nat /\ MaxContinuous \in Nat
     /\ OpenRun /\ segments = LongRuns(i) /\ i \in 1..Len(rows)
  BY LimitsAssumption DEF TypeOK, ScanInv, OpenRun
<1>1. ASSUME HasLong PROVE Closed(i) # {}
  <2>1. PICK a \in 1..Len(rows), b \in 1..Len(rows) : a < b /\ Tight(a, b) /\ Long(a, b)
    BY <1>1 DEF HasLong
  <2>2. segments # {} \/ (start # 0 /\ start <= a)
    BY <2>1 DEF StayInv
  <2>3. ASSUME start # 0, start <= a PROVE Long(start, i)
    <3>1. start \in DOMAIN rows /\ a \in DOMAIN rows /\ b \in DOMAIN rows /\ i \in DOMAIN rows /\ b <= i
      BY <2>3 DEF OpenRun
    <3>2. rows[start] <= rows[a] /\ rows[b] <= rows[i]
      BY <2>3, <3>1 DEF TypeOK
    <3>3. rows[start] \in Int /\ rows[a] \in Int /\ rows[b] \in Int /\ rows[i] \in Int
      BY <3>1
    <3>. QED BY <2>1, <3>2, <3>3 DEF Long
  <2>. QED BY <2>2, <2>3 DEF Closed
<1>2. ASSUME Closed(i) # {} PROVE HasLong
  <2>1. Closed(i) = LongRuns(i + 1)
    BY ClosedRuns
  <2>2. PICK r \in (1..Len(rows)) \X (1..Len(rows)) : Run(r[1], r[2]) /\ Long(r[1], r[2])
    BY <1>2, <2>1 DEF LongRuns
  <2>. QED BY <2>2 DEF HasLong, Run
<1>. QED BY <1>1, <1>2

\* The bookkeeping of StayInv holds at every step.
LEMMA StayInductive ==
    TypeOK /\ ScanInv /\ StayInv /\ [Next]_vars => StayInv'
<1> SUFFICES ASSUME TypeOK, ScanInv, StayInv, [Next]_vars PROVE StayInv'
  OBVIOUS
<1>. /\ rows \in Seq(Int) /\ Len(rows) \in Nat /\ now \in Nat
     /\ kept \in BOOLEAN /\ verdict \in [long : BOOLEAN, night : BOOLEAN, rate : BOOLEAN]
     /\ MinInterval \in Nat /\ MaxContinuous \in Nat /\ MinRows \in Nat
  BY LimitsAssumption, RowsAssumption DEF TypeOK, ScanInv
<1>1. ASSUME NEW moment \in now - Day + 1 .. now, RowArrives(moment) PROVE StayInv'
  <2>1. PICK k \in 0..Len(rows) :
          /\ k > 0 => rows[k] <= moment
          /\ k < Len(rows) => moment < rows[k + 1]
          /\ rows' = Inserted(k, moment)
    BY <1>1 DEF RowArrives
  <2>2. moment \in Int
    BY LimitsAssumption
  <2>3. (HasLong => HasLong') /\ (NightLeak => NightLeak') /\ Len(rows') = Len(rows) + 1
    BY <2>1, <2>2, InsertKeepsLong, InsertKeepsNight, InsertedIsSeq
  <2>4. pc' # "scan" /\ verdict' = verdict /\ kept' = kept
    BY <1>1 DEF RowArrives
  <2>. QED BY <2>3, <2>4 DEF StayInv
<1>2. CASE TimePasses
  <2>1. pc' # "scan" /\ verdict' = verdict
    BY <1>2 DEF TimePasses
  <2>2. ASSUME kept' PROVE kept /\ rows' = rows
    <3>1. PICK k \in 0..Len(rows) :
            rows' = SubSeq(rows, k + 1, Len(rows)) /\ kept' = (kept /\ k = 0)
      BY <1>2 DEF TimePasses
    <3>2. kept /\ k = 0
      BY <2>2, <3>1
    <3>3. SubSeq(rows, 1, Len(rows)) = rows
      BY SubSeqFull
    <3>. QED BY <3>1, <3>2, <3>3
  <2>3. kept' => (HasLong' = HasLong) /\ (NightLeak' = NightLeak)
    BY <2>2 DEF HasLong, Tight, Long, NightLeak
  <2>. QED BY <2>1, <2>2, <2>3 DEF StayInv
<1>3. CASE Analyze
  <2>1. rows' = rows /\ HasLong' = HasLong /\ NightLeak' = NightLeak
    BY <1>3 DEF Analyze, HasLong, Tight, Long, NightLeak
  <2>2. CASE Len(rows) < MinRows
    BY <1>3, <2>1, <2>2 DEF Analyze, NoAlert, StayInv
  <2>3. CASE ~(Len(rows) < MinRows)
    <3>1. i' = 1 /\ verdict' = verdict /\ kept' = kept
      BY <1>3, <2>3 DEF Analyze
    <3>2. ASSUME NEW a \in 1..i', NEW b \in 1..i', a < b PROVE FALSE
      BY <3>1, <3>2
    <3>3. Len(rows) >= MinRows /\ Len(rows') = Len(rows)
      BY <2>1, <2>3
    <3>4. /\ kept' /\ verdict'.long => Len(rows') >= MinRows /\ HasLong'
          /\ kept' /\ verdict'.night => Len(rows') >= MinRows /\ NightLeak'
      BY <2>1, <3>1, <3>3 DEF StayInv
    <3>. QED BY <3>2, <3>3, <3>4 DEF StayInv
  <2>. QED BY <2>2, <2>3
<1>4. ASSUME UsageContinues \/ UsagePauses PROVE StayInv'
  <2>1. /\ rows' = rows /\ i' = i + 1 /\ verdict' = verdict /\ kept' = kept /\ i < Len(rows)
        /\ OpenRun /\ pc = "scan"
    BY <1>4 DEF UsageContinues, UsagePauses, ScanInv
  <2>2. HasLong' = HasLong /\ NightLeak' = NightLeak
    BY <2>1 DEF HasLong, Tight, Long, NightLeak
  <2>3. i \in 1..Len(rows) /\ start \in 0..(i - 1)
    BY <2>1 DEF OpenRun
  <2>4. ASSUME NEW a \in 1..i', NEW b \in 1..i', a < b, Tight(a, b), Long(a, b)
        PROVE  segments' # {} \/ (start' # 0 /\ start' <= a)
    <3>1. a \in 1..i /\ a < b
      BY <2>1, <2>3, <2>4
    <3>2. CASE UsageContinues
      <4>1. start' = (IF start = 0 THEN i ELSE start) /\ segments' = segments
        BY <3>2 DEF UsageContinues
      <4>2. CASE b <= i
        BY <2>1, <2>3, <2>4, <3>1, <4>1, <4>2 DEF StayInv
      <4>3. CASE b = i + 1 /\ a = i
        BY <2>3, <4>1, <4>3
      <4>4. CASE b = i + 1 /\ a < i
        <5>1. i - 1 \in a..(b - 1) /\ i - 1 \in 1..(Len(rows) - 1)
          BY <2>3, <3>1, <4>4
        <5>2. Gap(i - 1) <= MinInterval /\ Gap(i - 1) \in Int
          BY <2>4, <5>1, GapType DEF Tight, Gap
        <5>3. start # 0
          BY <2>1, <2>3, <3>1, <4>4, <5>2 DEF OpenRun
        <5>4. ASSUME start > a PROVE FALSE
          <6>1. start - 1 \in a..(b - 1) /\ start - 1 \in 1..(Len(rows) - 1) /\ start > 1
            BY <2>3, <3>1, <4>4, <5>4
          <6>2. Gap(start - 1) <= MinInterval /\ Gap(start - 1) \in Int
            BY <2>4, <6>1, GapType DEF Tight, Gap
          <6>. QED BY <2>1, <5>3, <6>1, <6>2 DEF OpenRun
        <5>. QED BY <2>3, <3>1, <4>1, <5>3, <5>4
      <4>5. b \in 1..(i + 1) /\ i \in Nat
        BY <2>1, <2>3, <2>4
      <4>6. b <= i \/ (b = i + 1 /\ (a = i \/ a < i))
        BY <3>1, <4>5
      <4>. QED BY <4>2, <4>3, <4>4, <4>6
    <3>3. CASE UsagePauses
      <4>1. segments' = Closed(i) /\ Gap(i) > MinInterval
        BY <3>3 DEF UsagePauses, Gap
      <4>2. b <= i
        <5>1. ASSUME b = i + 1 PROVE FALSE
          <6>1. i \in a..(b - 1) /\ i \in 1..(Len(rows) - 1)
            BY <2>1, <2>3, <3>1, <5>1
          <6>2. Gap(i) <= MinInterval /\ Gap(i) \in Int
            BY <2>4, <6>1, GapType DEF Tight, Gap
          <6>. QED BY <4>1, <6>2
        <5>. QED BY <2>1, <2>3, <5>1
      <4>3. segments # {} \/ (start # 0 /\ start <= a)
        BY <2>1, <2>3, <2>4, <3>1, <4>2 DEF StayInv
      <4>4. ASSUME start # 0, start <= a PROVE Long(start, i)
        <5>1. start \in DOMAIN rows /\ a \in DOMAIN rows /\ b \in DOMAIN rows /\ i \in DOMAIN rows
          BY <2>3, <3>1, <4>2, <4>4
        <5>2. rows[start] <= rows[a] /\ rows[b] <= rows[i]
          BY <4>2, <4>4, <5>1 DEF TypeOK
        <5>3. rows[start] \in Int /\ rows[a] \in Int /\ rows[b] \in Int /\ rows[i] \in Int
          BY <5>1
        <5>4. rows[b] - rows[a] > MaxContinuous
          BY <2>4 DEF Long
        <5>5. rows[i] - rows[start] > MaxContinuous
          BY <5>2, <5>3, <5>4
        <5>. QED BY <5>5 DEF Long
      <4>. QED BY <4>1, <4>3, <4>4 DEF Closed
    <3>. QED BY <1>4, <3>2, <3>3
  <2>5. \A a, b \in 1..i' : Tight(a, b)' = Tight(a, b) /\ Long(a, b)' = Long(a, b)
    BY <2>1 DEF Tight, Long
  <2>. QED BY <2>1, <2>2, <2>4, <2>5 DEF StayInv
<1>5. CASE ScanEnds
  <2>1. /\ rows' = rows /\ pc = "scan" /\ pc' # "scan" /\ i = Len(rows) /\ kept' = TRUE
        /\ segments' = Closed(i)
        /\ verdict'.long = (segments' # {}) /\ verdict'.night = NightLeak
    BY <1>5 DEF ScanEnds
  <2>2. HasLong' = HasLong /\ NightLeak' = NightLeak
    BY <2>1 DEF HasLong, Tight, Long, NightLeak
  <2>3. HasLong <=> Closed(i) # {}
    BY <2>1, LongStretchIsSegment
  <2>4. Len(rows) >= MinRows
    BY <2>1 DEF StayInv
  <2>. QED BY <2>1, <2>2, <2>3, <2>4 DEF StayInv
<1>6. CASE UNCHANGED vars
  BY <1>6 DEF vars, StayInv, HasLong, Tight, Long, NightLeak
<1>. QED BY <1>1, <1>2, <1>3, <1>4, <1>5, <1>6 DEF Next, Scan

\* Rows that arrive, in whatever order, never take an alert for long usage or
\* for the night back, for every limit and any number of rows.
THEOREM AlertsAreKept == Spec => AlertsStay
<1>1. Init => TypeOK /\ ScanInv /\ StayInv
  <2> SUFFICES ASSUME Init PROVE TypeOK /\ ScanInv /\ StayInv
    OBVIOUS
  <2>1. rows = <<>> /\ DOMAIN rows = {}
    BY DEF Init
  <2>. QED BY <2>1, LimitsAssumption DEF Init, TypeOK, ScanInv, StayInv, NoAlert
<1>2. TypeOK /\ ScanInv /\ StayInv /\ [Next]_vars => (TypeOK /\ ScanInv /\ StayInv)'
  BY TypeInductive, ScanInvInductive, StayInductive
<1>3. TypeOK /\ ScanInv /\ StayInv /\ [Next]_vars =>
        [kept => /\ verdict.long => verdict'.long
                 /\ verdict.night => verdict'.night]_vars
  <2> SUFFICES ASSUME TypeOK, ScanInv, StayInv, Next, kept
               PROVE  /\ verdict.long => verdict'.long
                      /\ verdict.night => verdict'.night
    OBVIOUS
  <2>1. CASE ScanEnds
    <3>1. /\ pc = "scan" /\ i = Len(rows) /\ segments' = Closed(i)
          /\ verdict'.long = (segments' # {}) /\ verdict'.night = NightLeak
      BY <2>1 DEF ScanEnds
    <3>2. HasLong <=> Closed(i) # {}
      BY <3>1, LongStretchIsSegment
    <3>. QED BY <3>1, <3>2 DEF StayInv
  <2>2. CASE Analyze
    <3>1. CASE Len(rows) < MinRows
      <4>1. Len(rows) \in Nat /\ MinRows \in Nat
        BY RowsAssumption DEF TypeOK
      <4>. QED BY <3>1, <4>1 DEF StayInv
    <3>2. CASE ~(Len(rows) < MinRows)
      BY <2>2, <3>2 DEF Analyze
    <3>. QED BY <3>1, <3>2
  <2>3. ASSUME TimePasses \/ UsageContinues \/ UsagePauses
               \/ \E moment \in now - Day + 1 .. now : RowArrives(moment)
        PROVE  verdict' = verdict
    BY <2>3 DEF TimePasses, UsageContinues, UsagePauses, RowArrives
  <2>. QED BY <2>1, <2>2, <2>3 DEF Next, Scan
<1>. QED BY <1>1, <1>2, <1>3, PTL DEF Spec, AlertsStay

-----------------------------------------------------------------------------
(* An even flow.  What holds of all rows is proved from the least row of   *)
(* which it does not hold.                                                 *)

LEMMA LeastMember ==
    ASSUME NEW S \in SUBSET Nat, S # {}
    PROVE  \E x \in S : \A y \in S : x <= y
<1>1. \E x \in S : \A y \in S : ~(y < x)
  <2>1. IsWellFoundedOn(OpToRel(<, Nat), Nat)
    BY NatLessThanWellFounded
  <2>2. PICK x \in S : \A y \in S : ~(<<y, x>> \in OpToRel(<, Nat))
    BY <2>1, WFMin
  <2>3. \A y \in S : ~(y < x)
    BY <2>2 DEF OpToRel
  <2>. QED BY <2>2, <2>3
<1>. QED BY <1>1

LEMMA GreatestMember ==
    ASSUME NEW n \in Nat, NEW S \in SUBSET (1..n), S # {}
    PROVE  \E x \in S : \A y \in S : y <= x
<1>. DEFINE back == {n - x : x \in S}
<1>1. back \in SUBSET Nat /\ back # {}
  <2>1. \A x \in S : x \in Int /\ x <= n
    OBVIOUS
  <2>2. \A x \in S : n - x \in Nat
    BY <2>1
  <2>. QED BY <2>2
<1>2. PICK z \in back : \A y \in back : z <= y
  <2>. HIDE DEF back
  <2>. QED BY <1>1, LeastMember
<1>3. PICK x \in S : z = n - x
  BY <1>2
<1>4. ASSUME NEW y \in S PROVE y <= x
  <2>1. n - y \in back
    OBVIOUS
  <2>2. n - x <= n - y
    BY <1>2, <1>3, <2>1
  <2>. QED BY <2>2
<1>. QED BY <1>4

\* The first and the last of some rows.
LEMMA Ends ==
    ASSUME NEW n \in Nat, NEW S \in SUBSET (1..n), S # {}
    PROVE  /\ Min(S) \in S /\ Max(S) \in S
           /\ \A x \in S : Min(S) <= x /\ x <= Max(S)
<1>1. \E x \in S : \A y \in S : x <= y
  BY LeastMember
<1>2. \E x \in S : \A y \in S : x >= y
  <2>1. PICK x \in S : \A y \in S : y <= x
    BY GreatestMember
  <2>. QED BY <2>1
<1>3. Min(S) \in S /\ \A y \in S : Min(S) <= y
  BY <1>1 DEF Min
<1>4. Max(S) \in S /\ \A y \in S : Max(S) >= y
  BY <1>2 DEF Max
<1>. QED BY <1>3, <1>4

\* Sums and products, for the provers.
LEMMA OneMore ==
    ASSUME NEW x \in Int, NEW d \in Int
    PROVE  (x + 1) * d = x * d + d /\ x * d \in Int
    OBVIOUS

LEMMA LargerFactor ==
    ASSUME NEW x \in Int, NEW y \in Int, NEW d \in Nat, x <= y
    PROVE  x * d <= y * d /\ d * x <= d * y
    OBVIOUS

LEMMA NextTerm ==
    ASSUME NEW f \in Int, NEW d \in Int, NEW x \in Int, NEW y \in Int, NEW z \in Int,
           NEW o \in Int, NEW p \in Int, NEW q \in Int,
           z - y = y - x, x = f + o, y = f + p, p = o + d, q = p + d
    PROVE  z = f + q
    OBVIOUS

LEMMA TwoBefore ==
    ASSUME NEW n \in Nat, NEW a \in 1..n, a > 2
    PROVE  /\ a - 1 \in 2..(n - 1) /\ a - 1 \in 1..n /\ a - 2 \in 1..n
           /\ (a - 1) + 1 = a /\ (a - 1) - 1 = a - 2
    OBVIOUS

\* Every row of an even flow stands where its number says.
LEMMA EvenRows ==
    ASSUME rows \in Seq(Int), Even, Len(rows) >= 2,
           NEW k \in 1..Len(rows)
    PROVE  rows[k] = rows[1] + (k - 1) * (rows[2] - rows[1])
<1>. DEFINE d == rows[2] - rows[1]
            Stands(a) == rows[a] = rows[1] + (a - 1) * d
            Strays == {a \in 1..Len(rows) : ~Stands(a)}
<1>0. /\ Len(rows) \in Nat /\ d \in Int
      /\ \A a \in 1..Len(rows) : rows[a] \in Int
  OBVIOUS
<1>1. Stands(1) /\ Stands(2)
  BY <1>0
<1>2. ASSUME NEW a \in 1..Len(rows), a > 2, Stands(a - 1), Stands(a - 2) PROVE Stands(a)
  <2>1. rows[a] - rows[a - 1] = rows[a - 1] - rows[a - 2]
    <3>1. rows[(a - 1) + 1] - rows[a - 1] = rows[a - 1] - rows[(a - 1) - 1]
      BY <1>0, <1>2, TwoBefore DEF Even
    <3>. QED BY <1>0, <1>2, <3>1, TwoBefore
  <2>2. rows[a - 1] = rows[1] + (a - 2) * d /\ rows[a - 2] = rows[1] + (a - 3) * d
    <3>1. (a - 1) - 1 = a - 2 /\ (a - 2) - 1 = a - 3
      OBVIOUS
    <3>. QED BY <1>2, <3>1
  <2>3. (a - 1) * d = (a - 2) * d + d /\ (a - 2) * d = (a - 3) * d + d
    <3>1. (a - 2) + 1 = a - 1 /\ (a - 3) + 1 = a - 2 /\ a - 2 \in Int /\ a - 3 \in Int
      OBVIOUS
    <3>. QED BY <1>0, <3>1, OneMore
  <2>4. (a - 1) * d \in Int /\ (a - 2) * d \in Int /\ (a - 3) * d \in Int
    BY <1>0, OneMore
  <2>5. /\ rows[a] \in Int /\ rows[a - 1] \in Int /\ rows[a - 2] \in Int /\ rows[1] \in Int
    <3>1. a \in 1..Len(rows) /\ a - 1 \in 1..Len(rows) /\ a - 2 \in 1..Len(rows)
      BY <1>0, <1>2, TwoBefore
    <3>2. 1 \in 1..Len(rows)
      BY <1>0
    <3>3. \A b \in 1..Len(rows) : rows[b] \in Int
      BY <1>0
    <3>. HIDE DEF d, Stands, Strays
    <3>. QED BY <3>1, <3>2, <3>3
  <2>6. rows[a] = rows[1] + (a - 1) * d
    <3>. DEFINE o == (a - 3) * d
                p == (a - 2) * d
                q == (a - 1) * d
    <3>1. d \in Int /\ o \in Int /\ p \in Int /\ q \in Int
      BY <1>0, <2>4
    <3>2. rows[a - 2] = rows[1] + o /\ rows[a - 1] = rows[1] + p /\ p = o + d /\ q = p + d
      BY <2>2, <2>3
    <3>3. rows[a] = rows[1] + q
      <4>. HIDE DEF d, o, p, q
      <4>1. PICK f \in Int : f = rows[1]
        BY <2>5
      <4>2. PICK x \in Int : x = rows[a - 2]
        BY <2>5
      <4>3. PICK y \in Int : y = rows[a - 1]
        BY <2>5
      <4>4. PICK z \in Int : z = rows[a]
        BY <2>5
      <4>5. z - y = y - x
        BY <2>1, <4>2, <4>3, <4>4
      <4>6. x = f + o /\ y = f + p
        BY <3>2, <4>1, <4>2, <4>3
      <4>7. z = f + q
        BY <3>1, <3>2, <4>5, <4>6, NextTerm
      <4>. QED BY <4>1, <4>4, <4>7
    <3>. QED BY <3>3
  <2>. QED BY <2>6
<1>3. Strays = {}
  <2>. SUFFICES ASSUME Strays # {} PROVE FALSE
    OBVIOUS
  <2>1. Strays \in SUBSET Nat
    BY <1>0
  <2>2. PICK a \in Strays : \A b \in Strays : a <= b
    <3>. HIDE DEF Strays
    <3>. QED BY <2>1, LeastMember
  <2>3. a \in 1..Len(rows) /\ ~Stands(a)
    BY <2>2
  <2>4. a > 2
    <3>1. a # 1 /\ a # 2
      BY <1>1, <2>3
    <3>. QED BY <1>0, <2>3, <3>1
  <2>5. a - 1 \in 1..Len(rows) /\ a - 2 \in 1..Len(rows)
    BY <1>0, <2>3, <2>4, TwoBefore
  <2>6. a - 1 \notin Strays /\ a - 2 \notin Strays
    <3>. HIDE DEF Strays
    <3>. QED BY <1>0, <2>2, <2>3
  <2>. QED BY <1>2, <2>3, <2>4, <2>5, <2>6
<1>. QED BY <1>3

LEMMA Reordered ==
    ASSUME NEW x \in Int, NEW y \in Int, NEW z \in Int
    PROVE  x * (y * z) = y * (x * z) /\ x * y * z = y * (x * z)
    OBVIOUS

\* n pulses in n - 1 steps against N pulses in N - 1 steps.
LEMMA RateBound ==
    ASSUME NEW n \in Nat, NEW N \in Nat, NEW M \in Nat, NEW d \in Nat, NEW s \in Nat,
           n >= 2, N >= 1, M >= 2, (n - 1) * d <= s
    PROVE  n * ((N - 1) * d) <= M * N * s
<1>1. n * d \in Int /\ n * d <= 2 * s
  <2>1. n * d = (n - 1) * d + d /\ (n - 1) * d \in Int
    <3>1. (n - 1) + 1 = n /\ n - 1 \in Int
      OBVIOUS
    <3>. QED BY <3>1, OneMore
  <2>2. 1 * d <= (n - 1) * d
    <3>1. 1 \in Int /\ n - 1 \in Int /\ 1 <= n - 1
      OBVIOUS
    <3>. QED BY <3>1, LargerFactor
  <2>3. 1 * d = d
    OBVIOUS
  <2>. QED BY <2>1, <2>2, <2>3
<1>2. N * (n * d) <= N * (2 * s)
  <2>1. 2 * s \in Int
    OBVIOUS
  <2>. QED BY <1>1, <2>1, LargerFactor
<1>3. N * (2 * s) <= N * (M * s)
  <2>1. 2 * s <= M * s
    BY LargerFactor
  <2>2. 2 * s \in Int /\ M * s \in Int
    OBVIOUS
  <2>. QED BY <2>1, <2>2, LargerFactor
<1>4. n * ((N - 1) * d) <= n * (N * d)
  <2>1. N - 1 \in Int /\ N - 1 <= N
    OBVIOUS
  <2>2. (N - 1) * d <= N * d
    BY <2>1, LargerFactor
  <2>3. (N - 1) * d \in Int /\ N * d \in Int
    BY <2>1, OneMore
  <2>. QED BY <2>2, <2>3, LargerFactor
<1>5. n * (N * d) = N * (n * d) /\ M * N * s = N * (M * s)
  BY Reordered
<1>6. /\ n * ((N - 1) * d) \in Int /\ N * (n * d) \in Int
      /\ N * (2 * s) \in Int /\ N * (M * s) \in Int
  <2>1. (N - 1) * d \in Int /\ n * d \in Int /\ M * s \in Int
    OBVIOUS
  <2>. QED BY <2>1
<1>. QED BY <1>2, <1>3, <1>4, <1>5, <1>6

\* The rows that a span is taken of.
LEMMA EvenSpan ==
    ASSUME rows \in Seq(Int), Even, Len(rows) >= 2, NEW a \in 1..Len(rows), NEW b \in 1..Len(rows)
    PROVE  rows[b] - rows[a] = (b - a) * (rows[2] - rows[1])
<1>. DEFINE d == rows[2] - rows[1]
<1>1. rows[1] \in Int /\ rows[2] \in Int /\ d \in Int
  OBVIOUS
<1>2. rows[a] = rows[1] + (a - 1) * d /\ rows[b] = rows[1] + (b - 1) * d
  BY EvenRows
<1>. HIDE DEF d
<1>3. (b - 1) * d - (a - 1) * d = (b - a) * d
  BY <1>1
<1>4. (b - 1) * d \in Int /\ (a - 1) * d \in Int /\ (b - a) * d \in Int
  BY <1>1
<1>5. rows[b] - rows[a] = (b - a) * d
  BY <1>1, <1>2, <1>3, <1>4
<1>. QED BY <1>5 DEF d

\* The recent rows lie between the first and the last of them, so there are no
\* more of them than of the rows in between.
LEMMA RecentEnds ==
    ASSUME rows \in Seq(Int), Cardinality(RecentChanges) >= 2, IsFiniteSet(RecentChanges)
    PROVE  /\ Min(RecentChanges) \in 1..Len(rows) /\ Max(RecentChanges) \in 1..Len(rows)
           /\ Cardinality(RecentChanges) - 1 <= Max(RecentChanges) - Min(RecentChanges)
<1>. DEFINE first == Min(RecentChanges)
            last  == Max(RecentChanges)
<1>1. RecentChanges \in SUBSET (1..Len(rows)) /\ Len(rows) \in Nat
  BY DEF RecentChanges
<1>2. RecentChanges # {}
  BY FS_EmptySet
<1>3. /\ first \in RecentChanges /\ last \in RecentChanges
      /\ \A x \in RecentChanges : first <= x /\ x <= last
  BY <1>1, <1>2, Ends
<1>4. first \in 1..Len(rows) /\ last \in 1..Len(rows) /\ first <= last
  BY <1>1, <1>3
<1>. HIDE DEF first, last
<1>5. RecentChanges \in SUBSET (first..last)
  BY <1>1, <1>3, <1>4
<1>6. IsFiniteSet(first..last) /\ Cardinality(first..last) = last - first + 1
  <2>1. first \in Int /\ last \in Int /\ ~(first > last)
    BY <1>4
  <2>. QED BY <2>1, FS_Interval
<1>7. Cardinality(RecentChanges) <= Cardinality(first..last)
  BY <1>5, <1>6, FS_Subset
<1>8. Cardinality(RecentChanges) \in Nat
  BY FS_CardinalityType
<1>9. Cardinality(RecentChanges) - 1 <= last - first
  BY <1>4, <1>6, <1>7, <1>8
<1>. QED BY <1>4, <1>9 DEF first, last

LEMMA EvenIsNotFast ==
    ASSUME rows \in Seq(Int), Ordered, Even, Len(rows) >= 1,
           rows[Len(rows)] - rows[1] >= HistoryFloor,
           RecentRows >= 2, Multiplier >= 2
    PROVE  ~HighRate
<1>. SUFFICES ASSUME HighRate PROVE FALSE
  OBVIOUS
<1>. DEFINE n == Cardinality(RecentChanges)
            d == rows[2] - rows[1]
            recent == Span(RecentChanges, RecentFloor)
<1>1. Len(rows) \in Nat /\ DOMAIN rows = 1..Len(rows)
  OBVIOUS
<1>2. IsFiniteSet(RecentChanges) /\ n \in Nat /\ n <= Len(rows)
  <2>1. RecentChanges \in SUBSET (1..Len(rows))
    BY <1>1 DEF RecentChanges
  <2>2. IsFiniteSet(1..Len(rows)) /\ Cardinality(1..Len(rows)) = Len(rows)
    <3>1. 1 \in Int /\ Len(rows) \in Int /\ ~(1 > Len(rows))
      BY <1>1
    <3>. QED BY <1>1, <3>1, FS_Interval
  <2>. QED BY <2>1, <2>2, FS_Subset, FS_CardinalityType
<1>3. n >= 2 /\ Len(rows) >= 2
  <2>1. n >= RecentRows
    BY DEF HighRate
  <2>. QED BY <1>1, <1>2, <2>1, LimitsAssumption
<1>4. /\ rows[1] \in Int /\ rows[2] \in Int /\ rows[Len(rows)] \in Int /\ d \in Nat
  <2>1. 1 \in 1..Len(rows) /\ 2 \in 1..Len(rows) /\ Len(rows) \in 1..Len(rows)
    BY <1>1, <1>3
  <2>2. rows[1] \in Int /\ rows[2] \in Int /\ rows[Len(rows)] \in Int
    BY <2>1
  <2>3. rows[1] <= rows[2]
    BY <1>1, <2>1 DEF Ordered
  <2>. QED BY <2>2, <2>3
<1>5. Span(DOMAIN rows, HistoryFloor) = (Len(rows) - 1) * d
  <2>1. Min(DOMAIN rows) = 1 /\ Max(DOMAIN rows) = Len(rows)
    <3>1. 1 \in DOMAIN rows /\ Len(rows) \in DOMAIN rows
      BY <1>1, <1>3
    <3>2. /\ Min(DOMAIN rows) \in DOMAIN rows /\ Max(DOMAIN rows) \in DOMAIN rows
          /\ \A x \in DOMAIN rows : Min(DOMAIN rows) <= x /\ x <= Max(DOMAIN rows)
      BY <1>1, <3>1, Ends
    <3>. HIDE DEF n, d, recent
    <3>. QED BY <1>1, <3>1, <3>2
  <2>2. Span(DOMAIN rows, HistoryFloor) = rows[Len(rows)] - rows[1]
    BY <1>4, <2>1, LimitsAssumption DEF Span
  <2>3. rows[Len(rows)] - rows[1] = (Len(rows) - 1) * d
    <3>1. 1 \in 1..Len(rows) /\ Len(rows) \in 1..Len(rows)
      BY <1>1, <1>3
    <3>. QED BY <1>3, <3>1, EvenSpan
  <2>. QED BY <2>2, <2>3
<1>6. recent \in Nat /\ (n - 1) * d <= recent
  <2>. DEFINE first == Min(RecentChanges)
              last  == Max(RecentChanges)
  <2>1. first \in 1..Len(rows) /\ last \in 1..Len(rows) /\ n - 1 <= last - first
    BY <1>2, <1>3, RecentEnds
  <2>2. rows[last] - rows[first] = (last - first) * d
    BY <1>3, <2>1, EvenSpan
  <2>3. last - first \in Int /\ n - 1 \in Int
    BY <1>2, <2>1
  <2>4. (n - 1) * d <= (last - first) * d
    <3>. HIDE DEF n, d, first, last
    <3>. QED BY <1>4, <2>1, <2>3, LargerFactor
  <2>5. (n - 1) * d \in Nat
    <3>1. n - 1 \in Nat
      BY <1>2, <1>3
    <3>. HIDE DEF n, d
    <3>. QED BY <1>4, <3>1
  <2>6. (last - first) * d \in Int
    <3>. HIDE DEF d, first, last
    <3>. QED BY <1>4, <2>3
  <2>7. recent = IF (last - first) * d < RecentFloor THEN RecentFloor ELSE (last - first) * d
    BY <2>2 DEF Span
  <2>. HIDE DEF n, d, first, last, recent
  <2>. QED BY <2>4, <2>5, <2>6, <2>7, LimitsAssumption
<1>7. n * ((Len(rows) - 1) * d) <= Multiplier * Len(rows) * recent
  <2>. HIDE DEF n, d, recent
  <2>. QED BY <1>1, <1>2, <1>3, <1>4, <1>6, RateBound, LimitsAssumption
<1>8. n * ((Len(rows) - 1) * d) > Multiplier * Len(rows) * recent
  BY <1>5 DEF HighRate, Faster
<1>9. n * ((Len(rows) - 1) * d) \in Int /\ Multiplier * Len(rows) * recent \in Int
  <2>. HIDE DEF n, d, recent
  <2>1. (Len(rows) - 1) * d \in Int /\ Multiplier * Len(rows) \in Int
    BY <1>1, <1>4, LimitsAssumption
  <2>. QED BY <1>2, <1>6, <2>1
<1>. HIDE DEF n, d, recent
<1>. QED BY <1>7, <1>8, <1>9

\* A flow as even as the clock shows is never called abnormally fast, when the
\* rate wants two recent rows and at least twice the norm; the code wants five
\* and three times (_detect_high_consumption_rate).
THEOREM EvenFlowsAreNormal ==
    ASSUME RecentRows >= 2, Multiplier >= 2
    PROVE  Spec => EvenFlowIsNormal
<1>. DEFINE Normal == /\ ScanEnds /\ Even
                      /\ rows[Len(rows)] - rows[1] >= HistoryFloor
                      => ~verdict'.rate
<1>1. ASSUME TypeOK, ScanInv, Next PROVE Normal
  <2>. SUFFICES ASSUME ScanEnds, Even, rows[Len(rows)] - rows[1] >= HistoryFloor
                PROVE  ~verdict'.rate
    OBVIOUS
  <2>1. pc = "scan" /\ verdict'.rate = HighRate
    BY DEF ScanEnds
  <2>2. rows \in Seq(Int) /\ Ordered /\ Len(rows) >= 1
    BY <1>1, <2>1 DEF TypeOK, Ordered, ScanInv, OpenRun
  <2>3. ~HighRate
    BY <2>2, EvenIsNotFast
  <2>. QED BY <2>1, <2>3
<1>2. TypeOK /\ ScanInv /\ [Next]_vars => [Normal]_vars
  BY <1>1
<1>3. Spec => [](TypeOK /\ ScanInv)
  BY TypeInvariant
<1>. QED BY <1>2, <1>3, PTL DEF Spec, EvenFlowIsNormal
=============================================================================
