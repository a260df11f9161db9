-------------------------- MODULE DataUploadProofs --------------------------
(***************************************************************************)
(* Proofs about DataUpload: for any number of pulses, devices, session     *)
(* keys, attempts and late requests, the uploads record no pulse twice and *)
(* no vector in part, and report success only for what is recorded.        *)
(***************************************************************************)
EXTENDS DataUpload, FiniteSetTheorems, SequenceTheorems, TLAPS

-----------------------------------------------------------------------------
(* Sequences of rows.                                                      *)

Elements(s) == {s[i] : i \in DOMAIN s}
IsRows(s) == s \in Seq(Elements(s))
Ids(s) == {s[i].id : i \in DOMAIN s}
Distinct(s) == \A i, j \in DOMAIN s : i # j => s[i].id # s[j].id

LEMMA RowsDomain ==
    ASSUME NEW s, IsRows(s)
    PROVE  Len(s) \in Nat /\ DOMAIN s = 1..Len(s)
    BY LenProperties DEF IsRows

LEMMA SeqInto ==
    ASSUME NEW S, NEW T, NEW s \in Seq(S), \A i \in 1..Len(s) : s[i] \in T
    PROVE  s \in Seq(T)
    OBVIOUS

LEMMA EmptyRows == IsRows(<<>>) /\ Ids(<<>>) = {} /\ Distinct(<<>>)
<1>1. DOMAIN <<>> = {}
    OBVIOUS
<1>2. <<>> \in Seq(Elements(<<>>))
    BY EmptySeq
<1>. QED
    BY <1>1, <1>2 DEF IsRows, Ids, Distinct

\* What follows a sequence is shifted by its length.
LEMMA ConcatRows ==
    ASSUME NEW s, NEW t, IsRows(s), IsRows(t)
    PROVE  /\ IsRows(s \o t)
           /\ Len(s \o t) = Len(s) + Len(t)
           /\ DOMAIN (s \o t) = 1..(Len(s) + Len(t))
           /\ \A i \in 1..Len(s) : (s \o t)[i] = s[i]
           /\ \A i \in 1..Len(t) : (s \o t)[Len(s) + i] = t[i]
<1>. DEFINE both == Elements(s) \cup Elements(t)
<1>1. s \in Seq(both) /\ t \in Seq(both)
  <2>1. \A i \in 1..Len(s) : s[i] \in both
      BY RowsDomain DEF Elements
  <2>2. \A i \in 1..Len(t) : t[i] \in both
      BY RowsDomain DEF Elements
  <2>3. s \in Seq(Elements(s)) /\ t \in Seq(Elements(t))
      BY DEF IsRows
  <2>. HIDE DEF both
  <2>. QED
      BY <2>1, <2>2, <2>3
<1>. HIDE DEF both
<1>2. s \o t \in Seq(both)
    BY <1>1, ConcatProperties
<1>3. /\ Len(s \o t) = Len(s) + Len(t)
      /\ \A i \in 1..(Len(s) + Len(t)) :
            (s \o t)[i] = IF i <= Len(s) THEN s[i] ELSE t[i - Len(s)]
    BY <1>1, ConcatProperties
<1>4. Len(s) \in Nat /\ Len(t) \in Nat /\ DOMAIN (s \o t) = 1..(Len(s) + Len(t))
    BY <1>2, <1>3, RowsDomain, LenProperties
<1>5. s \o t \in Seq(Elements(s \o t))
  <2>1. \A i \in 1..Len(s \o t) : (s \o t)[i] \in Elements(s \o t)
      BY <1>3, <1>4 DEF Elements
  <2>. QED
      BY <1>2, <2>1, SeqInto
<1>. QED
    BY <1>3, <1>4, <1>5 DEF IsRows

LEMMA ConcatIds ==
    ASSUME NEW s, NEW t, IsRows(s), IsRows(t)
    PROVE  /\ Ids(s \o t) = Ids(s) \cup Ids(t)
           /\ Distinct(s) /\ Distinct(t) /\ Ids(s) \cap Ids(t) = {} => Distinct(s \o t)
<1>1. /\ Len(s) \in Nat /\ DOMAIN s = 1..Len(s)
      /\ Len(t) \in Nat /\ DOMAIN t = 1..Len(t)
      /\ DOMAIN (s \o t) = 1..(Len(s) + Len(t))
    BY RowsDomain, ConcatRows
<1>2. \A i \in DOMAIN (s \o t) :
          \/ i \in DOMAIN s /\ (s \o t)[i] = s[i]
          \/ /\ i - Len(s) \in DOMAIN t /\ (s \o t)[i] = t[i - Len(s)]
             /\ i \notin DOMAIN s
  <2>1. SUFFICES ASSUME NEW i \in 1..(Len(s) + Len(t)), i \notin 1..Len(s)
                 PROVE  i - Len(s) \in 1..Len(t) /\ (s \o t)[i] = t[i - Len(s)]
      BY <1>1, ConcatRows
  <2>2. i - Len(s) \in 1..Len(t) /\ Len(s) + (i - Len(s)) = i
      BY <1>1, <2>1
  <2>. QED
      BY <2>2, ConcatRows
<1>3. Ids(s) \subseteq Ids(s \o t)
    BY <1>1, ConcatRows DEF Ids
<1>4. Ids(t) \subseteq Ids(s \o t)
  <2>1. \A i \in DOMAIN t : Len(s) + i \in DOMAIN (s \o t) /\ (s \o t)[Len(s) + i] = t[i]
      BY <1>1, ConcatRows
  <2>. QED
      BY <2>1 DEF Ids
<1>5. Ids(s \o t) \subseteq Ids(s) \cup Ids(t)
    BY <1>2 DEF Ids
<1>6. ASSUME Distinct(s), Distinct(t), Ids(s) \cap Ids(t) = {},
             NEW i \in DOMAIN (s \o t), NEW j \in DOMAIN (s \o t), i # j
      PROVE  (s \o t)[i].id # (s \o t)[j].id
  <2>1. CASE i \in DOMAIN s /\ j \in DOMAIN s
      BY <1>1, <1>6, <2>1, ConcatRows DEF Distinct
  <2>2. CASE i \notin DOMAIN s /\ j \notin DOMAIN s
    <3>1. i - Len(s) # j - Len(s)
        BY <1>1, <1>6
    <3>. QED
        BY <1>2, <1>6, <2>2, <3>1 DEF Distinct
  <2>3. CASE i \in DOMAIN s /\ j \notin DOMAIN s
    <3>1. (s \o t)[i].id \in Ids(s) /\ (s \o t)[j].id \in Ids(t)
        BY <1>1, <1>2, <2>3, ConcatRows DEF Ids
    <3>. QED
        BY <1>6, <3>1
  <2>4. CASE i \notin DOMAIN s /\ j \in DOMAIN s
    <3>1. (s \o t)[j].id \in Ids(s) /\ (s \o t)[i].id \in Ids(t)
        BY <1>1, <1>2, <2>4, ConcatRows DEF Ids
    <3>. QED
        BY <1>6, <3>1
  <2>. QED
      BY <2>1, <2>2, <2>3, <2>4
<1>7. Distinct(s) /\ Distinct(t) /\ Ids(s) \cap Ids(t) = {} => Distinct(s \o t)
    BY <1>6 DEF Distinct
<1>. QED
    BY <1>3, <1>4, <1>5, <1>7

-----------------------------------------------------------------------------
(* The inductive invariant.                                                *)

\* Requests to /add_device_changes that the server may still handle.
Posts == {r \in requests : r.kind = "changes"}

\* Some number is free for the next connection.
FreeNr == \E n \in 1..(MaxStale + 1) : \A r \in requests : r.nr # n

\* Requests carry numbers of their own; a connection has its request or its
\* response, and is open only while sendData2Web waits for it.
HttpInv ==
    /\ IsFiniteSet(requests)
    /\ conn \in 0..(MaxStale + 1)
    /\ \A r \in requests : r.nr \in 1..(MaxStale + 1)
    /\ \A r, q \in requests : r.nr = q.nr => r = q
    /\ conn # 0 => up \in {"connecting", "posting", "refreshing"}
    /\ responses # {} => conn # 0 /\ \A r \in requests : r.nr # conn
    /\ conn = 0 => FreeNr

RowsInv ==
    /\ IsRows(changes)
    /\ IsRows(pulses) /\ Distinct(pulses)
    /\ \A r \in Posts : IsRows(r.rows) /\ Distinct(r.rows)

\* Every row comes from a vector that was given, and no two have a pulse in common.
GivenInv ==
    /\ \A b \in given : b \subseteq 1..MaxPulses
    /\ \A b, c \in given : b = c \/ b \cap c = {}
    /\ Ids(changes) \subseteq Given
    /\ \A r \in Posts : Ids(r.rows) \in given
    /\ up # "idle" => Ids(pulses) \in given

\* The vector in hand is neither recorded nor on its way.
Fresh ==
    /\ Ids(pulses) \cap Ids(changes) = {}
    /\ \A r \in Posts : Ids(r.rows) \cap Ids(pulses) = {}

\* A pulse is on its way once at most, and not once it is recorded; a vector
\* that sendData2Web may still post is nowhere else.
CopyInv ==
    /\ Distinct(changes)
    /\ \A r, q \in Posts : r = q \/ Ids(r.rows) \cap Ids(q.rows) = {}
    /\ \A r \in Posts : Ids(r.rows) \cap Ids(changes) = {}
    /\ up \in {"data2Web", "connecting", "refresh", "refreshing"} => Fresh

\* While a vector is posted: its request is the one of this connection, a
\* refusal leaves it fresh, a success has recorded it.
PostInv ==
    up = "posting" =>
        /\ \A r \in Posts : r.nr # conn => Ids(r.rows) \cap Ids(pulses) = {}
        /\ \A r \in requests : r.nr = conn => r \in Posts /\ Ids(r.rows) = Ids(pulses)
        /\ \A resp \in responses :
              /\ resp.code = 401 => Ids(pulses) \cap Ids(changes) = {}
              /\ resp.code = 200 => Ids(pulses) \subseteq Ids(changes)

DataInv == RowsInv /\ GivenInv /\ CopyInv /\ BatchAtomic

UploadInv == HttpInv /\ DataInv /\ PostInv /\ SuccessMeansRecorded

LEMMA Names ==
    /\ Recorded = Ids(changes) /\ Held = Ids(pulses)
    /\ RecordedOnce <=> Distinct(changes)
    BY DEF Recorded, Held, Ids, RecordedOnce, Distinct

-----------------------------------------------------------------------------
(* Connections.                                                            *)

\* Fewer requests than numbers leave a number free.
LEMMA Pigeonhole ==
    ASSUME IsFiniteSet(requests), Cardinality(requests) <= MaxStale
    PROVE  FreeNr
<1>. DEFINE numbers == 1..(MaxStale + 1)
<1>1. MaxStale \in Nat /\ Cardinality(requests) \in Nat
    BY UploadBoundsAssumption, FS_CardinalityType
<1>2. IsFiniteSet(numbers) /\ Cardinality(numbers) = MaxStale + 1
    BY <1>1, FS_Interval
<1> SUFFICES ASSUME ~FreeNr PROVE FALSE
    OBVIOUS
<1>3. \A n \in numbers : \E r \in requests : r.nr = n
    BY DEF FreeNr
<1>. DEFINE carrier == [n \in numbers |-> CHOOSE r \in requests : r.nr = n]
<1>4. \A n \in numbers : carrier[n] \in requests /\ carrier[n].nr = n
    BY <1>3
<1>5. carrier \in [numbers -> requests]
    BY <1>4
<1>. HIDE DEF numbers, carrier
<1>6. \E m, n \in numbers : m # n /\ carrier[m] = carrier[n]
    BY <1>1, <1>2, <1>5, FS_PigeonHole
<1>. QED
    BY <1>4, <1>6

LEMMA FreshNumber ==
    ASSUME FreeNr
    PROVE  FreshNr \in 1..(MaxStale + 1) /\ \A r \in requests : r.nr # FreshNr
    BY DEF FreeNr, FreshNr

\* Requests that are handled or lost, without a word to the board.
LEMMA HttpFewer ==
    ASSUME HttpInv, requests' \subseteq requests, UNCHANGED <<responses, conn, up>>
    PROVE  HttpInv'
<1>1. IsFiniteSet(requests')
    BY FS_Subset DEF HttpInv
<1>2. FreeNr => FreeNr'
    BY DEF FreeNr
<1>. QED
    BY <1>1, <1>2 DEF HttpInv

LEMMA HttpReply ==
    ASSUME HttpInv, NEW r \in requests, NEW resp, Reply(r, resp), UNCHANGED <<conn, up>>
    PROVE  HttpInv'
<1>1. requests' = requests \ {r}
    BY DEF Reply
<1>2. IsFiniteSet(requests')
    BY <1>1, FS_Subset DEF HttpInv
<1>3. FreeNr => FreeNr'
    BY <1>1 DEF FreeNr
<1>4. responses' # {} => conn # 0 /\ \A q \in requests' : q.nr # conn
  <2>1. CASE r.nr = conn
      BY <1>1, <2>1 DEF HttpInv
  <2>2. CASE r.nr # conn
      BY <1>1, <2>2 DEF HttpInv, Reply
  <2>. QED
      BY <2>1, <2>2
<1>. QED
    BY <1>1, <1>2, <1>3, <1>4 DEF HttpInv

LEMMA HttpOpen ==
    ASSUME HttpInv, up \in {"data2Web", "refresh"}, NEW req, req.nr = FreshNr, Open(req),
           up' \in {"connecting", "posting", "refreshing"}
    PROVE  HttpInv'
<1>1. conn = 0 /\ responses = {} /\ FreeNr
    BY DEF HttpInv
<1>2. FreshNr \in 1..(MaxStale + 1) /\ \A r \in requests : r.nr # FreshNr
    BY <1>1, FreshNumber
<1>3. /\ conn' = FreshNr /\ responses' = {}
      /\ requests' = requests \/ requests' = requests \cup {req}
    BY <1>1 DEF Open
<1>4. IsFiniteSet(requests')
    BY <1>3, FS_AddElement DEF HttpInv
<1>5. conn' \in 0..(MaxStale + 1) /\ conn' # 0
    BY <1>2, <1>3, UploadBoundsAssumption
<1>6. /\ \A r \in requests' : r.nr \in 1..(MaxStale + 1)
      /\ \A r, q \in requests' : r.nr = q.nr => r = q
    BY <1>2, <1>3 DEF HttpInv
<1>. QED
    BY <1>3, <1>4, <1>5, <1>6 DEF HttpInv

\* However the connection ends, the board has a number for the next one.
LEMMA HttpClose ==
    ASSUME HttpInv, GiveUp \/ \E resp \in responses : Receive(resp)
    PROVE  /\ HttpInv'
           /\ requests' \subseteq requests /\ responses' = {} /\ conn' = 0
           /\ UNCHANGED changes
<1>1. /\ requests' \subseteq requests /\ responses' = {} /\ conn' = 0
      /\ conn # 0 /\ UNCHANGED changes
    BY DEF GiveUp, Receive
<1>2. IsFiniteSet(requests')
    BY <1>1, FS_Subset DEF HttpInv
<1>3. FreeNr'
  <2>1. conn \in 1..(MaxStale + 1)
      BY <1>1 DEF HttpInv
  <2>2. CASE \E resp \in responses : Receive(resp)
    <3>1. requests' = requests /\ \A r \in requests : r.nr # conn
        BY <2>2 DEF Receive, HttpInv
    <3>. QED
        BY <2>1, <3>1 DEF FreeNr
  <2>3. CASE GiveUp /\ requests' = {r \in requests : r.nr # conn}
    <3>1. \A r \in requests' : r.nr # conn
        BY <2>3
    <3>. QED
        BY <2>1, <3>1 DEF FreeNr
  <2>4. CASE GiveUp /\ Cardinality(requests) <= MaxStale /\ requests' = requests
    <3>1. FreeNr
        BY <2>4, Pigeonhole DEF HttpInv
    <3>. QED
        BY <2>4, <3>1 DEF FreeNr
  <2>. QED
      BY <2>2, <2>3, <2>4 DEF GiveUp
<1>4. conn' \in 0..(MaxStale + 1)
    BY <1>1, UploadBoundsAssumption
<1>. QED
    BY <1>1, <1>2, <1>3, <1>4 DEF HttpInv

-----------------------------------------------------------------------------
(* Steps that record nothing and give nothing.                             *)

LEMMA DataKept ==
    ASSUME DataInv, Posts' \subseteq Posts, UNCHANGED <<changes, pulses, given>>,
           up' # "idle" => up # "idle",
           up' \in {"data2Web", "connecting", "refresh", "refreshing"} => Fresh
    PROVE  DataInv'
<1>1. Ids(changes)' = Ids(changes) /\ Ids(pulses)' = Ids(pulses)
    BY DEF Ids
<1>2. RowsInv'
    BY DEF DataInv, RowsInv, IsRows, Elements, Distinct
<1>3. GivenInv'
    BY <1>1 DEF DataInv, GivenInv, Given, Ids
<1>4. CopyInv'
    BY <1>1 DEF DataInv, CopyInv, Fresh, Distinct
<1>5. BatchAtomic'
    BY <1>1, Names DEF DataInv, BatchAtomic, Recorded
<1>. QED
    BY <1>2, <1>3, <1>4, <1>5 DEF DataInv

-----------------------------------------------------------------------------
(* Steps of the server and of its surroundings.                            *)

\* A request that is answered without a row being recorded.
LEMMA ReplyKeeps ==
    ASSUME UploadInv, NEW r \in requests, NEW resp, Reply(r, resp),
           resp.code # 200 \/ r \notin Posts,
           UNCHANGED <<conn, changes, clientVars>>
    PROVE  UploadInv'
<1>. USE DEF UploadInv
<1>1. /\ UNCHANGED <<conn, changes, up, pulses, given, sendSuccess>>
      /\ requests' \subseteq requests
    BY DEF clientVars, Reply
<1>2. HttpInv'
    BY <1>1, HttpReply
<1>3. DataInv'
  <2>1. Posts' \subseteq Posts
      BY <1>1 DEF Posts
  <2>. QED
      BY <1>1, <2>1, DataKept DEF DataInv, CopyInv
<1>4. Ids(changes)' = Ids(changes) /\ Ids(pulses)' = Ids(pulses)
    BY <1>1 DEF Ids
<1>5. PostInv'
  <2> SUFFICES ASSUME up = "posting" PROVE PostInv'
      BY <1>1 DEF PostInv
  <2>1. Posts' \subseteq Posts
      BY <1>1 DEF Posts
  <2>2. \A q \in requests' : q \in Posts => q \in Posts'
      BY DEF Posts
  <2>3. \A x \in responses' : x \in responses \/ (r.nr = conn /\ x = resp)
      BY DEF Reply
  <2>4. r.nr = conn => /\ r \in Posts /\ Ids(r.rows) = Ids(pulses)
                       /\ Ids(r.rows) \cap Ids(changes) = {}
      BY DEF PostInv, DataInv, CopyInv
  <2>. QED
      BY <1>1, <1>4, <2>1, <2>2, <2>3, <2>4 DEF PostInv
<1>6. SuccessMeansRecorded'
    BY <1>1, <1>4, Names DEF SuccessMeansRecorded, Recorded, Held
<1>. QED
    BY <1>2, <1>3, <1>5, <1>6

\* The table after a commit is made of rows when what the commit writes is.
LEMMA TableOfRows ==
    ASSUME NEW s, IsRows(s), Distinct(s), changes' = s
    PROVE  IsRows(changes)' /\ Distinct(changes)'
    BY DEF IsRows, Elements, Distinct

\* A request whose rows are recorded, whatever the answer says of it.
LEMMA CommitKeeps ==
    ASSUME UploadInv, NEW r \in Posts, NEW resp, Reply(r, resp), resp.code # 401,
           changes' = changes \o r.rows, UNCHANGED <<conn, clientVars>>
    PROVE  UploadInv'
<1>. USE DEF UploadInv
<1>1. /\ UNCHANGED <<conn, up, pulses, given, sendSuccess>>
      /\ requests' = requests \ {r} /\ r \in requests
    BY DEF clientVars, Reply, Posts
<1>2. HttpInv'
    BY <1>1, HttpReply
<1>3. Posts' = Posts \ {r}
    BY <1>1 DEF Posts
<1>4. Ids(pulses)' = Ids(pulses)
    BY <1>1 DEF Ids
<1>5. /\ IsRows(changes) /\ IsRows(r.rows) /\ Distinct(changes) /\ Distinct(r.rows)
      /\ Ids(r.rows) \cap Ids(changes) = {}
    BY DEF DataInv, RowsInv, CopyInv
<1>6. Ids(changes)' = Ids(changes) \cup Ids(r.rows)
  <2>1. Ids(changes)' = Ids(changes \o r.rows)
      BY DEF Ids
  <2>. QED
      BY <1>5, <2>1, ConcatIds
<1>7. IsRows(changes)' /\ Distinct(changes)'
  <2>1. IsRows(changes \o r.rows) /\ Distinct(changes \o r.rows)
      BY <1>5, ConcatRows, ConcatIds
  <2>. QED
      BY <2>1, TableOfRows
<1>8. RowsInv'
  <2>1. IsRows(pulses)' /\ Distinct(pulses)'
      BY <1>1 DEF DataInv, RowsInv, IsRows, Elements, Distinct
  <2>2. \A q \in Posts' : IsRows(q.rows) /\ Distinct(q.rows)
      BY <1>3 DEF DataInv, RowsInv
  <2>. QED
      BY <1>7, <2>1, <2>2 DEF RowsInv
<1>9. GivenInv'
  <2>1. Ids(r.rows) \in given
      BY DEF DataInv, GivenInv
  <2>2. Ids(r.rows) \subseteq Given
      BY <2>1 DEF Given
  <2>. QED
      BY <1>1, <1>3, <1>4, <1>6, <2>2 DEF DataInv, GivenInv, Given, Ids
<1>10. CopyInv'
  <2>1. \A q \in Posts' : q \in Posts /\ Ids(q.rows) \cap Ids(r.rows) = {} /\ Ids(q.rows) \cap Ids(changes) = {}
      BY <1>3 DEF DataInv, CopyInv
  <2>2. Fresh => Fresh'
      BY <1>3, <1>4, <1>6 DEF Fresh
  <2>. QED
      BY <1>1, <1>3, <1>6, <1>7, <2>1, <2>2 DEF DataInv, CopyInv
<1>11. BatchAtomic'
  <2> SUFFICES ASSUME NEW b \in given
               PROVE  b \subseteq Ids(changes)' \/ b \cap Ids(changes)' = {}
      BY <1>1, Names DEF BatchAtomic, Recorded, Ids
  <2>1. b = Ids(r.rows) \/ b \cap Ids(r.rows) = {}
      BY DEF DataInv, GivenInv
  <2>2. b \subseteq Ids(changes) \/ b \cap Ids(changes) = {}
      BY Names DEF DataInv, BatchAtomic
  <2>. QED
      BY <1>6, <2>1, <2>2
<1>12. PostInv'
  <2> SUFFICES ASSUME up = "posting" PROVE PostInv'
      BY <1>1 DEF PostInv
  <2>1. CASE r.nr = conn
    <3>1. responses = {} /\ responses' = {resp}
        BY <1>1, <2>1 DEF HttpInv, Reply
    <3>2. Ids(pulses) \subseteq Ids(changes)'
        BY <1>1, <1>6, <2>1 DEF PostInv
    <3>. QED
        BY <1>1, <1>3, <1>4, <2>1, <3>1, <3>2 DEF PostInv
  <2>2. CASE r.nr # conn
    <3>1. responses' = responses
        BY <2>2 DEF Reply
    <3>2. Ids(r.rows) \cap Ids(pulses) = {}
        BY <2>2 DEF PostInv
    <3>. QED
        BY <1>1, <1>3, <1>4, <1>6, <2>2, <3>1, <3>2 DEF PostInv
  <2>. QED
      BY <2>1, <2>2
<1>13. SuccessMeansRecorded'
    BY <1>1, <1>4, <1>6, Names DEF SuccessMeansRecorded, Recorded, Held, Ids
<1>. QED
    BY <1>2, <1>8, <1>9, <1>10, <1>11, <1>12, <1>13 DEF DataInv

LEMMA ServerKeeps ==
    ASSUME UploadInv, Server, UNCHANGED clientVars
    PROVE  UploadInv'
<1>1. ASSUME NEW t, ConnectDevice(t) PROVE UploadInv'
  <2>1. PICK r \in requests :
          /\ r.kind = "connect"
          /\ \/ ConnectOk(r, t) /\ UNCHANGED <<changes, indicator>>
             \/ ConnectUnauthorized(r) /\ UNCHANGED <<changes, indicator>>
             \/ DatabaseError(r)
          /\ UNCHANGED <<conn, active>>
      BY <1>1 DEF ConnectDevice
  <2>2. UNCHANGED <<conn, changes>> /\ r \notin Posts
      BY <2>1 DEF DatabaseError, Posts
  <2>3. \E resp : Reply(r, resp)
      BY <2>1 DEF ConnectOk, ConnectUnauthorized, DatabaseError
  <2>. QED
      BY <2>2, <2>3, ReplyKeeps
<1>2. CASE AddDeviceChanges
  <2>1. PICK r \in requests :
          /\ r.kind = "changes"
          /\ \/ TokenRejected(r) \/ Commit(r) \/ RollBack(r) \/ DatabaseError(r)
          /\ UNCHANGED conn
      BY <1>2 DEF AddDeviceChanges
  <2>2. r \in Posts
      BY <2>1 DEF Posts
  <2>3. CASE TokenRejected(r)
    <3>1. Reply(r, Error(r, 401)) /\ UNCHANGED changes /\ Error(r, 401).code # 200
        BY <2>3 DEF TokenRejected, Error
    <3>. QED
        BY <2>1, <3>1, ReplyKeeps
  <2>4. CASE RollBack(r) \/ DatabaseError(r)
    <3>1. Reply(r, Error(r, 500)) /\ UNCHANGED changes /\ Error(r, 500).code # 200
        BY <2>4 DEF RollBack, DatabaseError, Error
    <3>. QED
        BY <2>1, <3>1, ReplyKeeps
  <2>5. CASE Commit(r)
    <3>1. changes' = changes \o r.rows
        BY <2>5 DEF Commit
    <3>2. PICK resp \in {[nr |-> r.nr, code |-> 200], Error(r, 500)} : Reply(r, resp)
        BY <2>5 DEF Commit
    <3>3. resp.code # 401
        BY <3>2 DEF Error
    <3>. QED
        BY <2>1, <2>2, <3>1, <3>2, <3>3, CommitKeeps
  <2>. QED
      BY <2>1, <2>3, <2>4, <2>5
<1>. QED
    BY <1>1, <1>2 DEF Server

\* Keys that expire, devices that are switched, requests that are lost.
LEMMA EnvironmentKeeps ==
    ASSUME UploadInv, requests' \subseteq requests,
           UNCHANGED <<responses, conn, changes, clientVars>>
    PROVE  UploadInv'
<1>. USE DEF UploadInv
<1>1. UNCHANGED <<up, pulses, given, sendSuccess>>
    BY DEF clientVars
<1>2. HttpInv'
    BY <1>1, HttpFewer
<1>3. DataInv'
  <2>1. Posts' \subseteq Posts
      BY <1>1 DEF Posts
  <2>. QED
      BY <1>1, <2>1, DataKept DEF DataInv, CopyInv
<1>4. Ids(changes)' = Ids(changes) /\ Ids(pulses)' = Ids(pulses)
    BY DEF clientVars, Ids
<1>5. PostInv'
    BY <1>1, <1>4 DEF PostInv, Posts
<1>6. SuccessMeansRecorded'
    BY <1>1, <1>4, Names DEF SuccessMeansRecorded, Recorded, Held
<1>. QED
    BY <1>2, <1>3, <1>5, <1>6

-----------------------------------------------------------------------------
(* Steps of the client.                                                    *)

\* A new vector shares no pulse with an earlier one.
LEMMA BatchType ==
    ASSUME NEW batch \in Batches
    PROVE  /\ IsRows(batch) /\ Distinct(batch)
           /\ Ids(batch) \subseteq NewIds
<1>1. PICK n \in 1..MaxPulses : batch \in [1..n -> [id : NewIds, pin : Pins]]
    BY DEF Batches
<1>2. n \in Nat /\ DOMAIN batch = 1..n
    BY <1>1, UploadBoundsAssumption
<1>3. \A i \in 1..n : batch[i] \in [id : NewIds, pin : Pins] /\ batch[i].id \in NewIds
    BY <1>1
<1>4. IsRows(batch)
  <2>1. \A i \in 1..n : batch[i] \in Elements(batch)
      BY <1>2 DEF Elements
  <2>2. batch \in [1..n -> Elements(batch)]
      BY <1>1, <2>1
  <2>. QED
      BY <1>2, <2>2 DEF IsRows
<1>5. Ids(batch) \subseteq NewIds
    BY <1>2, <1>3 DEF Ids
<1>6. Distinct(batch)
  <2> SUFFICES ASSUME NEW i \in 1..n, NEW j \in 1..n, i # j
               PROVE  batch[i].id # batch[j].id
      BY <1>2 DEF Distinct
  <2>1. batch[i].id \in 1..MaxPulses /\ batch[j].id \in 1..MaxPulses
      BY <1>3 DEF NewIds
  <2>2. i < j \/ j < i
      BY <1>2
  <2>3. batch[i].id < batch[j].id \/ batch[j].id < batch[i].id
      BY <1>2, <2>2 DEF Batches
  <2>. QED
      BY <2>1, <2>3, UploadBoundsAssumption
<1>. QED
    BY <1>4, <1>5, <1>6

LEMMA NewIdsAreNew ==
    ASSUME GivenInv, NEW b \in given
    PROVE  b \cap NewIds = {}
<1> SUFFICES ASSUME NEW n \in b, n \in NewIds PROVE FALSE
    OBVIOUS
<1>1. n \in Given /\ n \in 1..MaxPulses
    BY DEF Given, GivenInv
<1>. QED
    BY <1>1, UploadBoundsAssumption DEF NewIds

LEMMA CallKeeps ==
    ASSUME UploadInv, NewCall
    PROVE  UploadInv'
<1>. USE DEF UploadInv
<1>1. PICK batch \in Batches : Call(batch)
    BY DEF NewCall
<1>2. /\ up = "idle" /\ up' = "data2Web" /\ pulses' = batch
      /\ sendSuccess' = FALSE /\ given' = given \cup {Ids(batch)}
      /\ UNCHANGED <<requests, responses, conn, changes>>
    BY <1>1 DEF Call, serverVars, Ids
<1>3. /\ IsRows(batch) /\ Distinct(batch) /\ Ids(batch) \subseteq NewIds
      /\ Ids(batch) \subseteq 1..MaxPulses
    BY BatchType DEF NewIds
<1>4. \A b \in given : b \cap Ids(batch) = {}
    BY <1>3, NewIdsAreNew DEF DataInv
<1>5. Posts' = Posts /\ Ids(changes)' = Ids(changes) /\ Ids(pulses)' = Ids(batch)
    BY <1>2 DEF Posts, Ids
<1>6. HttpInv'
    BY <1>2 DEF HttpInv, FreeNr
<1>7. RowsInv'
  <2>1. IsRows(changes)'
      BY <1>2 DEF DataInv, RowsInv, IsRows, Elements
  <2>2. IsRows(pulses)' /\ Distinct(pulses)'
      BY <1>2, <1>3 DEF IsRows, Elements, Distinct
  <2>3. \A r \in Posts' : IsRows(r.rows) /\ Distinct(r.rows)
      BY <1>5 DEF DataInv, RowsInv
  <2>. QED
      BY <2>1, <2>2, <2>3 DEF RowsInv
<1>8. Ids(changes) \cap Ids(batch) = {}
    BY <1>4 DEF DataInv, GivenInv, Given
<1>9. GivenInv'
  <2>1. Given \subseteq Given'
      BY <1>2 DEF Given
  <2>2. \A b, c \in given' : b = c \/ b \cap c = {}
      BY <1>2, <1>4 DEF DataInv, GivenInv
  <2>. QED
      BY <1>2, <1>3, <1>5, <2>1, <2>2 DEF DataInv, GivenInv
<1>10. CopyInv'
  <2>1. \A r \in Posts : Ids(r.rows) \cap Ids(batch) = {}
      BY <1>4 DEF DataInv, GivenInv
  <2>2. Fresh'
      BY <1>5, <1>8, <2>1 DEF Fresh
  <2>. QED
      BY <1>2, <1>5, <2>2 DEF DataInv, CopyInv, Distinct
<1>11. BatchAtomic'
  <2> SUFFICES ASSUME NEW b \in given'
               PROVE  b \subseteq Ids(changes) \/ b \cap Ids(changes) = {}
      BY <1>2, Names DEF BatchAtomic, Recorded, Ids
  <2>. QED
      BY <1>2, <1>8, Names DEF DataInv, BatchAtomic
<1>12. PostInv' /\ SuccessMeansRecorded'
    BY <1>2 DEF PostInv, SuccessMeansRecorded
<1>. QED
    BY <1>6, <1>7, <1>9, <1>10, <1>11, <1>12 DEF DataInv

\* A login, from the start of data2Web or after a refusal.
LEMMA OpenConnectKeeps ==
    ASSUME UploadInv, TryConnect \/ RefreshToken
    PROVE  UploadInv'
<1>. USE DEF UploadInv
<1>1. /\ up \in {"data2Web", "refresh"} /\ up' \in {"connecting", "refreshing"}
      /\ Open(ConnectRequest)
      /\ UNCHANGED <<changes, pulses, given, sendSuccess>>
    BY DEF TryConnect, RefreshToken, Open
<1>2. ConnectRequest.nr = FreshNr /\ ConnectRequest.kind # "changes"
    BY DEF ConnectRequest
<1>3. HttpInv'
    BY <1>1, <1>2, HttpOpen
<1>4. Posts' = Posts
    BY <1>1, <1>2 DEF Open, Posts
<1>5. DataInv'
    BY <1>1, <1>4, DataKept DEF DataInv, CopyInv
<1>6. PostInv' /\ SuccessMeansRecorded'
    BY <1>1 DEF PostInv, SuccessMeansRecorded, Recorded, Held
<1>. QED
    BY <1>3, <1>5, <1>6

\* The end of a login, with or without a key.
LEMMA ConnectReturnsKeeps ==
    ASSUME UploadInv, TriedConnect \/ Refreshed
    PROVE  UploadInv'
<1>. USE DEF UploadInv
<1>1. /\ up \in {"connecting", "refreshing"} /\ up' \in {"data2Web", "return"}
      /\ GiveUp \/ \E resp \in responses : Receive(resp)
      /\ UNCHANGED <<pulses, given, sendSuccess>>
    BY DEF TriedConnect, Refreshed, ConnectReturns
<1>2. HttpInv' /\ requests' \subseteq requests /\ UNCHANGED changes
    BY <1>1, HttpClose
<1>3. Posts' \subseteq Posts
    BY <1>2 DEF Posts
<1>4. DataInv'
    BY <1>1, <1>2, <1>3, DataKept DEF DataInv, CopyInv
<1>5. PostInv' /\ SuccessMeansRecorded'
    BY <1>1, <1>2 DEF PostInv, SuccessMeansRecorded, Recorded, Held
<1>. QED
    BY <1>2, <1>4, <1>5

\* data2Web returns without a request.
LEMMA NoPostKeeps ==
    ASSUME UploadInv, NotConnected \/ PostMisdirected
    PROVE  UploadInv'
<1>. USE DEF UploadInv
<1>1. /\ up = "data2Web" /\ up' = "return"
      /\ UNCHANGED <<requests, responses, conn, changes, pulses, given, sendSuccess>>
    BY DEF NotConnected, PostMisdirected, serverVars
<1>2. HttpInv'
    BY <1>1 DEF HttpInv, FreeNr
<1>3. Posts' = Posts
    BY <1>1 DEF Posts
<1>4. DataInv'
    BY <1>1, <1>3, DataKept
<1>5. PostInv' /\ SuccessMeansRecorded'
    BY <1>1 DEF PostInv, SuccessMeansRecorded, Recorded, Held
<1>. QED
    BY <1>2, <1>4, <1>5

\* The vector goes on its way: it was nowhere else.
LEMMA PostKeeps ==
    ASSUME UploadInv, PostChanges
    PROVE  UploadInv'
<1>. USE DEF UploadInv
<1>. DEFINE req == ChangesRequest
<1>1. /\ up = "data2Web" /\ up' = "posting" /\ Open(req)
      /\ UNCHANGED <<changes, pulses, given, sendSuccess>>
    BY DEF PostChanges, Open
<1>2. /\ req.nr = FreshNr /\ req.kind = "changes"
      /\ req.rows = [i \in DOMAIN pulses |-> Row(pulses[i])]
    BY DEF ChangesRequest
<1>. HIDE DEF req
<1>3. HttpInv'
    BY <1>1, <1>2, HttpOpen
<1>4. IsRows(pulses) /\ Distinct(pulses) /\ Fresh /\ Ids(pulses) \in given
    BY <1>1 DEF DataInv, RowsInv, CopyInv, GivenInv
<1>5. IsRows(req.rows) /\ Distinct(req.rows) /\ Ids(req.rows) = Ids(pulses)
  <2>1. Len(pulses) \in Nat /\ DOMAIN pulses = 1..Len(pulses)
      BY <1>4, RowsDomain
  <2>2. DOMAIN req.rows = 1..Len(pulses) /\ \A i \in 1..Len(pulses) : req.rows[i].id = pulses[i].id
      BY <1>2, <2>1 DEF Row
  <2>3. req.rows \in [1..Len(pulses) -> Elements(req.rows)]
      BY <1>2, <2>1, <2>2 DEF Elements
  <2>4. IsRows(req.rows)
      BY <2>1, <2>3 DEF IsRows
  <2>5. Ids(req.rows) = Ids(pulses)
      BY <2>1, <2>2 DEF Ids
  <2>6. Distinct(req.rows)
      BY <1>4, <2>1, <2>2 DEF Distinct
  <2>. QED
      BY <2>4, <2>5, <2>6
<1>6. conn = 0 /\ responses = {} /\ FreeNr
    BY <1>1 DEF HttpInv
<1>7. /\ conn' = FreshNr /\ responses' = {}
      /\ requests' \subseteq requests \cup {req}
      /\ \A r \in requests : r.nr # FreshNr
    BY <1>1, <1>2, <1>6, FreshNumber DEF Open
<1>8. \A r \in Posts' : r \in Posts \/ r = req
    BY <1>7 DEF Posts
<1>9. Ids(changes)' = Ids(changes) /\ Ids(pulses)' = Ids(pulses)
    BY <1>1 DEF Ids
<1>10. RowsInv'
  <2>1. IsRows(changes)' /\ IsRows(pulses)' /\ Distinct(pulses)'
      BY <1>1, <1>4 DEF DataInv, RowsInv, IsRows, Elements, Distinct
  <2>2. \A r \in Posts' : IsRows(r.rows) /\ Distinct(r.rows)
      BY <1>5, <1>8 DEF DataInv, RowsInv
  <2>. QED
      BY <2>1, <2>2 DEF RowsInv
<1>11. GivenInv'
  <2>1. Given' = Given
      BY <1>1 DEF Given
  <2>2. \A r \in Posts' : Ids(r.rows) \in given
      BY <1>4, <1>5, <1>8 DEF DataInv, GivenInv
  <2>. QED
      BY <1>1, <1>4, <1>9, <2>1, <2>2 DEF DataInv, GivenInv
<1>12. CopyInv'
  <2>1. \A r, q \in Posts' : r = q \/ Ids(r.rows) \cap Ids(q.rows) = {}
      BY <1>4, <1>5, <1>8 DEF DataInv, CopyInv, Fresh
  <2>2. \A r \in Posts' : Ids(r.rows) \cap Ids(changes) = {}
      BY <1>4, <1>5, <1>8 DEF DataInv, CopyInv, Fresh
  <2>. QED
      BY <1>1, <1>9, <2>1, <2>2 DEF DataInv, CopyInv, Distinct
<1>13. BatchAtomic'
    BY <1>1, <1>9, Names DEF DataInv, BatchAtomic, Recorded
<1>14. PostInv'
  <2>1. \A r \in Posts' : r.nr # conn' => Ids(r.rows) \cap Ids(pulses) = {}
      BY <1>2, <1>4, <1>7, <1>8 DEF Fresh
  <2>2. \A r \in requests' : r.nr = conn' => r \in Posts' /\ Ids(r.rows) = Ids(pulses)
      BY <1>2, <1>5, <1>7 DEF Posts
  <2>. QED
      BY <1>7, <1>9, <2>1, <2>2 DEF PostInv
<1>15. SuccessMeansRecorded'
    BY <1>1 DEF SuccessMeansRecorded, Recorded, Held
<1>. QED
    BY <1>3, <1>10, <1>11, <1>12, <1>13, <1>14, <1>15 DEF DataInv

\* sendData2Web tries again only what was refused.
LEMMA PostedKeeps ==
    ASSUME UploadInv, Posted
    PROVE  UploadInv'
<1>. USE DEF UploadInv
<1>1. /\ up = "posting" /\ UNCHANGED <<pulses, given>>
      /\ GiveUp \/ \E resp \in responses : Receive(resp)
    BY DEF Posted
<1>2. HttpInv' /\ requests' \subseteq requests /\ UNCHANGED changes
    BY <1>1, HttpClose
<1>3. Posts' \subseteq Posts
    BY <1>2 DEF Posts
<1>4. /\ up' \in {"refresh", "return"}
      /\ up' = "refresh" => Fresh
      /\ sendSuccess' => Ids(pulses) \subseteq Ids(changes)
  <2>1. CASE GiveUp /\ AfterPost(0)
    <3>1. 0 # 200 /\ 0 # 401
        OBVIOUS
    <3>2. ~sendSuccess' /\ up' = "return"
        BY <2>1, <3>1, Zenon DEF AfterPost
    <3>. QED
        BY <3>2
  <2>2. ASSUME NEW resp \in responses, AfterPost(resp.code) PROVE <1>4!1 /\ <1>4!2 /\ <1>4!3
    <3>1. up' \in {"refresh", "return"} /\ (up' = "refresh" => resp.code = 401)
          /\ (sendSuccess' => resp.code = 200)
        BY <2>2 DEF AfterPost
    <3>2. \A r \in Posts : Ids(r.rows) \cap Ids(pulses) = {}
        BY <1>1, <2>2 DEF HttpInv, PostInv, Posts
    <3>3. /\ resp.code = 401 => Ids(pulses) \cap Ids(changes) = {}
          /\ resp.code = 200 => Ids(pulses) \subseteq Ids(changes)
        BY <1>1, <2>2 DEF PostInv
    <3>. QED
        BY <3>1, <3>2, <3>3 DEF Fresh
  <2>. QED
      BY <2>1, <2>2 DEF Posted
<1>5. DataInv'
    BY <1>1, <1>2, <1>3, <1>4, DataKept
<1>6. PostInv'
    BY <1>4 DEF PostInv
<1>7. SuccessMeansRecorded'
  <2>1. Held' = Ids(pulses) /\ Recorded' = Ids(changes)
      BY <1>1, <1>2 DEF Held, Recorded, Ids
  <2>. QED
      BY <1>4, <2>1 DEF SuccessMeansRecorded
<1>. QED
    BY <1>2, <1>5, <1>6, <1>7

\* sendData2Web has returned, or the board lost power: the vector is gone.
LEMMA VectorGone ==
    ASSUME UploadInv, pulses' = <<>>, up' = "idle", UNCHANGED <<requests, changes, given>>
    PROVE  DataInv' /\ PostInv' /\ SuccessMeansRecorded'
<1>. USE DEF UploadInv
<1>1. /\ Posts' = Posts /\ Ids(changes)' = Ids(changes) /\ Ids(pulses)' = {}
      /\ IsRows(pulses)' /\ Distinct(pulses)'
    BY EmptyRows DEF Posts, Ids, IsRows, Elements, Distinct
<1>2. RowsInv'
  <2>1. IsRows(changes)'
      BY DEF DataInv, RowsInv, IsRows, Elements
  <2>2. \A r \in Posts' : IsRows(r.rows) /\ Distinct(r.rows)
      BY <1>1 DEF DataInv, RowsInv
  <2>. QED
      BY <1>1, <2>1, <2>2 DEF RowsInv
<1>3. GivenInv' /\ CopyInv' /\ BatchAtomic'
  <2>1. GivenInv'
      BY <1>1 DEF DataInv, GivenInv, Given
  <2>2. CopyInv'
      BY <1>1 DEF DataInv, CopyInv, Distinct
  <2>3. BatchAtomic'
      BY <1>1, Names DEF DataInv, BatchAtomic, Recorded, Ids
  <2>. QED
      BY <2>1, <2>2, <2>3
<1>4. PostInv'
    BY DEF PostInv
<1>5. SuccessMeansRecorded'
  <2>1. Held' = {}
      BY <1>1 DEF Held, Ids
  <2>. QED
      BY <2>1 DEF SuccessMeansRecorded
<1>. QED
    BY <1>2, <1>3, <1>4, <1>5 DEF DataInv

LEMMA ReturnKeeps ==
    ASSUME UploadInv, Return
    PROVE  UploadInv'
<1>1. /\ up = "return" /\ up' = "idle" /\ pulses' = <<>>
      /\ UNCHANGED <<requests, responses, conn, changes, given>>
    BY DEF Return, serverVars
<1>2. HttpInv'
    BY <1>1 DEF UploadInv, HttpInv, FreeNr
<1>. QED
    BY <1>1, <1>2, VectorGone DEF UploadInv

LEMMA RestartKeeps ==
    ASSUME UploadInv, Restart
    PROVE  UploadInv'
<1>1. /\ up' = "idle" /\ pulses' = <<>> /\ responses' = {} /\ conn' = 0
      /\ Cardinality(requests) <= MaxStale
      /\ UNCHANGED <<requests, changes, given>>
    BY DEF Restart
<1>2. FreeNr
    BY <1>1, Pigeonhole DEF UploadInv, HttpInv
<1>3. HttpInv'
    BY <1>1, <1>2, UploadBoundsAssumption DEF UploadInv, HttpInv, FreeNr
<1>. QED
    BY <1>1, <1>3, VectorGone DEF UploadInv

-----------------------------------------------------------------------------
LEMMA UploadInit == Init => UploadInv
<1> SUFFICES ASSUME Init PROVE UploadInv
    OBVIOUS
<1>1. /\ requests = {} /\ responses = {} /\ conn = 0 /\ changes = <<>>
      /\ up = "idle" /\ pulses = <<>> /\ sendSuccess = FALSE /\ given = {}
    BY DEF Init, ServerInit
<1>2. HttpInv
  <2>1. 1 \in 1..(MaxStale + 1) /\ 0 \in 0..(MaxStale + 1)
      BY UploadBoundsAssumption
  <2>. QED
      BY <1>1, <2>1, FS_EmptySet DEF HttpInv, FreeNr
<1>3. Posts = {} /\ Given = {} /\ Ids(changes) = {} /\ Ids(pulses) = {}
    BY <1>1, EmptyRows DEF Posts, Given
<1>4. RowsInv /\ GivenInv /\ CopyInv
    BY <1>1, <1>3, EmptyRows DEF RowsInv, GivenInv, CopyInv
<1>5. BatchAtomic /\ PostInv /\ SuccessMeansRecorded
    BY <1>1 DEF BatchAtomic, PostInv, SuccessMeansRecorded
<1>. QED
    BY <1>2, <1>4, <1>5 DEF UploadInv, DataInv

(* The steps of Next, whatever their conditions on faults and the link:    *)
(* the invariants below do not need those conditions.                      *)
CalmStep ==
    \/ NewCall
    \/ Client
    \/ Server /\ UNCHANGED <<clientVars, online>>
    \/ Environment /\ UNCHANGED <<clientVars, online>>
    \/ UNCHANGED <<serverVars, clientVars>>

FreeStep == CalmStep \/ Restart

LEMMA StepIsFree == [Next]_vars => FreeStep
    BY DEF Next, FreeStep, CalmStep, LinkChanges, vars

LEMMA UploadNext == UploadInv /\ FreeStep => UploadInv'
<1> SUFFICES ASSUME UploadInv, FreeStep PROVE UploadInv'
    OBVIOUS
<1>1. CASE NewCall
    BY <1>1, CallKeeps
<1>2. CASE Client
    BY <1>2, OpenConnectKeeps, ConnectReturnsKeeps, NoPostKeeps, PostKeeps, PostedKeeps,
       ReturnKeeps DEF Client, Work
<1>3. CASE Server /\ UNCHANGED <<clientVars, online>>
    BY <1>3, ServerKeeps
<1>4. CASE Environment /\ UNCHANGED <<clientVars, online>>
  <2>1. requests' \subseteq requests /\ UNCHANGED <<responses, conn, changes>>
      BY <1>4 DEF Environment, ExpireToken, SwitchDevice, LoseRequest
  <2>. QED
      BY <1>4, <2>1, EnvironmentKeeps
<1>5. CASE UNCHANGED <<serverVars, clientVars>>
  <2>1. UNCHANGED clientVars /\ UNCHANGED <<requests, responses, conn, changes>>
      BY <1>5 DEF serverVars
  <2>. QED
      BY <2>1, EnvironmentKeeps
<1>6. CASE Restart
    BY <1>6, RestartKeeps
<1>. QED
    BY <1>1, <1>2, <1>3, <1>4, <1>5, <1>6 DEF FreeStep, CalmStep

\* Where the pulses of a vector are, in every reachable state of an upload.
THEOREM UploadInvariant == Spec => []UploadInv
<1>1. UploadInv /\ [Next]_vars => UploadInv'
    BY StepIsFree, UploadNext
<1>. QED
    BY <1>1, UploadInit, PTL DEF Spec

\* No pulse is recorded twice, whatever requests are late, lost or repeated.
THEOREM NoPulseTwice == Spec => []RecordedOnce
<1>1. UploadInv => RecordedOnce
    BY Names DEF UploadInv, DataInv, CopyInv
<1>. QED
    BY <1>1, UploadInvariant, PTL

\* A vector is recorded as a whole or not at all.
THEOREM VectorsAreWhole == Spec => []BatchAtomic
<1>1. UploadInv => BatchAtomic
    BY DEF UploadInv, DataInv
<1>. QED
    BY <1>1, UploadInvariant, PTL

\* sendData2Web returns true only for a vector that is in the table.
THEOREM SuccessIsTrue == Spec => []SuccessMeansRecorded
<1>1. UploadInv => SuccessMeansRecorded
    BY DEF UploadInv
<1>. QED
    BY <1>1, UploadInvariant, PTL

-----------------------------------------------------------------------------
(* The indicator.                                                          *)

RowsOf(s, d) == {i \in DOMAIN s : s[i].device = d}

LEMMA RowsOfFinite ==
    ASSUME NEW s, IsRows(s), NEW d
    PROVE  IsFiniteSet(RowsOf(s, d)) /\ Cardinality(RowsOf(s, d)) \in Nat
<1>1. Len(s) \in Nat /\ DOMAIN s = 1..Len(s)
    BY RowsDomain
<1>2. IsFiniteSet(1..Len(s)) /\ RowsOf(s, d) \subseteq 1..Len(s)
    BY <1>1, FS_Interval DEF RowsOf
<1>. QED
    BY <1>2, FS_Subset, FS_CardinalityType

\* The rows of a device in two sequences, one after the other, add up.
LEMMA RowsOfConcat ==
    ASSUME NEW s, NEW t, IsRows(s), IsRows(t), NEW d
    PROVE  Cardinality(RowsOf(s \o t, d)) = Cardinality(RowsOf(s, d)) + Cardinality(RowsOf(t, d))
<1>. DEFINE n == Len(s)
            A == RowsOf(s, d)
            B == RowsOf(t, d)
            C == {n + i : i \in B}
            shift == [i \in B |-> n + i]
            back == [j \in C |-> j - n]
<1>1. /\ n \in Nat /\ DOMAIN s = 1..n
      /\ Len(t) \in Nat /\ DOMAIN t = 1..Len(t)
      /\ DOMAIN (s \o t) = 1..(n + Len(t))
      /\ \A i \in 1..n : (s \o t)[i] = s[i]
      /\ \A i \in 1..Len(t) : (s \o t)[n + i] = t[i]
    BY RowsDomain, ConcatRows
<1>2. A \subseteq 1..n /\ B \subseteq 1..Len(t)
    BY <1>1 DEF RowsOf
<1>. HIDE DEF n
<1>3. RowsOf(s \o t, d) = A \cup C
  <2>1. A \subseteq RowsOf(s \o t, d)
      BY <1>1, <1>2 DEF RowsOf
  <2>2. C \subseteq RowsOf(s \o t, d)
    <3> SUFFICES ASSUME NEW i \in B PROVE n + i \in RowsOf(s \o t, d)
        OBVIOUS
    <3>. QED
        BY <1>1, <1>2 DEF RowsOf
  <2>3. ASSUME NEW j \in RowsOf(s \o t, d) PROVE j \in A \cup C
    <3>1. j \in 1..(n + Len(t)) /\ (s \o t)[j].device = d
        BY <1>1 DEF RowsOf
    <3>2. CASE j \in 1..n
        BY <1>1, <3>1, <3>2 DEF RowsOf
    <3>3. CASE j \notin 1..n
      <4>1. j - n \in 1..Len(t) /\ n + (j - n) = j
          BY <1>1, <3>1, <3>3
      <4>2. j - n \in B
          BY <1>1, <3>1, <4>1 DEF RowsOf
      <4>. QED
          BY <4>1, <4>2
    <3>. QED
        BY <3>2, <3>3
  <2>. QED
      BY <2>1, <2>2, <2>3
<1>4. A \cap C = {}
    BY <1>1, <1>2
<1>5. /\ shift \in [B -> C] /\ \A i, j \in B : shift[i] = shift[j] => i = j
      /\ back \in [C -> B] /\ \A i, j \in C : back[i] = back[j] => i = j
    BY <1>1, <1>2
<1>6. /\ IsFiniteSet(A) /\ Cardinality(A) \in Nat
      /\ IsFiniteSet(B) /\ Cardinality(B) \in Nat
      /\ IsFiniteSet(C) /\ Cardinality(C) \in Nat
  <2>1. IsFiniteSet(A) /\ Cardinality(A) \in Nat /\ IsFiniteSet(B) /\ Cardinality(B) \in Nat
      BY RowsOfFinite
  <2>2. C \subseteq 1..(n + Len(t))
      BY <1>1, <1>2
  <2>3. n + Len(t) \in Int /\ 1 \in Int
      BY <1>1
  <2>. HIDE DEF A, B, C
  <2>4. IsFiniteSet(1..(n + Len(t)))
      BY <2>3, FS_Interval
  <2>5. IsFiniteSet(C)
      BY <2>2, <2>4, FS_Subset
  <2>6. Cardinality(C) \in Nat
      BY <2>5, FS_CardinalityType
  <2>. QED
      BY <2>1, <2>5, <2>6
<1>. HIDE DEF A, B, C, shift, back
<1>7. Cardinality(C) = Cardinality(B)
  <2>1. ~(Cardinality(C) < Cardinality(B))
      BY <1>5, <1>6, FS_PigeonHole
  <2>2. ~(Cardinality(B) < Cardinality(C))
      BY <1>5, <1>6, FS_PigeonHole
  <2>. QED
      BY <1>6, <2>1, <2>2
<1>8. Cardinality(A \cup C) = Cardinality(A) + Cardinality(C) - Cardinality({})
    BY <1>4, <1>6, <1>7, FS_Union
<1>9. Cardinality({}) = 0
    BY FS_EmptySet
<1>. QED
    BY <1>3, <1>6, <1>7, <1>8, <1>9 DEF A, B

IndicatorInv == UploadInv /\ IndicatorAgrees

LEMMA IndicatorNext ==
    ASSUME IndicatorInv, FreeStep
    PROVE  IndicatorAgrees'
<1>1. CASE UNCHANGED <<changes, indicator>>
    BY <1>1 DEF IndicatorInv, IndicatorAgrees
<1>2. ASSUME NEW r \in Posts, Commit(r) PROVE IndicatorAgrees'
  <2> SUFFICES ASSUME NEW d \in Devices
               PROVE  indicator'[d] = Cardinality(RowsOf(changes', d))
      BY DEF IndicatorAgrees, RowsOf
  <2>1. IsRows(changes) /\ IsRows(r.rows)
      BY DEF IndicatorInv, UploadInv, DataInv, RowsInv
  <2>2. indicator'[d] = indicator[d] + Cardinality(RowsOf(r.rows, d)) /\ changes' = changes \o r.rows
      BY <1>2 DEF Commit, Moved, RowsOf
  <2>3. indicator[d] = Cardinality(RowsOf(changes, d))
      BY DEF IndicatorInv, IndicatorAgrees, RowsOf
  <2>. QED
      BY <2>1, <2>2, <2>3, RowsOfConcat
<1>3. CASE AddDeviceChanges
    BY <1>1, <1>2, <1>3 DEF AddDeviceChanges, TokenRejected, RollBack, DatabaseError, Posts
<1>4. CASE \E t \in NewTokens : ConnectDevice(t)
  <2>1. UNCHANGED <<changes, indicator>>
      BY <1>4 DEF ConnectDevice, DatabaseError
  <2>. QED
      BY <1>1, <2>1
<1>5. CASE NewCall
    BY <1>1, <1>5 DEF NewCall, Call, serverVars
<1>6. CASE Client
  <2>1. UNCHANGED <<changes, indicator>>
      BY <1>6 DEF Client, Work, TryConnect, TriedConnect, NotConnected, PostChanges,
                  PostMisdirected, Posted, RefreshToken, Refreshed, Return, ConnectReturns,
                  Open, Receive, GiveUp, serverVars
  <2>. QED
      BY <1>1, <2>1
<1>7. CASE Environment
    BY <1>1, <1>7 DEF Environment, ExpireToken, SwitchDevice, LoseRequest
<1>8. CASE UNCHANGED <<serverVars, clientVars>>
    BY <1>1, <1>8 DEF serverVars
<1>9. CASE Restart
    BY <1>1, <1>9 DEF Restart
<1>. QED
    BY <1>3, <1>4, <1>5, <1>6, <1>7, <1>8, <1>9 DEF FreeStep, CalmStep, Server

\* The indicator of a device has moved by one step for each of its rows.
THEOREM IndicatorCountsRows == Spec => []IndicatorAgrees
<1>1. Init => IndicatorAgrees
  <2> SUFFICES ASSUME Init, NEW d \in Devices PROVE indicator[d] = Cardinality(RowsOf(changes, d))
      BY DEF IndicatorAgrees, RowsOf
  <2>1. indicator[d] = 0 /\ RowsOf(changes, d) = {}
      BY DEF Init, ServerInit, RowsOf
  <2>. QED
      BY <2>1, FS_EmptySet
<1>2. Init => IndicatorInv
    BY <1>1, UploadInit DEF IndicatorInv
<1>3. IndicatorInv /\ [Next]_vars => IndicatorInv'
    BY StepIsFree, IndicatorNext, UploadNext DEF IndicatorInv
<1>4. IndicatorInv => IndicatorAgrees
    BY DEF IndicatorInv
<1>. QED
    BY <1>2, <1>3, <1>4, PTL DEF Spec
-----------------------------------------------------------------------------
(* The types.  An attempt that is under way has not used the last one up,  *)
(* and an answer to a login names a key and devices.                       *)

Login(resp) ==
    /\ resp.token \in Tokens
    /\ \A i \in DOMAIN resp.devices : resp.devices[i]["id"] \in Devices

LoginInv ==
    up \in {"connecting", "refreshing"} =>
        /\ \A r \in requests : r.nr = conn => r.kind = "connect"
        /\ \A resp \in responses : resp.code = 200 => Login(resp)

AttemptInv ==
    /\ up \in {"data2Web", "connecting", "posting"} => attempt < ConnectAttempts
    /\ up = "connecting" => connectAttempt < ConnectAttempts

\* TypeOK, part by part.
ClientTypes ==
    /\ up \in {"idle", "data2Web", "connecting", "posting", "refresh", "refreshing", "return"}
    /\ attempt \in 0..ConnectAttempts /\ connectAttempt \in 0..ConnectAttempts
    /\ sendSuccess \in BOOLEAN /\ slash \in BOOLEAN /\ online \in BOOLEAN
KeyTypes ==
    /\ isConnect \in BOOLEAN /\ accessToken \in 0..MaxTokens
    /\ pinId \in [Pins -> Devices \cup {0}]
TableTypes ==
    /\ tokens \subseteq Tokens /\ active \subseteq Devices
    /\ indicator \in [Devices -> 0..MaxIndicator]
MessageTypes ==
    /\ \A r \in requests : r.kind \in {"connect", "changes"}
    /\ \A r \in responses : r.nr = conn /\ r.code \in {200, 401, 500}

LEMMA TypeParts ==
    ASSUME HttpInv
    PROVE  TypeOK <=> ClientTypes /\ KeyTypes /\ TableTypes /\ MessageTypes
<1>1. TypeOK => ClientTypes /\ KeyTypes /\ TableTypes /\ MessageTypes
    BY DEF TypeOK, ClientTypes, KeyTypes, TableTypes, MessageTypes
<1>2. ClientTypes /\ KeyTypes /\ TableTypes /\ MessageTypes => TypeOK
    BY DEF TypeOK, ClientTypes, KeyTypes, TableTypes, MessageTypes, HttpInv
<1>. QED
    BY <1>1, <1>2

TypeInv ==
    /\ UploadInv
    /\ ClientTypes /\ KeyTypes /\ TableTypes /\ MessageTypes
    /\ AttemptInv /\ LoginInv

LEMMA DeviceId ==
    ASSUME NEW d \in Devices PROVE DeviceObject(d)["id"] = d
    BY DEF DeviceObject

\* What the loop of connect2Web leaves in pin_id.
LEMMA PinsStored ==
    ASSUME NEW ids \in [Pins -> Devices \cup {0}], NEW objects,
           \A i \in DOMAIN objects : objects[i]["id"] \in Devices
    PROVE  StorePins(ids, objects) \in [Pins -> Devices \cup {0}]
    BY DEF StorePins, Naming

\* A request that is answered.
LEMMA ReplyTypes ==
    ASSUME TypeInv, NEW r \in requests, NEW resp, Reply(r, resp),
           resp.nr = r.nr, resp.code \in {200, 401, 500},
           r.kind = "connect" /\ resp.code = 200 => Login(resp),
           UNCHANGED <<conn, up>>
    PROVE  MessageTypes' /\ LoginInv'
<1>1. /\ requests' \subseteq requests
      /\ \A x \in responses' : x \in responses \/ (x = resp /\ r.nr = conn)
    BY DEF Reply
<1>2. MessageTypes'
    BY <1>1 DEF TypeInv, MessageTypes
<1>3. LoginInv'
  <2> SUFFICES ASSUME up \in {"connecting", "refreshing"}
               PROVE  /\ \A q \in requests' : q.nr = conn => q.kind = "connect"
                      /\ \A x \in responses' : x.code = 200 => Login(x)
      BY DEF LoginInv, Login
  <2>1. /\ \A q \in requests : q.nr = conn => q.kind = "connect"
        /\ \A x \in responses : x.code = 200 => Login(x)
      BY DEF TypeInv, LoginInv
  <2>. QED
      BY <1>1, <2>1
<1>. QED
    BY <1>2, <1>3

LEMMA ConnectDeviceTypes ==
    ASSUME TypeInv, NEW t \in NewTokens, ConnectDevice(t), UNCHANGED up
    PROVE  TableTypes' /\ MessageTypes' /\ LoginInv'
<1>1. PICK r \in requests :
        /\ r.kind = "connect"
        /\ \/ ConnectOk(r, t) /\ UNCHANGED indicator
           \/ ConnectUnauthorized(r) /\ UNCHANGED indicator
           \/ DatabaseError(r)
        /\ UNCHANGED <<conn, active>>
    BY DEF ConnectDevice
<1>2. CASE ConnectOk(r, t) /\ UNCHANGED indicator
  <2>1. PICK rows \in Injection(1..Cardinality(active), active) :
          Reply(r, [nr |-> r.nr, code |-> 200, token |-> t,
                    devices |-> [i \in DOMAIN rows |-> DeviceObject(rows[i])]])
      BY <1>2 DEF ConnectOk
  <2>. DEFINE resp == [nr |-> r.nr, code |-> 200, token |-> t,
                       devices |-> [i \in DOMAIN rows |-> DeviceObject(rows[i])]]
  <2>2. t \in Tokens
      BY DEF NewTokens
  <2>3. \A i \in DOMAIN rows : rows[i] \in Devices
      BY <2>1 DEF Injection, TypeInv, TableTypes
  <2>4. Login(resp)
      BY <2>2, <2>3, DeviceId DEF Login
  <2>5. Reply(r, resp) /\ resp.nr = r.nr /\ resp.code = 200
      BY <2>1
  <2>. HIDE DEF resp
  <2>6. MessageTypes' /\ LoginInv'
      BY <1>1, <2>4, <2>5, ReplyTypes
  <2>7. TableTypes'
      BY <1>1, <1>2, <2>2 DEF ConnectOk, TypeInv, TableTypes
  <2>. QED
      BY <2>6, <2>7
<1>3. ASSUME NEW code \in {401, 500}, Reply(r, Error(r, code)), UNCHANGED <<tokens, indicator>>
      PROVE  TableTypes' /\ MessageTypes' /\ LoginInv'
  <2>1. Error(r, code).nr = r.nr /\ Error(r, code).code = code /\ code # 200
      BY DEF Error
  <2>2. MessageTypes' /\ LoginInv'
      BY <1>1, <1>3, <2>1, ReplyTypes
  <2>3. TableTypes'
      BY <1>1, <1>3 DEF TypeInv, TableTypes, Tokens
  <2>. QED
      BY <2>2, <2>3
<1>. QED
    BY <1>1, <1>2, <1>3 DEF ConnectUnauthorized, DatabaseError

\* Insertable keeps every indicator in its column.
LEMMA CommitTypes ==
    ASSUME TypeInv, NEW r \in Posts, Insertable(r.rows), indicator' = Moved(r.rows)
    PROVE  indicator' \in [Devices -> 0..MaxIndicator]
<1>1. IsRows(r.rows) /\ indicator \in [Devices -> 0..MaxIndicator]
    BY DEF TypeInv, UploadInv, DataInv, RowsInv, TableTypes
<1>2. ASSUME NEW d \in Devices PROVE Moved(r.rows)[d] \in 0..MaxIndicator
  <2>1. Moved(r.rows)[d] = indicator[d] + Cardinality(RowsOf(r.rows, d))
      BY DEF Moved, RowsOf
  <2>2. Cardinality(RowsOf(r.rows, d)) \in Nat
      BY <1>1, RowsOfFinite
  <2>3. Moved(r.rows)[d] <= MaxIndicator
      BY DEF Insertable
  <2>4. indicator[d] \in Nat
      BY <1>1, IndicatorAssumption
  <2>. QED
      BY <2>1, <2>2, <2>3, <2>4, IndicatorAssumption
<1>. QED
    BY <1>2 DEF Moved

LEMMA AddDeviceChangesTypes ==
    ASSUME TypeInv, AddDeviceChanges, UNCHANGED up
    PROVE  TableTypes' /\ MessageTypes' /\ LoginInv'
<1>1. PICK r \in requests :
        /\ r.kind = "changes"
        /\ \/ TokenRejected(r) /\ UNCHANGED tokens
           \/ Commit(r) /\ UNCHANGED tokens
           \/ RollBack(r) /\ UNCHANGED tokens
           \/ DatabaseError(r)
        /\ UNCHANGED <<conn, active>>
    BY DEF AddDeviceChanges
<1>2. ASSUME NEW resp, Reply(r, resp), resp.nr = r.nr, resp.code \in {200, 401, 500}
      PROVE  MessageTypes' /\ LoginInv'
  <2>1. r.kind # "connect"
      BY <1>1
  <2>. QED
      BY <1>1, <1>2, <2>1, ReplyTypes
<1>3. ASSUME NEW code \in {401, 500}, Reply(r, Error(r, code)), UNCHANGED <<tokens, indicator>>
      PROVE  TableTypes' /\ MessageTypes' /\ LoginInv'
  <2>1. Error(r, code).nr = r.nr /\ Error(r, code).code = code
      BY DEF Error
  <2>2. MessageTypes' /\ LoginInv'
      BY <1>2, <1>3, <2>1
  <2>3. TableTypes'
      BY <1>1, <1>3 DEF TypeInv, TableTypes, Tokens
  <2>. QED
      BY <2>2, <2>3
<1>4. CASE Commit(r) /\ UNCHANGED tokens
  <2>1. indicator' \in [Devices -> 0..MaxIndicator]
      BY <1>1, <1>4, CommitTypes DEF Commit, Posts
  <2>2. TableTypes'
      BY <1>1, <1>4, <2>1 DEF TypeInv, TableTypes, Tokens
  <2>3. PICK resp \in {[nr |-> r.nr, code |-> 200], Error(r, 500)} : Reply(r, resp)
      BY <1>4 DEF Commit
  <2>4. resp.nr = r.nr /\ resp.code \in {200, 401, 500}
      BY <2>3 DEF Error
  <2>5. MessageTypes' /\ LoginInv'
      BY <1>2, <2>3, <2>4
  <2>. QED
      BY <2>2, <2>5
<1>. QED
    BY <1>1, <1>3, <1>4 DEF TokenRejected, RollBack, DatabaseError

\* Steps that answer nothing.
LEMMA QuietTypes ==
    ASSUME TypeInv, requests' \subseteq requests, UNCHANGED <<responses, conn, up>>
    PROVE  MessageTypes' /\ LoginInv'
    BY DEF TypeInv, MessageTypes, LoginInv, Login

LEMMA EnvironmentTypes ==
    ASSUME TypeInv, Environment, UNCHANGED up
    PROVE  TableTypes' /\ MessageTypes' /\ LoginInv'
<1>1. requests' \subseteq requests /\ UNCHANGED <<responses, conn>>
    BY DEF Environment, ExpireToken, SwitchDevice, LoseRequest
<1>2. TableTypes'
    BY DEF Environment, ExpireToken, SwitchDevice, LoseRequest, TypeInv, TableTypes
<1>. QED
    BY <1>1, <1>2, QuietTypes

\* A request that is sent, on a connection that has no answer yet.
LEMMA OpenTypes ==
    ASSUME TypeInv, up \in {"data2Web", "refresh"}, NEW req, Open(req), req.nr = FreshNr,
           req.kind \in {"connect", "changes"},
           up' \in {"connecting", "refreshing"} => req.kind = "connect"
    PROVE  TableTypes' /\ MessageTypes' /\ LoginInv'
<1>1. conn = 0 /\ responses = {} /\ FreeNr
    BY DEF TypeInv, UploadInv, HttpInv
<1>2. \A r \in requests : r.nr # FreshNr
    BY <1>1, FreshNumber
<1>3. conn' = FreshNr /\ requests' \subseteq requests \cup {req} /\ responses' = {}
    BY <1>1 DEF Open
<1>4. MessageTypes' /\ LoginInv'
    BY <1>2, <1>3 DEF TypeInv, MessageTypes, LoginInv
<1>5. TableTypes'
    BY DEF Open, TypeInv, TableTypes
<1>. QED
    BY <1>4, <1>5

\* A connection that ends.
LEMMA CloseTypes ==
    ASSUME TypeInv, GiveUp \/ \E resp \in responses : Receive(resp)
    PROVE  TableTypes' /\ MessageTypes' /\ LoginInv'
<1>1. requests' \subseteq requests /\ responses' = {} /\ conn' = 0
    BY TypeInv, HttpClose DEF TypeInv, UploadInv
<1>2. \A r \in requests : r.nr # 0
    BY DEF TypeInv, UploadInv, HttpInv
<1>3. MessageTypes' /\ LoginInv'
    BY <1>1, <1>2 DEF TypeInv, MessageTypes, LoginInv
<1>4. TableTypes'
    BY DEF GiveUp, Receive, TypeInv, TableTypes, Tokens
<1>. QED
    BY <1>3, <1>4

LEMMA ConnectReturnsTypes ==
    ASSUME TypeInv, up \in {"connecting", "refreshing"}, ConnectReturns
    PROVE  KeyTypes' /\ TableTypes' /\ MessageTypes' /\ LoginInv'
<1>1. TableTypes' /\ MessageTypes' /\ LoginInv'
    BY CloseTypes DEF ConnectReturns
<1>2. KeyTypes'
  <2>1. CASE UNCHANGED <<accessToken, pinId, isConnect>>
      BY <2>1 DEF TypeInv, KeyTypes
  <2>2. ASSUME NEW resp \in responses, LogIn(resp), resp.code = 200 PROVE KeyTypes'
    <3>1. Login(resp)
        BY <2>2 DEF TypeInv, LoginInv
    <3>2. accessToken' \in 0..MaxTokens
        BY <2>2, <3>1, UploadBoundsAssumption DEF LogIn, Login, Tokens
    <3>3. pinId \in [Pins -> Devices \cup {0}]
        BY DEF TypeInv, KeyTypes
    <3>4. pinId' \in [Pins -> Devices \cup {0}]
        BY <2>2, <3>1, <3>3, PinsStored DEF LogIn, Login
    <3>5. isConnect' = TRUE
        BY <2>2 DEF LogIn
    <3>. QED
        BY <3>2, <3>4, <3>5 DEF KeyTypes
  <2>3. CASE GiveUp /\ UNCHANGED <<accessToken, pinId, isConnect>>
      BY <2>1, <2>3
  <2>4. ASSUME NEW resp \in responses, LogIn(resp) PROVE KeyTypes'
    <3>1. CASE resp.code = 200
        BY <2>2, <2>4, <3>1
    <3>2. CASE resp.code # 200
        BY <2>1, <2>4, <3>2 DEF LogIn
    <3>. QED
        BY <3>1, <3>2
  <2>. QED
      BY <2>3, <2>4 DEF ConnectReturns
<1>. QED
    BY <1>1, <1>2

\* The steps of sendData2Web.
LEMMA WorkTypes ==
    ASSUME TypeInv, Work, UNCHANGED online
    PROVE  /\ ClientTypes' /\ KeyTypes' /\ AttemptInv'
           /\ TableTypes' /\ MessageTypes' /\ LoginInv'
<1>. USE AttemptsAssumption
<1>0. ClientTypes /\ KeyTypes /\ AttemptInv /\ TableTypes /\ MessageTypes
    BY DEF TypeInv
<1>1. CASE TryConnect
  <2>1. ConnectRequest.nr = FreshNr /\ ConnectRequest.kind = "connect"
      BY DEF ConnectRequest
  <2>2. TableTypes' /\ MessageTypes' /\ LoginInv'
      BY <1>1, <2>1, OpenTypes DEF TryConnect
  <2>3. ClientTypes' /\ KeyTypes' /\ AttemptInv'
      BY <1>0, <1>1 DEF TryConnect, ClientTypes, KeyTypes, AttemptInv
  <2>. QED
      BY <2>2, <2>3
<1>2. CASE TriedConnect
  <2>1. KeyTypes' /\ TableTypes' /\ MessageTypes' /\ LoginInv'
      BY <1>2, ConnectReturnsTypes DEF TriedConnect
  <2>2. ClientTypes' /\ AttemptInv'
      BY <1>0, <1>2 DEF TriedConnect, ClientTypes, AttemptInv
  <2>. QED
      BY <2>1, <2>2
<1>3. CASE NotConnected \/ PostMisdirected
  <2>1. UNCHANGED <<requests, responses, conn, tokens, active, indicator>>
        /\ up' = "return"
      BY <1>3 DEF NotConnected, PostMisdirected, serverVars
  <2>2. MessageTypes' /\ LoginInv' /\ TableTypes'
      BY <1>0, <2>1 DEF MessageTypes, LoginInv, TableTypes, Tokens
  <2>3. ClientTypes' /\ KeyTypes' /\ AttemptInv'
      BY <1>0, <1>3 DEF NotConnected, PostMisdirected, ClientTypes, KeyTypes, AttemptInv
  <2>. QED
      BY <2>2, <2>3
<1>4. CASE PostChanges
  <2>1. ChangesRequest.nr = FreshNr /\ ChangesRequest.kind = "changes"
      BY DEF ChangesRequest
  <2>2. TableTypes' /\ MessageTypes' /\ LoginInv'
      BY <1>4, <2>1, OpenTypes DEF PostChanges
  <2>3. ClientTypes' /\ KeyTypes' /\ AttemptInv'
      BY <1>0, <1>4 DEF PostChanges, ClientTypes, KeyTypes, AttemptInv
  <2>. QED
      BY <2>2, <2>3
<1>5. CASE Posted
  <2>1. TableTypes' /\ MessageTypes' /\ LoginInv'
      BY <1>5, CloseTypes DEF Posted
  <2>2. PICK code : AfterPost(code)
      BY <1>5 DEF Posted
  <2>3. KeyTypes'
      BY <1>0, <1>5 DEF Posted, KeyTypes
  <2>4. /\ attempt \in 0..ConnectAttempts /\ attempt < ConnectAttempts
        /\ UNCHANGED <<connectAttempt, slash, online>>
      BY <1>0, <1>5 DEF Posted, ClientTypes, AttemptInv
  <2>5. attempt' \in 0..ConnectAttempts /\ up' \in {"refresh", "return"}
      BY <2>2, <2>4 DEF AfterPost
  <2>6. sendSuccess' \in BOOLEAN
      BY <2>2 DEF AfterPost
  <2>7. ClientTypes' /\ AttemptInv'
      BY <1>0, <2>4, <2>5, <2>6 DEF ClientTypes, AttemptInv
  <2>. QED
      BY <2>1, <2>3, <2>7
<1>6. CASE RefreshToken
  <2>1. ConnectRequest.nr = FreshNr /\ ConnectRequest.kind = "connect"
      BY DEF ConnectRequest
  <2>2. TableTypes' /\ MessageTypes' /\ LoginInv'
      BY <1>6, <2>1, OpenTypes DEF RefreshToken
  <2>3. ClientTypes' /\ KeyTypes' /\ AttemptInv'
      BY <1>0, <1>6 DEF RefreshToken, ClientTypes, KeyTypes, AttemptInv
  <2>. QED
      BY <2>2, <2>3
<1>7. CASE Refreshed
  <2>1. KeyTypes' /\ TableTypes' /\ MessageTypes' /\ LoginInv'
      BY <1>7, ConnectReturnsTypes DEF Refreshed
  <2>2. ClientTypes' /\ AttemptInv'
      BY <1>0, <1>7 DEF Refreshed, ClientTypes, AttemptInv
  <2>. QED
      BY <2>1, <2>2
<1>. QED
    BY <1>1, <1>2, <1>3, <1>4, <1>5, <1>6, <1>7 DEF Work

LEMMA TypeInit == Init => TypeInv
<1> SUFFICES ASSUME Init PROVE TypeInv
    OBVIOUS
<1>0. 0 \in 0..ConnectAttempts /\ 0 \in 0..MaxTokens /\ 0 \in 0..MaxIndicator
    BY AttemptsAssumption, UploadBoundsAssumption, IndicatorAssumption
<1>1. ClientTypes /\ AttemptInv /\ LoginInv
  <2>1. up = "idle" /\ attempt = 0 /\ connectAttempt = 0
      BY DEF Init
  <2>2. sendSuccess \in BOOLEAN /\ slash \in BOOLEAN /\ online \in BOOLEAN
      BY DEF Init
  <2>. QED
      BY <1>0, <2>1, <2>2 DEF ClientTypes, AttemptInv, LoginInv
<1>2. KeyTypes /\ TableTypes
  <2>1. isConnect \in BOOLEAN /\ accessToken = 0
      BY DEF Init
  <2>2. pinId \in [Pins -> Devices \cup {0}]
      BY DEF Init
  <2>3. tokens = {} /\ active = Devices /\ indicator \in [Devices -> 0..MaxIndicator]
      BY <1>0 DEF Init, ServerInit
  <2>. QED
      BY <1>0, <2>1, <2>2, <2>3 DEF KeyTypes, TableTypes
<1>3. MessageTypes
    BY DEF Init, ServerInit, MessageTypes
<1>. QED
    BY <1>1, <1>2, <1>3, UploadInit DEF TypeInv

LEMMA TypeNext == TypeInv /\ FreeStep /\ online' \in BOOLEAN => TypeInv'
<1> SUFFICES ASSUME TypeInv, FreeStep, online' \in BOOLEAN
             PROVE  /\ ClientTypes' /\ KeyTypes' /\ AttemptInv'
                    /\ TableTypes' /\ MessageTypes' /\ LoginInv'
    BY UploadNext DEF TypeInv
<1>0. /\ ClientTypes /\ KeyTypes /\ AttemptInv
      /\ TableTypes /\ MessageTypes /\ LoginInv
    BY DEF TypeInv
<1>1. CASE NewCall
  <2>1. PICK batch : Call(batch)
      BY <1>1 DEF NewCall
  <2>2. UNCHANGED <<requests, responses, conn, tokens, active, indicator>> /\ up' = "data2Web"
      BY <2>1 DEF Call, serverVars
  <2>3. TableTypes' /\ MessageTypes' /\ LoginInv'
      BY <1>0, <2>2 DEF MessageTypes, LoginInv, TableTypes, Tokens
  <2>4. /\ attempt' = 0 /\ connectAttempt' = 0 /\ sendSuccess' \in BOOLEAN
        /\ UNCHANGED <<isConnect, accessToken, pinId, slash>>
      BY <1>1, <2>1 DEF Call
  <2>5. ClientTypes' /\ AttemptInv'
      BY <1>0, <2>2, <2>4, AttemptsAssumption DEF ClientTypes, AttemptInv
  <2>6. KeyTypes'
      BY <1>0, <2>4 DEF KeyTypes
  <2>. QED
      BY <2>3, <2>5, <2>6
<1>2. CASE Work /\ UNCHANGED online
    BY <1>2, WorkTypes
<1>3. CASE Return
  <2>1. UNCHANGED <<requests, responses, conn, tokens, active, indicator>> /\ up' = "idle"
      BY <1>3 DEF Return, serverVars
  <2>2. TableTypes' /\ MessageTypes' /\ LoginInv'
      BY <1>0, <2>1 DEF MessageTypes, LoginInv, TableTypes, Tokens
  <2>3. ClientTypes' /\ KeyTypes' /\ AttemptInv'
      BY <1>0, <1>3 DEF Return, ClientTypes, KeyTypes, AttemptInv
  <2>. QED
      BY <2>2, <2>3
<1>4. ASSUME UNCHANGED <<clientVars, online>> PROVE ClientTypes' /\ KeyTypes' /\ AttemptInv' /\ up' = up
    BY <1>0, <1>4 DEF clientVars, ClientTypes, KeyTypes, AttemptInv
<1>5. CASE Server /\ UNCHANGED <<clientVars, online>>
    BY <1>4, <1>5, ConnectDeviceTypes, AddDeviceChangesTypes DEF Server
<1>6. CASE Environment /\ UNCHANGED <<clientVars, online>>
    BY <1>4, <1>6, EnvironmentTypes
<1>7. CASE UNCHANGED <<serverVars, clientVars>>
  <2>1. UNCHANGED <<requests, responses, conn, tokens, active, indicator, clientVars>>
      BY <1>7 DEF serverVars
  <2>2. ClientTypes' /\ KeyTypes' /\ AttemptInv' /\ up' = up
      BY <1>0, <2>1 DEF clientVars, ClientTypes, KeyTypes, AttemptInv
  <2>3. TableTypes' /\ MessageTypes' /\ LoginInv'
      BY <1>0, <2>1, <2>2 DEF MessageTypes, LoginInv, Login, TableTypes, Tokens
  <2>. QED
      BY <2>2, <2>3
<1>8. CASE Restart
  <2>1. /\ UNCHANGED <<requests, tokens, active, indicator, slash>>
        /\ responses' = {} /\ conn' = 0 /\ up' = "idle"
      BY <1>8 DEF Restart
  <2>2. TableTypes' /\ MessageTypes' /\ LoginInv'
      BY <1>0, <2>1 DEF MessageTypes, LoginInv, TableTypes, Tokens
  <2>3. KeyTypes'
    <3>1. isConnect' \in BOOLEAN /\ accessToken' = 0 /\ pinId' = [p \in Pins |-> 0]
        BY <1>8 DEF Restart
    <3>2. pinId' \in [Pins -> Devices \cup {0}]
        BY <3>1
    <3>. QED
        BY <3>1, <3>2, UploadBoundsAssumption DEF KeyTypes
  <2>4. ClientTypes' /\ AttemptInv'
    <3>1. attempt' = 0 /\ connectAttempt' = 0
        BY <1>8 DEF Restart
    <3>2. sendSuccess' \in BOOLEAN /\ slash' = slash /\ online' \in BOOLEAN
        BY <1>8 DEF Restart
    <3>. QED
        BY <1>0, <2>1, <3>1, <3>2, AttemptsAssumption DEF ClientTypes, AttemptInv
  <2>. QED
      BY <2>2, <2>3, <2>4
<1>. QED
    BY <1>1, <1>2, <1>3, <1>5, <1>6, <1>7, <1>8 DEF FreeStep, CalmStep, Client

\* The types of all variables: the attempts never pass CONNECT_ATTEMPT, the
\* indicators never leave their column and pin_id holds devices only.
THEOREM UploadTypes == Spec => []TypeOK
<1>1. TypeInv => TypeOK
    BY TypeParts DEF TypeInv, UploadInv
<1>2. ASSUME TypeInv, [Next]_vars PROVE TypeInv'
  <2>1. online \in BOOLEAN
      BY <1>2 DEF TypeInv, ClientTypes
  <2>2. online' \in BOOLEAN
      BY <1>2, <2>1 DEF Next, Client, Return, LinkChanges, Restart, vars
  <2>. QED
      BY <1>2, <2>2, StepIsFree, TypeNext
<1>. QED
    BY <1>1, <1>2, TypeInit, PTL DEF Spec

-----------------------------------------------------------------------------
(* The order of the rows, when no request times out or is lost and the     *)
(* board keeps its power: the only request is that of the open connection, *)
(* and its vector is the newest one that was given.                        *)

Rising(s) == \A i, j \in DOMAIN s : i < j => s[i].id < s[j].id

RowOrder ==
    /\ Rising(changes) /\ Rising(pulses)
    /\ \A r \in Posts : Rising(r.rows)
    /\ \A r \in requests : r.nr = conn
    /\ up # "idle" => \A m \in Given \ Ids(pulses), n \in Ids(pulses) : m < n

LEMMA RisingConcat ==
    ASSUME NEW s, NEW t, IsRows(s), IsRows(t), Rising(s), Rising(t),
           \A m \in Ids(s), n \in Ids(t) : m < n
    PROVE  Rising(s \o t)
<1>1. /\ Len(s) \in Nat /\ DOMAIN s = 1..Len(s)
      /\ Len(t) \in Nat /\ DOMAIN t = 1..Len(t)
      /\ DOMAIN (s \o t) = 1..(Len(s) + Len(t))
      /\ \A i \in 1..Len(s) : (s \o t)[i] = s[i]
      /\ \A i \in 1..Len(t) : (s \o t)[Len(s) + i] = t[i]
    BY RowsDomain, ConcatRows
<1> SUFFICES ASSUME NEW i \in DOMAIN (s \o t), NEW j \in DOMAIN (s \o t), i < j
             PROVE  (s \o t)[i].id < (s \o t)[j].id
    BY DEF Rising
<1>2. CASE j \in 1..Len(s)
  <2>1. i \in DOMAIN s /\ j \in DOMAIN s
      BY <1>1, <1>2
  <2>. QED
      BY <1>1, <2>1 DEF Rising
<1>3. CASE i \notin 1..Len(s)
  <2>. DEFINE k == i - Len(s)
              l == j - Len(s)
  <2>1. k \in DOMAIN t /\ l \in DOMAIN t /\ k < l /\ i = Len(s) + k /\ j = Len(s) + l
      BY <1>1, <1>3
  <2>. QED
      BY <1>1, <2>1 DEF Rising
<1>4. CASE i \in 1..Len(s) /\ j \notin 1..Len(s)
  <2>. DEFINE l == j - Len(s)
  <2>1. l \in DOMAIN t /\ j = Len(s) + l
      BY <1>1, <1>4
  <2>2. (s \o t)[i].id \in Ids(s) /\ (s \o t)[j].id \in Ids(t)
      BY <1>1, <1>4, <2>1 DEF Ids
  <2>. QED
      BY <2>2
<1>. QED
    BY <1>1, <1>2, <1>3, <1>4

\* Steps that record nothing, send nothing and give nothing.
LEMMA OrderFewer ==
    ASSUME RowOrder, requests' \subseteq requests,
           conn' = conn \/ requests' = {},
           UNCHANGED <<changes, pulses, given>>, up' # "idle" => up # "idle"
    PROVE  RowOrder'
<1>1. Ids(pulses)' = Ids(pulses) /\ Given' = Given /\ Posts' \subseteq Posts
    BY DEF Ids, Given, Posts
<1>2. Rising(changes)' /\ Rising(pulses)'
    BY DEF RowOrder, Rising
<1>3. \A r \in Posts' : Rising(r.rows)
    BY <1>1 DEF RowOrder
<1>. QED
    BY <1>1, <1>2, <1>3 DEF RowOrder, Rising

\* Between connections there is no request at all.
LEMMA NoneWaiting ==
    ASSUME TypeInv, RowOrder, conn = 0 \/ responses # {}
    PROVE  requests = {}
<1>1. \A r \in requests : r.nr \in 1..(MaxStale + 1) /\ r.nr = conn
    BY DEF TypeInv, UploadInv, HttpInv, RowOrder
<1>2. \A r \in requests : r.nr # 0
    BY <1>1, UploadBoundsAssumption
<1>. QED
    BY <1>1, <1>2 DEF TypeInv, UploadInv, HttpInv

LEMMA OrderCommit ==
    ASSUME TypeInv, RowOrder, NEW r \in Posts, NEW resp, Reply(r, resp),
           changes' = changes \o r.rows, UNCHANGED <<conn, clientVars>>
    PROVE  RowOrder'
<1>1. /\ UNCHANGED <<conn, up, pulses, given>>
      /\ requests' = requests \ {r} /\ r \in requests /\ r.kind = "changes"
    BY DEF clientVars, Reply, Posts
<1>2. up = "posting"
  <2>1. r.nr = conn /\ r.nr \in 1..(MaxStale + 1)
      BY <1>1 DEF TypeInv, UploadInv, HttpInv, RowOrder
  <2>2. conn # 0
      BY <2>1, UploadBoundsAssumption
  <2>3. up \in {"connecting", "posting", "refreshing"}
      BY <2>2 DEF TypeInv, UploadInv, HttpInv
  <2>. QED
      BY <1>1, <2>1, <2>3 DEF TypeInv, LoginInv
<1>3. Ids(r.rows) = Ids(pulses)
    BY <1>1, <1>2 DEF TypeInv, UploadInv, PostInv, RowOrder
<1>4. /\ IsRows(changes) /\ IsRows(r.rows)
      /\ Ids(r.rows) \cap Ids(changes) = {} /\ Ids(changes) \subseteq Given
    BY DEF TypeInv, UploadInv, DataInv, RowsInv, CopyInv, GivenInv
<1>5. \A m \in Ids(changes), n \in Ids(r.rows) : m < n
    BY <1>2, <1>3, <1>4 DEF RowOrder
<1>6. Rising(changes \o r.rows)
    BY <1>4, <1>5, RisingConcat DEF RowOrder
<1>7. Rising(changes)'
    BY <1>6 DEF Rising
<1>8. Posts' \subseteq Posts /\ Ids(pulses)' = Ids(pulses) /\ Given' = Given
    BY <1>1 DEF Posts, Ids, Given
<1>9. Rising(pulses)' /\ \A q \in Posts' : Rising(q.rows)
    BY <1>1, <1>8 DEF RowOrder, Rising
<1>. QED
    BY <1>1, <1>7, <1>8, <1>9 DEF RowOrder, Rising

LEMMA OrderServer ==
    ASSUME TypeInv, RowOrder, Server, UNCHANGED clientVars
    PROVE  RowOrder'
<1>0. UNCHANGED <<up, pulses, given>>
    BY DEF clientVars
<1>1. ASSUME NEW t, ConnectDevice(t) PROVE RowOrder'
  <2>1. requests' \subseteq requests /\ UNCHANGED <<conn, changes>>
      BY <1>1 DEF ConnectDevice, ConnectOk, ConnectUnauthorized, DatabaseError, Reply
  <2>. QED
      BY <1>0, <2>1, OrderFewer
<1>2. CASE AddDeviceChanges
  <2>1. PICK r \in Posts :
          /\ TokenRejected(r) \/ Commit(r) \/ RollBack(r) \/ DatabaseError(r)
          /\ UNCHANGED conn
      BY <1>2 DEF AddDeviceChanges, Posts
  <2>2. CASE TokenRejected(r) \/ RollBack(r) \/ DatabaseError(r)
    <3>1. requests' \subseteq requests /\ UNCHANGED changes
        BY <2>2 DEF TokenRejected, RollBack, DatabaseError, Reply
    <3>. QED
        BY <1>0, <2>1, <3>1, OrderFewer
  <2>3. CASE Commit(r)
    <3>1. changes' = changes \o r.rows /\ \E resp : Reply(r, resp)
        BY <2>3 DEF Commit
    <3>. QED
        BY <2>1, <3>1, OrderCommit
  <2>. QED
      BY <2>1, <2>2, <2>3
<1>. QED
    BY <1>1, <1>2 DEF Server

LEMMA OrderCall ==
    ASSUME TypeInv, RowOrder, NewCall
    PROVE  RowOrder'
<1>1. PICK batch \in Batches : Call(batch)
    BY DEF NewCall
<1>2. /\ pulses' = batch /\ given' = given \cup {Ids(batch)}
      /\ UNCHANGED <<requests, responses, conn, changes>>
    BY <1>1 DEF Call, serverVars, Ids
<1>3. Rising(batch) /\ Ids(batch) \subseteq NewIds
    BY <1>1, BatchType DEF Batches, Rising
<1>4. Given' = Given \cup Ids(batch) /\ Ids(pulses)' = Ids(batch) /\ Posts' = Posts
    BY <1>2 DEF Given, Ids, Posts
<1>5. \A m \in Given \ Ids(batch), n \in Ids(batch) : m < n
    BY <1>3 DEF NewIds
<1>6. Rising(changes)' /\ Rising(pulses)'
    BY <1>2, <1>3 DEF RowOrder, Rising
<1>. QED
    BY <1>2, <1>4, <1>5, <1>6 DEF RowOrder, Rising

LEMMA OrderOpen ==
    ASSUME TypeInv, RowOrder, up \in {"data2Web", "refresh"}, NEW req, Open(req),
           req.nr = FreshNr, req.kind = "changes" => Rising(req.rows),
           UNCHANGED <<pulses, given>>
    PROVE  RowOrder'
<1>1. conn = 0
    BY DEF TypeInv, UploadInv, HttpInv
<1>2. requests = {}
    BY <1>1, NoneWaiting
<1>3. requests' \subseteq {req} /\ conn' = req.nr /\ UNCHANGED changes
    BY <1>2 DEF Open
<1>4. Ids(pulses)' = Ids(pulses) /\ Given' = Given /\ Posts' \subseteq {req}
    BY <1>3 DEF Ids, Given, Posts
<1>5. Rising(changes)' /\ Rising(pulses)'
    BY <1>3 DEF RowOrder, Rising
<1>6. \A r \in Posts' : Rising(r.rows)
    BY <1>4 DEF Posts
<1>. QED
    BY <1>3, <1>4, <1>5, <1>6 DEF RowOrder, Rising

LEMMA OrderWork ==
    ASSUME TypeInv, RowOrder, ~Faults, Work
    PROVE  RowOrder'
<1>1. CASE TryConnect \/ RefreshToken
  <2>1. ConnectRequest.nr = FreshNr /\ ConnectRequest.kind # "changes"
      BY DEF ConnectRequest
  <2>. QED
      BY <1>1, <2>1, OrderOpen DEF TryConnect, RefreshToken
<1>2. CASE PostChanges
  <2>1. /\ ChangesRequest.nr = FreshNr
        /\ ChangesRequest.rows = [i \in DOMAIN pulses |-> Row(pulses[i])]
      BY DEF ChangesRequest
  <2>2. Rising(ChangesRequest.rows)
      BY <2>1 DEF RowOrder, Rising, Row
  <2>. QED
      BY <1>2, <2>1, <2>2, OrderOpen DEF PostChanges
<1>3. CASE NotConnected \/ PostMisdirected
    BY <1>3, OrderFewer DEF NotConnected, PostMisdirected, serverVars
<1>4. CASE TriedConnect \/ Refreshed \/ Posted
  <2>1. \E resp \in responses : Receive(resp)
      BY <1>4 DEF TriedConnect, Refreshed, Posted, ConnectReturns, GiveUp
  <2>2. requests' = {} /\ UNCHANGED changes
      BY <2>1, NoneWaiting DEF Receive
  <2>3. UNCHANGED <<pulses, given>> /\ up # "idle"
      BY <1>4 DEF TriedConnect, Refreshed, Posted
  <2>. QED
      BY <2>2, <2>3, OrderFewer
<1>. QED
    BY <1>1, <1>2, <1>3, <1>4 DEF Work

LEMMA OrderNext ==
    ASSUME TypeInv, RowOrder, ~Faults, CalmStep
    PROVE  RowOrder'
<1>1. CASE Return
  <2>1. /\ up' = "idle" /\ pulses' = <<>>
        /\ UNCHANGED <<requests, conn, changes, given>>
      BY <1>1 DEF Return, serverVars
  <2>2. Posts' = Posts /\ DOMAIN pulses' = {}
      BY <2>1 DEF Posts
  <2>. QED
      BY <2>1, <2>2 DEF RowOrder, Rising
<1>2. CASE Environment /\ UNCHANGED <<clientVars, online>>
  <2>1. requests' \subseteq requests /\ UNCHANGED <<conn, changes>>
      BY <1>2 DEF Environment, ExpireToken, SwitchDevice, LoseRequest
  <2>. QED
      BY <1>2, <2>1, OrderFewer DEF clientVars
<1>3. CASE UNCHANGED <<serverVars, clientVars>>
    BY <1>3, OrderFewer DEF serverVars, clientVars
<1>. QED
    BY <1>1, <1>2, <1>3, OrderCall, OrderWork, OrderServer DEF CalmStep, Client
=============================================================================
