---------------------------- MODULE DataUpload -----------------------------
(***************************************************************************)
(* sendData2Web, data2Web and connect2Web (borad/main/rest_api.cpp): the   *)
(* board uploads one vector of pulses, logging in when it has to, against  *)
(* the endpoints of MeterServer.                                           *)
(***************************************************************************)
EXTENDS MeterServer

CONSTANTS
    ConnectAttempts,  \* CONNECT_ATTEMPT
    MaxPulses,        \* bound: pulses of the board
    MaxStale,         \* bound: abandoned requests still on their way
    MaxTokens         \* bound: session keys that are alive at a time

ASSUME AttemptsAssumption == ConnectAttempts \in Nat \ {0}
ASSUME UploadBoundsAssumption ==
    MaxPulses \in Nat /\ MaxStale \in Nat /\ MaxTokens \in Nat

VARIABLES
    online,          \* WiFi is joined (owned by WebInit in FoxDen)
    up,              \* where sendData2Web is
    pulses,          \* its argument pulseArray
    attempt,         \* its local attempt
    connectAttempt,  \* data2Web's local connectAttempt
    sendSuccess,     \* its local send_success
    isConnect,       \* global
    accessToken,     \* global access_token, 0 for ""
    pinId,           \* global pin_id
    slash,           \* SERVER_NAME ends with "/"
    given            \* history: the vectors given so far, as sets of pulses

clientVars == <<up, pulses, attempt, connectAttempt, sendSuccess,
                isConnect, accessToken, pinId, slash, given>>
vars == <<serverVars, clientVars, online>>

Tokens == 1..MaxTokens

Init ==
    /\ ServerInit
    /\ up = "idle"
    /\ pulses = <<>>
    /\ attempt = 0
    /\ connectAttempt = 0
    /\ sendSuccess = FALSE
    /\ isConnect = FALSE
    /\ accessToken = 0
    /\ pinId = [p \in Pins |-> 0]
    /\ slash \in BOOLEAN
    /\ given = {}
    /\ online \in BOOLEAN

-----------------------------------------------------------------------------
(* HTTP.                                                                   *)

\* A number that no abandoned request carries.
FreshNr == CHOOSE n \in 1..(MaxStale + 1) : \A r \in requests : r.nr # n

\* Without WiFi the request does not leave the board.
Open(req) ==
    /\ conn' = req.nr
    /\ requests' = IF online THEN requests \cup {req} ELSE requests
    /\ UNCHANGED <<responses, tokens, active, changes, indicator>>

ConnectRequest == [nr |-> FreshNr, kind |-> "connect"]

\* pin_id has entry 0 for a pin that connect_device did not name.
Row(p) == [id |-> p.id, device |-> pinId[p.pin]]

ChangesRequest ==
    [nr |-> FreshNr, kind |-> "changes", token |-> accessToken,
     rows |-> [i \in DOMAIN pulses |-> Row(pulses[i])]]

\* The response arrives; client.stop() closes the connection.
Receive(resp) ==
    /\ conn # 0
    /\ online
    /\ resp \in responses
    /\ responses' = {}
    /\ conn' = 0
    /\ UNCHANGED <<requests, tokens, active, changes, indicator>>

\* The board gives up: http.begin failed, no route, a timeout, an unreadable
\* body.  The request may still reach the server later.
GiveUp ==
    /\ Faults
    /\ conn # 0
    /\ responses' = {}
    /\ conn' = 0
    /\ \/ requests' = {r \in requests : r.nr # conn}
       \/ Cardinality(requests) <= MaxStale /\ requests' = requests
    /\ UNCHANGED <<tokens, active, changes, indicator>>

-----------------------------------------------------------------------------
(* connect2Web.                                                            *)

\* ArduinoJson reads 0 for a key that the object does not have.
PinRead(object) == IF "pin" \in DOMAIN object THEN object["pin"] ELSE 0

\* The places where the list names pin p.
Naming(objects, p) == {i \in DOMAIN objects : PinRead(objects[i]) = p}

\* The loop over the list writes pin_id object by object: the last one that
\* names a pin stays.
StorePins(ids, objects) ==
    [p \in Pins |->
        LET last == {i \in Naming(objects, p) : \A j \in Naming(objects, p) : j <= i}
        IN  IF last = {} THEN ids[p] ELSE objects[CHOOSE i \in last : TRUE]["id"]]

\* The globals after connect2Web received resp.
LogIn(resp) ==
    IF resp.code = 200
    THEN /\ accessToken' = resp.token
         /\ pinId' = StorePins(pinId, resp.devices)
         /\ isConnect' = TRUE
    ELSE UNCHANGED <<accessToken, pinId, isConnect>>

\* connect2Web returns to its caller with the globals set or not.
ConnectReturns ==
    \/ \E resp \in responses : Receive(resp) /\ LogIn(resp)
    \/ GiveUp /\ UNCHANGED <<accessToken, pinId, isConnect>>

-----------------------------------------------------------------------------
(* sendData2Web and data2Web.                                              *)

Call(batch) ==
    /\ up = "idle"
    /\ up' = "data2Web"
    /\ pulses' = batch
    /\ attempt' = 0
    /\ connectAttempt' = 0
    /\ sendSuccess' = FALSE
    /\ given' = given \cup {{batch[i].id : i \in DOMAIN batch}}
    /\ UNCHANGED <<isConnect, accessToken, pinId, slash, serverVars>>

TryConnect ==
    /\ up = "data2Web"
    /\ ~isConnect
    /\ connectAttempt < ConnectAttempts
    /\ Open(ConnectRequest)
    /\ up' = "connecting"
    /\ UNCHANGED <<pulses, attempt, connectAttempt, sendSuccess,
                   isConnect, accessToken, pinId, slash, given>>

TriedConnect ==
    /\ up = "connecting"
    /\ ConnectReturns
    /\ connectAttempt' = connectAttempt + 1
    /\ up' = "data2Web"
    /\ UNCHANGED <<pulses, attempt, sendSuccess, slash, given>>

\* data2Web returns 0: not connected after all attempts.
NotConnected ==
    /\ up = "data2Web"
    /\ ~isConnect
    /\ connectAttempt >= ConnectAttempts
    /\ up' = "return"
    /\ UNCHANGED <<pulses, attempt, connectAttempt, sendSuccess,
                   isConnect, accessToken, pinId, slash, given, serverVars>>

PostChanges ==
    /\ up = "data2Web"
    /\ isConnect
    /\ slash
    /\ Open(ChangesRequest)
    /\ up' = "posting"
    /\ UNCHANGED <<pulses, attempt, connectAttempt, sendSuccess,
                   isConnect, accessToken, pinId, slash, given>>

\* Only connect2Web adds a missing "/": without it the POST of data2Web goes
\* to another address, whose answer is neither 200 nor 401.
PostMisdirected ==
    /\ up = "data2Web"
    /\ isConnect
    /\ ~slash
    /\ up' = "return"
    /\ UNCHANGED <<pulses, attempt, connectAttempt, sendSuccess,
                   isConnect, accessToken, pinId, slash, given, serverVars>>

\* Mutants of AfterPost: every error is retried; retries are not counted.
AfterPostRetryAll(code) ==
    /\ sendSuccess' = (code = 200)
    /\ attempt' = IF code # 200 THEN attempt + 1 ELSE attempt
    /\ up' = IF code # 200 THEN "refresh" ELSE "return"

AfterPostUncounted(code) ==
    /\ sendSuccess' = (code = 200)
    /\ attempt' = attempt
    /\ up' = IF code = 401 THEN "refresh" ELSE "return"

\* What sendData2Web does with the code that data2Web returned.
AfterPost(code) ==
    /\ sendSuccess' = (code = 200)
    /\ attempt' = IF code = 401 THEN attempt + 1 ELSE attempt
    /\ up' = IF code = 401 THEN "refresh" ELSE "return"

Posted ==
    /\ up = "posting"
    /\ \/ \E resp \in responses : Receive(resp) /\ AfterPost(resp.code)
       \/ GiveUp /\ AfterPost(0)
    /\ UNCHANGED <<pulses, connectAttempt, isConnect, accessToken, pinId, slash, given>>

RefreshToken ==
    /\ up = "refresh"
    /\ Open(ConnectRequest)
    /\ up' = "refreshing"
    /\ UNCHANGED <<pulses, attempt, connectAttempt, sendSuccess,
                   isConnect, accessToken, pinId, slash, given>>

\* Mutants of Refreshed: the condition of the loop is off by one, either way.
RefreshedShort ==
    /\ up = "refreshing"
    /\ ConnectReturns
    /\ up' = IF attempt + 1 < ConnectAttempts THEN "data2Web" ELSE "return"
    /\ connectAttempt' = 0
    /\ UNCHANGED <<pulses, attempt, sendSuccess, slash, given>>

RefreshedLong ==
    /\ up = "refreshing"
    /\ ConnectReturns
    /\ up' = IF attempt <= ConnectAttempts THEN "data2Web" ELSE "return"
    /\ connectAttempt' = 0
    /\ UNCHANGED <<pulses, attempt, sendSuccess, slash, given>>

\* The condition of the do-while; data2Web starts with connectAttempt 0.
Refreshed ==
    /\ up = "refreshing"
    /\ ConnectReturns
    /\ up' = IF attempt < ConnectAttempts THEN "data2Web" ELSE "return"
    /\ connectAttempt' = 0
    /\ UNCHANGED <<pulses, attempt, sendSuccess, slash, given>>

\* SenderTask calls Disconnect() next.
Return ==
    /\ up = "return"
    /\ up' = "idle"
    /\ pulses' = <<>>
    /\ online' = FALSE
    /\ UNCHANGED <<attempt, connectAttempt, sendSuccess, isConnect, accessToken,
                   pinId, slash, given, serverVars>>

Work ==
    \/ TryConnect \/ TriedConnect \/ NotConnected
    \/ PostChanges \/ PostMisdirected \/ Posted
    \/ RefreshToken \/ Refreshed

Client == (Work /\ UNCHANGED online) \/ Return

\* The globals of a restarted board; its connection is gone.
Restart ==
    /\ up' = "idle"
    /\ pulses' = <<>>
    /\ attempt' = 0
    /\ connectAttempt' = 0
    /\ sendSuccess' = FALSE
    /\ isConnect' = FALSE
    /\ accessToken' = 0
    /\ pinId' = [p \in Pins |-> 0]
    /\ responses' = {}
    /\ conn' = 0
    /\ online' = FALSE
    /\ Cardinality(requests) <= MaxStale
    /\ UNCHANGED <<requests, tokens, active, changes, indicator, slash, given>>

-----------------------------------------------------------------------------
(* The environment: SenderTask calls with new pulses.                      *)

Given == UNION given

\* Pulses come in order; the buffer may have dropped some before.
NewIds == {n \in 1..MaxPulses : \A m \in Given : m < n}

Batches ==
    {batch \in UNION {[1..n -> [id : NewIds, pin : Pins]] : n \in 1..MaxPulses} :
        \A i, j \in DOMAIN batch : i < j => batch[i].id < batch[j].id}

NewCall == up = "idle" /\ \E batch \in Batches : Call(batch)

\* A new session key is none that the board or a request still carries.
NewTokens ==
    Tokens \ (tokens \cup {accessToken} \cup {r.token : r \in {q \in requests : q.kind = "changes"}})

Server == (\E t \in NewTokens : ConnectDevice(t)) \/ AddDeviceChanges

\* Without faults a key does not expire in the middle of an upload and the
\* devices stay switched on.
Environment ==
    \/ \E t \in tokens : (Faults \/ up = "idle") /\ ExpireToken(t)
    \/ \E d \in Devices : Faults /\ SwitchDevice(d)
    \/ \E r \in requests : LoseRequest(r)

LinkChanges ==
    /\ Faults \/ up = "idle"
    /\ online' = ~online
    /\ UNCHANGED <<serverVars, clientVars>>

Next ==
    \/ NewCall /\ (Faults \/ online) /\ UNCHANGED online
    \/ Client
    \/ Server /\ UNCHANGED <<clientVars, online>>
    \/ Environment /\ UNCHANGED <<clientVars, online>>
    \/ LinkChanges
    \/ Faults /\ Restart

Spec == Init /\ [][Next]_vars

\* Every wait of the client is bounded by a timeout of HTTPClient.
FairSpec == Spec /\ WF_vars(Client)

-----------------------------------------------------------------------------
(* Properties.                                                             *)

TypeOK ==
    /\ up \in {"idle", "data2Web", "connecting", "posting", "refresh", "refreshing", "return"}
    /\ attempt \in 0..ConnectAttempts /\ connectAttempt \in 0..ConnectAttempts
    /\ {sendSuccess, isConnect, slash, online} \subseteq BOOLEAN
    /\ accessToken \in 0..MaxTokens /\ tokens \subseteq Tokens
    /\ pinId \in [Pins -> Devices \cup {0}]
    /\ conn \in 0..(MaxStale + 1) /\ active \subseteq Devices
    /\ indicator \in [Devices -> 0..MaxIndicator]
    /\ \A r \in requests : r.nr \in 1..(MaxStale + 1) /\ r.kind \in {"connect", "changes"}
    /\ \A r \in responses : r.nr = conn /\ r.code \in {200, 401, 500}

Recorded == {changes[i].id : i \in DOMAIN changes}

InFlight == UNION {{r.rows[i].id : i \in DOMAIN r.rows} : r \in {q \in requests : q.kind = "changes"}}

Held == {pulses[i].id : i \in DOMAIN pulses}

\* The retries of sendData2Web never record a pulse twice, although a request
\* that timed out may be handled while a later one is under way
\* (rest_api.cpp:278-295).
RecordedOnce ==
    \A i, j \in DOMAIN changes : i # j => changes[i].id # changes[j].id

\* A vector is recorded as a whole or not at all, also when one row fails in
\* the database (app.py:986-993).
BatchAtomic == \A b \in given : b \subseteq Recorded \/ b \cap Recorded = {}

\* The indicator of a device has moved by one step for each of its rows in
\* device_changes, through rollbacks and at the limit of its column
\* (add_device_changes.sql:21-26).
IndicatorAgrees ==
    \A d \in Devices : indicator[d] = Cardinality({i \in DOMAIN changes : changes[i].device = d})

\* sendData2Web returns true only for a vector that is in the database.
SuccessMeansRecorded == sendSuccess => Held \subseteq Recorded

\* sendData2Web returns, whatever the server and the network do
\* (the do-while at rest_api.cpp:281-293 and the while at 193-197).
CallReturns == up # "idle" ~> up = "idle"

\* What the comment at rest_api.cpp:139 says that connect2Web receives: the
\* device id of each pin.
PinIdPerPin == isConnect => \A d \in Devices : pinId[DevicePin[d]] = d
=============================================================================
