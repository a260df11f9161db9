---------------------------- MODULE MeterServer ----------------------------
(***************************************************************************)
(* The two endpoints of the server that boards call, and the tables behind *)
(* them: /connect_device and /add_device_changes (web/python/app.py), the  *)
(* function find_device and the procedure add_device_changes (sql).        *)
(*                                                                         *)
(* One board (one MAC address) talks to the server.  A request is handled  *)
(* in one step: the only transaction of each handler is atomic in the      *)
(* database, and the board cannot see the rest of the handler.             *)
(***************************************************************************)
EXTENDS Naturals, Sequences, FiniteSets, Functions

CONSTANTS
    Pins,        \* GPIO pins of the board
    Devices,     \* ids in table devices that have the board's MAC address
    DevicePin,   \* their column pin
    MaxIndicator, \* steps that fit in column indicator, numeric(8, 3)
    Faults       \* the database and the network may fail

\* Table devices is unique (mac_address, pin) and id is a serial.
ASSUME DevicesAssumption ==
    /\ Devices \subseteq Nat \ {0} /\ IsFiniteSet(Devices)
    /\ DevicePin \in [Devices -> Pins]
    /\ \A d, e \in Devices : DevicePin[d] = DevicePin[e] => d = e
ASSUME PinsAssumption == Pins \subseteq Nat /\ 0 \in Pins
ASSUME FaultsAssumption == Faults \in BOOLEAN
ASSUME IndicatorAssumption == MaxIndicator \in Nat

VARIABLES
    requests,    \* requests that the server may still handle
    responses,   \* responses on their way
    conn,        \* the connection the board holds open, 0 for none
    tokens,      \* session keys that have not expired
    active,      \* devices whose column state is true
    changes,     \* table device_changes, in commit order
    indicator    \* column indicator, in units of step_increment

serverVars == <<requests, responses, conn, tokens, active, changes, indicator>>

ServerInit ==
    /\ requests = {}
    /\ responses = {}
    /\ conn = 0
    /\ tokens = {}
    /\ active = Devices
    /\ changes = <<>>
    /\ indicator = [d \in Devices |-> 0]

\* A response to a connection that the board has closed goes nowhere.
Reply(r, resp) ==
    /\ requests' = requests \ {r}
    /\ responses' = IF r.nr = conn THEN responses \cup {resp} ELSE responses

Error(r, code) == [nr |-> r.nr, code |-> code]

-----------------------------------------------------------------------------
(* POST /connect_device                                                    *)

\* One object of the list "devices": the key of the pin is spelt "pin:".
DeviceObject(d) == [key \in {"id", "pin:"} |-> IF key = "id" THEN d ELSE DevicePin[d]]

\* find_device has no ORDER BY: the active devices come in any order.
ConnectOk(r, t) ==
    /\ active # {}
    /\ tokens' = tokens \cup {t}
    /\ \E rows \in Injection(1..Cardinality(active), active) :
         Reply(r, [nr |-> r.nr, code |-> 200, token |-> t,
                   devices |-> [i \in DOMAIN rows |-> DeviceObject(rows[i])]])

\* No active device has this MAC address.
ConnectUnauthorized(r) ==
    /\ active = {}
    /\ Reply(r, Error(r, 401))
    /\ UNCHANGED tokens

DatabaseError(r) ==
    /\ Faults
    /\ Reply(r, Error(r, 500))
    /\ UNCHANGED <<tokens, changes, indicator>>

ConnectDevice(t) ==
    \E r \in requests :
      /\ r.kind = "connect"
      /\ \/ ConnectOk(r, t) /\ UNCHANGED <<changes, indicator>>
         \/ ConnectUnauthorized(r) /\ UNCHANGED <<changes, indicator>>
         \/ DatabaseError(r)
      /\ UNCHANGED <<conn, active>>

-----------------------------------------------------------------------------
(* POST /add_device_changes                                                *)

TokenRejected(r) ==
    /\ r.token \notin tokens
    /\ Reply(r, Error(r, 401))
    /\ UNCHANGED <<changes, indicator>>

\* Mutant of Moved: a device moves once in a request.
MovedOnce(rows) ==
    [d \in Devices |->
        IF \E i \in DOMAIN rows : rows[i].device = d THEN indicator[d] + 1 ELSE indicator[d]]

Moved(rows) ==
    [d \in Devices |->
        indicator[d] + Cardinality({i \in DOMAIN rows : rows[i].device = d})]

\* Every row names a device (the foreign key of device_changes) and no
\* indicator overflows its column.
Insertable(rows) ==
    /\ \A i \in DOMAIN rows : rows[i].device \in Devices
    /\ \A d \in Devices : Moved(rows)[d] <= MaxIndicator

\* The procedure inserts each row and moves the indicator of its device; one
\* transaction holds all rows of the request.  After the commit the handler
\* reads the indicator again and starts the leak check: an error there
\* answers 500 to a request that has been recorded.
Commit(r) ==
    /\ r.token \in tokens
    /\ Insertable(r.rows)
    /\ changes' = changes \o r.rows
    /\ indicator' = Moved(r.rows)
    /\ \/ Reply(r, [nr |-> r.nr, code |-> 200])
       \/ Faults /\ Reply(r, Error(r, 500))

\* Mutant of RollBack: each row has a transaction of its own.
RollBackRest(r) ==
    /\ r.token \in tokens
    /\ ~Insertable(r.rows)
    /\ Reply(r, Error(r, 500))
    /\ IF Insertable(<<Head(r.rows)>>)
       THEN changes' = Append(changes, Head(r.rows)) /\ indicator' = Moved(<<Head(r.rows)>>)
       ELSE UNCHANGED <<changes, indicator>>

\* Mutant of RollBack: the error is not reported.
RollBackSilently(r) ==
    /\ r.token \in tokens
    /\ ~Insertable(r.rows)
    /\ Reply(r, [nr |-> r.nr, code |-> 200])
    /\ UNCHANGED <<changes, indicator>>

\* One row fails: the whole transaction is rolled back.
RollBack(r) ==
    /\ r.token \in tokens
    /\ ~Insertable(r.rows)
    /\ Reply(r, Error(r, 500))
    /\ UNCHANGED <<changes, indicator>>

AddDeviceChanges ==
    \E r \in requests :
      /\ r.kind = "changes"
      /\ \/ TokenRejected(r) /\ UNCHANGED tokens
         \/ Commit(r) /\ UNCHANGED tokens
         \/ RollBack(r) /\ UNCHANGED tokens
         \/ r.token \in tokens /\ DatabaseError(r)
      /\ UNCHANGED <<conn, active>>

-----------------------------------------------------------------------------
\* JWT_ACCESS_TOKEN_EXPIRES is not configured: a key expires some time later.
ExpireToken(t) ==
    /\ t \in tokens
    /\ tokens' = tokens \ {t}
    /\ UNCHANGED <<requests, responses, conn, active, changes, indicator>>

\* An administrator switches a device on or off (procedure update_device).
\* The other columns of the form are saved as they are: an administrator who
\* edits the indicator, or saves a stale one, is not part of this module.
SwitchDevice(d) ==
    /\ active' = IF d \in active THEN active \ {d} ELSE active \cup {d}
    /\ UNCHANGED <<requests, responses, conn, tokens, changes, indicator>>

\* A request that never reaches the server.
LoseRequest(r) ==
    /\ Faults
    /\ requests' = requests \ {r}
    /\ UNCHANGED <<responses, conn, tokens, active, changes, indicator>>
=============================================================================
