----------------------------- MODULE DeviceAdmin -----------------------------
(***************************************************************************)
(* Administrators edit devices (templates/admin.html, get_device_api and   *)
(* save_device_api of app.py, update_device.sql, add_device.sql) while     *)
(* boards record rows (add_device_changes.sql).  A form keeps the          *)
(* indicator that it was filled with; a board keeps the ids of its last    *)
(* login.  PostgreSQL runs both at READ COMMITTED: each statement of a     *)
(* procedure sees what was committed before it.                            *)
(*                                                                         *)
(* The indicator counts steps of step_increment; an administrator changes  *)
(* address, pin and state of a device and leaves the indicator as shown.   *)
(***************************************************************************)
EXTENDS Naturals, FiniteSets

CONSTANTS
    Ids,      \* ids of the table devices
    Boards,   \* addresses of boards
    Pins,     \* pins of a board
    Forms,    \* forms open in browsers
    None,     \* no device, no form, no request
    MaxRows   \* bound: rows of a device

\* A row of the table devices, as far as it matters here.
Device == [mac : Boards, pin : Pins, indicator : 0..MaxRows, state : BOOLEAN]

ASSUME NoneAssumption == None \notin Ids /\ None \notin Device
ASSUME MaxRowsAssumption == MaxRows \in Nat

VARIABLES
    devices,   \* the table devices: None or the row of an id
    rows,      \* rows of each id in device_changes
    form,      \* each form: None, or what it holds and how far its save is
    known,     \* ids that connect_device gave to each board
    posting,   \* the row that add_device_changes records for each board
    overtaken  \* history: ids with a row that a form or a board did not know of

vars == <<devices, rows, form, known, posting, overtaken>>

Exists(i) == devices[i] # None
At(mac, pin) == {i \in Ids : Exists(i) /\ devices[i].mac = mac /\ devices[i].pin = pin}

Init ==
    /\ devices = [i \in Ids |-> None]
    /\ rows = [i \in Ids |-> 0]
    /\ form = [f \in Forms |-> None]
    /\ known = [b \in Boards |-> {}]
    /\ posting = [b \in Boards |-> None]
    /\ overtaken = {}

-----------------------------------------------------------------------------
(* The administrators.                                                     *)

\* Mutant of LoadDevice: the answer leaves the indicator out.
LoadDeviceBare(f, i) ==
    /\ form[f] = None
    /\ Exists(i)
    /\ form' = [form EXCEPT ![f] = [pc |-> "open", id |-> i, indicator |-> 0]]
    /\ UNCHANGED <<devices, rows, known, posting, overtaken>>

\* loadDeviceData and get_device_api fill the form.  An indicator of 0 comes as
\* null; the field is required, so the administrator types the 0.
LoadDevice(f, i) ==
    /\ form[f] = None
    /\ Exists(i)
    /\ form' = [form EXCEPT ![f] = [pc |-> "open", id |-> i, indicator |-> devices[i].indicator]]
    /\ UNCHANGED <<devices, rows, known, posting, overtaken>>

NewDevice(f) ==
    /\ form[f] = None
    /\ form' = [form EXCEPT ![f] = [pc |-> "open", id |-> None, indicator |-> 0]]
    /\ UNCHANGED <<devices, rows, known, posting, overtaken>>

CloseForm(f) ==
    /\ form[f] # None /\ form[f].pc = "open"
    /\ form' = [form EXCEPT ![f] = None]
    /\ UNCHANGED <<devices, rows, known, posting, overtaken>>

\* The check of update_device and add_device.  A device that has the contact
\* already gives a NOTICE: nothing is saved and the form hears "success".
CheckContact(f, mac, pin, state) ==
    /\ form[f] # None /\ form[f].pc = "open"
    /\ form' = [form EXCEPT ![f] =
                  IF At(mac, pin) \ {form[f].id} # {}
                  THEN None
                  ELSE [pc |-> "write", id |-> form[f].id, indicator |-> form[f].indicator,
                        mac |-> mac, pin |-> pin, state |-> state]]
    /\ UNCHANGED <<devices, rows, known, posting, overtaken>>

\* Mutant of Row: the statement leaves the state out.
RowStateless(w) == [mac |-> w.mac, pin |-> w.pin, indicator |-> w.indicator]

Row(w) == [mac |-> w.mac, pin |-> w.pin, indicator |-> w.indicator, state |-> w.state]

\* Mutant of Refused: unique(mac_address, pin) is missing.
RefusedNever(w) == FALSE

\* unique(mac_address, pin) refuses what another save committed meanwhile.
Refused(w) == At(w.mac, w.pin) \ {w.id} # {}

\* The update or insert, and the commit; when refused, the rollback.
WriteDevice(f) ==
    /\ form[f] # None /\ form[f].pc = "write"
    /\ LET w == form[f] IN
         \/ Refused(w) /\ UNCHANGED devices
         \/ ~Refused(w) /\ \E i \in Ids :
              /\ IF w.id = None THEN ~Exists(i) ELSE i = w.id
              /\ devices' = [devices EXCEPT ![i] = Row(w)]
    /\ form' = [form EXCEPT ![f] = None]
    /\ UNCHANGED <<rows, known, posting, overtaken>>

-----------------------------------------------------------------------------
(* The boards.                                                             *)

\* connect_device: find_device lists the active devices of the address.
Login(b) ==
    /\ known' = [known EXCEPT ![b] =
                   {i \in Ids : Exists(i) /\ devices[i].mac = b /\ devices[i].state}]
    /\ known'[b] # {}
    /\ UNCHANGED <<devices, rows, form, posting, overtaken>>

\* Mutant of FindDevice: the device is looked up by the address alone.
FindDeviceByMac(b, i) ==
    /\ posting[b] = None
    /\ i \in known[b]
    /\ posting' = [posting EXCEPT ![b] =
                     [id |-> i, moves |-> {j \in Ids : Exists(j) /\ devices[j].mac = b}]]
    /\ UNCHANGED <<devices, rows, form, known, overtaken>>

\* add_device_changes looks the device up by its address and id ...
FindDevice(b, i) ==
    /\ posting[b] = None
    /\ i \in known[b]
    /\ posting' = [posting EXCEPT ![b] =
                     [id |-> i, moves |-> {j \in {i} : devices[j].mac = b}]]
    /\ UNCHANGED <<devices, rows, form, known, overtaken>>

FormOn(i) == \E f \in Forms : form[f] # None /\ form[f].id = i

\* ... and inserts the row for p_device_id, found or not, and moves what it found.
AddChange(b) ==
    /\ posting[b] # None
    /\ LET p == posting[b] IN
         /\ rows[p.id] < MaxRows
         /\ rows' = [rows EXCEPT ![p.id] = @ + 1]
         /\ devices' = [i \in Ids |-> IF i \in p.moves
                          THEN [devices[i] EXCEPT !.indicator = @ + 1] ELSE devices[i]]
         /\ overtaken' = IF FormOn(p.id) \/ p.moves = {}
                         THEN overtaken \cup {p.id} ELSE overtaken
    /\ posting' = [posting EXCEPT ![b] = None]
    /\ UNCHANGED <<form, known>>

Next ==
    \/ \E f \in Forms :
         \/ NewDevice(f) \/ CloseForm(f) \/ WriteDevice(f)
         \/ \E i \in Ids : LoadDevice(f, i)
         \/ \E mac \in Boards, pin \in Pins, state \in BOOLEAN : CheckContact(f, mac, pin, state)
    \/ \E b \in Boards :
         \/ Login(b) \/ AddChange(b)
         \/ \E i \in Ids : FindDevice(b, i)

Spec == Init /\ [][Next]_vars

-----------------------------------------------------------------------------
(* Properties.                                                             *)

Open   == [pc : {"open"}, id : Ids \cup {None}, indicator : 0..MaxRows]
Write  == [pc : {"write"}, id : Ids \cup {None}, indicator : 0..MaxRows,
           mac : Boards, pin : Pins, state : BOOLEAN]
Post   == [id : Ids, moves : SUBSET Ids]

\* Every variable keeps its type.
TypeOK ==
    /\ devices \in [Ids -> Device \cup {None}]
    /\ rows \in [Ids -> 0..MaxRows]
    /\ form \in [Forms -> Open \cup Write \cup {None}]
    /\ known \in [Boards -> SUBSET Ids]
    /\ posting \in [Boards -> Post \cup {None}]
    /\ overtaken \subseteq Ids

\* The indicator is never ahead of the rows, whatever forms are saved while
\* rows are recorded and whatever a board believes of its devices: a stale
\* save or a moved device only loses (update_device, add_device_changes).
NeverAhead == \A i \in Ids : Exists(i) => devices[i].indicator <= rows[i]

\* The indicator agrees with the rows unless a row of the device came while a
\* form held it, or from a board whose address the device no longer has.
AgreesUnlessOvertaken ==
    \A i \in Ids : Exists(i) /\ i \notin overtaken => devices[i].indicator = rows[i]

\* Two saves at once, each of which found the contact free, do not give it to
\* two devices: connect_device would count its pulses for either.
OneDevicePerContact ==
    \A i, j \in Ids : Exists(i) /\ Exists(j) /\ i # j =>
        devices[i].mac # devices[j].mac \/ devices[i].pin # devices[j].pin
=============================================================================
