------------------------- MODULE DeviceAdminProofs --------------------------
(***************************************************************************)
(* Proofs about DeviceAdmin, for any number of devices, boards, forms and  *)
(* rows: the indicator never runs ahead of the rows, it agrees with them   *)
(* unless a form or a board was overtaken, and a contact has one device.   *)
(***************************************************************************)
EXTENDS DeviceAdmin, TLAPS

\* What a form holds was true of its device when it was filled, and is still
\* unless a row has overtaken it; devices are never deleted.
FormsInv ==
    \A f \in Forms : form[f] # None =>
        /\ form[f].id = None => form[f].indicator = 0
        /\ form[f].id # None =>
              /\ Exists(form[f].id)
              /\ form[f].indicator <= rows[form[f].id]
              /\ form[f].id \notin overtaken => form[f].indicator = rows[form[f].id]

\* A board knows and records for devices that exist, and moves no other
\* device than the one whose row it records.
BoardsInv ==
    \A b \in Boards :
        /\ \A i \in known[b] : Exists(i)
        /\ posting[b] # None => Exists(posting[b].id) /\ posting[b].moves \subseteq {posting[b].id}

\* An id without a device has no rows yet.
RowsInv == \A i \in Ids : ~Exists(i) => rows[i] = 0

AdminInv ==
    /\ TypeOK /\ FormsInv /\ BoardsInv /\ RowsInv
    /\ NeverAhead /\ AgreesUnlessOvertaken /\ OneDevicePerContact

-----------------------------------------------------------------------------
\* The empty tables satisfy the invariant.
LEMMA AdminInit == Init => AdminInv
<1> SUFFICES ASSUME Init PROVE AdminInv
    OBVIOUS
<1>1. \A i \in Ids : ~Exists(i)
    BY DEF Init, Exists
<1>2. TypeOK
    BY MaxRowsAssumption DEF Init, TypeOK
<1>. QED
    BY <1>1, <1>2 DEF Init, AdminInv, FormsInv, BoardsInv, RowsInv, NeverAhead,
       AgreesUnlessOvertaken, OneDevicePerContact

\* The types of what a form, a board and the table hold.
LEMMA FormType ==
    ASSUME TypeOK, NEW f \in Forms, form[f] # None
    PROVE  /\ form[f] \in Open \cup Write
           /\ form[f].id \in Ids \cup {None} /\ form[f].indicator \in 0..MaxRows
           /\ form[f].pc = "write" => form[f] \in Write /\ Row(form[f]) \in Device
<1>1. form[f] \in Open \cup Write
    BY DEF TypeOK
<1>. QED
    BY <1>1 DEF Open, Write, Row, Device

\* A device that exists is a row of its table.
LEMMA DeviceType ==
    ASSUME TypeOK, NEW i \in Ids, Exists(i)
    PROVE  devices[i] \in Device /\ devices[i].indicator \in 0..MaxRows
    BY DEF TypeOK, Exists, Device

-----------------------------------------------------------------------------
(* Steps that leave the table and the rows alone.                          *)

\* A form is filled with what holds of its device (get_device_api).
LEMMA OpenKeeps ==
    ASSUME AdminInv, NEW f \in Forms, NEW i \in Ids, LoadDevice(f, i)
    PROVE  AdminInv'
<1>. USE DEF AdminInv
<1>1. /\ UNCHANGED <<devices, rows, known, posting, overtaken>>
      /\ Exists(i)
      /\ form' = [form EXCEPT ![f] = [pc |-> "open", id |-> i, indicator |-> devices[i].indicator]]
    BY DEF LoadDevice
<1>2. devices[i].indicator \in 0..MaxRows /\ i # None
    BY <1>1, DeviceType, NoneAssumption
<1>3. TypeOK'
    BY <1>1, <1>2 DEF TypeOK, Open
<1>4. FormsInv'
  <2>1. SUFFICES ASSUME NEW g \in Forms, form'[g] # None
                 PROVE  /\ form'[g].id = None => form'[g].indicator = 0
                        /\ form'[g].id # None =>
                              /\ Exists(form'[g].id)
                              /\ form'[g].indicator <= rows[form'[g].id]
                              /\ form'[g].id \notin overtaken => form'[g].indicator = rows[form'[g].id]
      BY <1>1 DEF FormsInv, Exists
  <2>2. CASE g = f
    <3>1. form'[g] = [pc |-> "open", id |-> i, indicator |-> devices[i].indicator]
        BY <1>1, <2>2 DEF TypeOK
    <3>. QED
        BY <1>1, <1>2, <3>1 DEF NeverAhead, AgreesUnlessOvertaken
  <2>3. CASE g # f
    <3>1. form'[g] = form[g]
        BY <1>1, <2>3 DEF TypeOK
    <3>. QED
        BY <2>1, <3>1 DEF FormsInv
  <2>. QED
      BY <2>2, <2>3
<1>. QED
    BY <1>1, <1>3, <1>4 DEF BoardsInv, RowsInv, NeverAhead, AgreesUnlessOvertaken,
       OneDevicePerContact, Exists

\* A form is opened empty, closed or checked.
LEMMA FormStepKeeps ==
    ASSUME AdminInv, NEW f \in Forms,
           \/ NewDevice(f) \/ CloseForm(f)
           \/ \E mac \in Boards, pin \in Pins, state \in BOOLEAN : CheckContact(f, mac, pin, state)
    PROVE  AdminInv'
<1>. USE DEF AdminInv
<1>. DEFINE Fits(w) ==
         /\ form' = [form EXCEPT ![f] = w]
         /\ w # None =>
               \/ w.id = None /\ w.indicator = 0
               \/ form[f] # None /\ w.id = form[f].id /\ w.indicator = form[f].indicator
<1>0. UNCHANGED <<devices, rows, known, posting, overtaken>>
    BY DEF NewDevice, CloseForm, CheckContact
<1>1. \E w \in Open \cup Write \cup {None} : Fits(w)
  <2>1. CASE NewDevice(f)
    <3>. DEFINE v == [pc |-> "open", id |-> None, indicator |-> 0]
    <3>1. v \in Open
        BY MaxRowsAssumption DEF Open
    <3>2. Fits(v)
        BY <2>1 DEF NewDevice
    <3>. QED
        BY <3>1, <3>2
  <2>2. CASE CloseForm(f)
      BY <2>2 DEF CloseForm
  <2>3. ASSUME NEW mac \in Boards, NEW pin \in Pins, NEW state \in BOOLEAN,
               CheckContact(f, mac, pin, state)
        PROVE  \E w \in Open \cup Write \cup {None} : Fits(w)
    <3>. DEFINE v == [pc |-> "write", id |-> form[f].id, indicator |-> form[f].indicator,
                      mac |-> mac, pin |-> pin, state |-> state]
    <3>0. form[f] # None
        BY <2>3 DEF CheckContact
    <3>1. v \in Write
        BY <2>3, <3>0, FormType DEF Write
    <3>2. form' = [form EXCEPT ![f] = None] \/ form' = [form EXCEPT ![f] = v]
        BY <2>3 DEF CheckContact
    <3>3. Fits(None) \/ Fits(v)
        BY <3>0, <3>2
    <3>. QED
        BY <3>1, <3>3
  <2>. QED
      BY <2>1, <2>2, <2>3
<1>2. PICK w \in Open \cup Write \cup {None} : Fits(w)
    BY <1>1
<1>3. TypeOK'
    BY <1>0, <1>2 DEF TypeOK
<1>4. FormsInv'
  <2>1. SUFFICES ASSUME NEW g \in Forms, form'[g] # None
                 PROVE  /\ form'[g].id = None => form'[g].indicator = 0
                        /\ form'[g].id # None =>
                              /\ Exists(form'[g].id)
                              /\ form'[g].indicator <= rows[form'[g].id]
                              /\ form'[g].id \notin overtaken => form'[g].indicator = rows[form'[g].id]
      BY <1>0 DEF FormsInv, Exists
  <2>2. CASE g = f
    <3>1. form'[g] = w
        BY <1>2, <2>2 DEF TypeOK
    <3>. QED
        BY <1>2, <2>1, <2>2, <3>1 DEF FormsInv
  <2>3. CASE g # f
    <3>1. form'[g] = form[g]
        BY <1>2, <2>3 DEF TypeOK
    <3>. QED
        BY <2>1, <3>1 DEF FormsInv
  <2>. QED
      BY <2>2, <2>3
<1>. QED
    BY <1>0, <1>3, <1>4 DEF BoardsInv, RowsInv, NeverAhead, AgreesUnlessOvertaken,
       OneDevicePerContact, Exists

-----------------------------------------------------------------------------
(* A save.                                                                 *)

\* A save that the table takes gives it one row; nothing else changes but the
\* form, which is closed.
LEMMA SaveKeepsRow ==
    ASSUME AdminInv, NEW f \in Forms, form[f] # None, form[f].pc = "write", ~Refused(form[f]),
           NEW i \in Ids, IF form[f].id = None THEN ~Exists(i) ELSE i = form[f].id,
           devices' = [devices EXCEPT ![i] = Row(form[f])],
           form' = [form EXCEPT ![f] = None],
           UNCHANGED <<rows, known, posting, overtaken>>
    PROVE  AdminInv'
<1>. USE DEF AdminInv
<1>. DEFINE w == form[f]
<1>1. w \in Write /\ Row(w) \in Device /\ w.id \in Ids \cup {None}
    BY FormType
<1>2. Row(w) # None /\ Row(w).indicator = w.indicator /\ Row(w).mac = w.mac /\ Row(w).pin = w.pin
    BY <1>1, NoneAssumption DEF Row
<1>3. devices' \in [Ids -> Device \cup {None}] /\ devices'[i] = Row(w)
      /\ \A j \in Ids : j # i => devices'[j] = devices[j]
    BY <1>1 DEF TypeOK
<1>4. TypeOK'
    BY <1>3 DEF TypeOK
<1>5. \A j \in Ids : Exists(j) => Exists(j)'
    BY <1>2, <1>3 DEF Exists
<1>6. \A g \in Forms : form'[g] # None => form'[g] = form[g]
    BY DEF TypeOK
<1>7. FormsInv'
  <2> SUFFICES ASSUME NEW g \in Forms, form'[g] # None
               PROVE  /\ form'[g].id = None => form'[g].indicator = 0
                      /\ form'[g].id # None =>
                            /\ devices'[form'[g].id] # None
                            /\ form'[g].indicator <= rows[form'[g].id]
                            /\ form'[g].id \notin overtaken =>
                                  form'[g].indicator = rows[form'[g].id]
      BY DEF FormsInv, Exists
  <2>1. form'[g] = form[g] /\ form[g] # None
      BY <1>6
  <2>2. form[g].id \in Ids \cup {None}
      BY <2>1, FormType
  <2>. QED
      BY <1>5, <2>1, <2>2 DEF FormsInv, Exists
<1>8. BoardsInv'
    BY <1>5 DEF BoardsInv, TypeOK, Post
<1>9. RowsInv'
    BY <1>5 DEF RowsInv
<1>10. /\ w.indicator <= rows[i]
       /\ i \notin overtaken => w.indicator = rows[i]
  <2>1. CASE w.id = None
      BY <2>1, MaxRowsAssumption DEF RowsInv, FormsInv
  <2>2. CASE w.id # None
      BY <2>2 DEF FormsInv
  <2>. QED
      BY <2>1, <2>2
<1>11. NeverAhead' /\ AgreesUnlessOvertaken'
  <2> SUFFICES ASSUME NEW j \in Ids, Exists(j)'
               PROVE  /\ devices'[j].indicator <= rows[j]
                      /\ j \notin overtaken => devices'[j].indicator = rows[j]
      BY DEF NeverAhead, AgreesUnlessOvertaken
  <2>1. CASE j = i
      BY <1>2, <1>3, <1>10, <2>1
  <2>2. CASE j # i
      BY <1>3, <2>2 DEF NeverAhead, AgreesUnlessOvertaken, Exists
  <2>. QED
      BY <2>1, <2>2
<1>12. OneDevicePerContact'
  <2>1. ASSUME NEW j \in Ids, Exists(j), j # i
        PROVE  devices[j].mac # w.mac \/ devices[j].pin # w.pin
    <3>1. j \notin At(w.mac, w.pin) \/ j = w.id
        BY DEF Refused
    <3>2. j # w.id
        BY <2>1, NoneAssumption
    <3>. QED
        BY <2>1, <3>1, <3>2 DEF At
  <2> SUFFICES ASSUME NEW j \in Ids, NEW k \in Ids, Exists(j)', Exists(k)', j # k
               PROVE  devices'[j].mac # devices'[k].mac \/ devices'[j].pin # devices'[k].pin
      BY DEF OneDevicePerContact
  <2>2. CASE j = i
      BY <1>2, <1>3, <2>1, <2>2 DEF Exists
  <2>3. CASE k = i
      BY <1>2, <1>3, <2>1, <2>3 DEF Exists
  <2>4. CASE j # i /\ k # i
      BY <1>3, <2>4 DEF OneDevicePerContact, Exists
  <2>. QED
      BY <2>2, <2>3, <2>4
<1>. QED
    BY <1>4, <1>7, <1>8, <1>9, <1>11, <1>12

\* A save, refused or not.
LEMMA SaveKeeps ==
    ASSUME AdminInv, NEW f \in Forms, WriteDevice(f)
    PROVE  AdminInv'
<1>1. CASE Refused(form[f]) /\ UNCHANGED devices
  <2>1. UNCHANGED <<devices, rows, known, posting, overtaken>>
        /\ form' = [form EXCEPT ![f] = None]
      BY <1>1 DEF WriteDevice
  <2>2. TypeOK'
      BY <2>1 DEF AdminInv, TypeOK
  <2>3. \A g \in Forms : form'[g] # None => form'[g] = form[g]
      BY <2>1 DEF AdminInv, TypeOK
  <2>4. FormsInv'
      BY <2>1, <2>3 DEF AdminInv, FormsInv, Exists
  <2>. QED
      BY <2>1, <2>2, <2>4 DEF AdminInv, BoardsInv, RowsInv, NeverAhead, AgreesUnlessOvertaken,
         OneDevicePerContact, Exists
<1>2. CASE ~Refused(form[f])
  <2>1. PICK i \in Ids : /\ IF form[f].id = None THEN ~Exists(i) ELSE i = form[f].id
                         /\ devices' = [devices EXCEPT ![i] = Row(form[f])]
      BY <1>2 DEF WriteDevice
  <2>. QED
      BY <1>2, <2>1, SaveKeepsRow DEF WriteDevice
<1>. QED
    BY <1>1, <1>2 DEF WriteDevice

-----------------------------------------------------------------------------
(* The boards.                                                             *)

\* A board learns its devices, and looks one up for a row.
LEMMA LoginKeeps ==
    ASSUME AdminInv, NEW b \in Boards,
           Login(b) \/ \E i \in Ids : FindDevice(b, i)
    PROVE  AdminInv'
<1>. USE DEF AdminInv
<1>1. UNCHANGED <<devices, rows, form, overtaken>>
    BY DEF Login, FindDevice
<1>2. TypeOK' /\ BoardsInv'
  <2>1. CASE Login(b)
    <3>1. /\ known' = [known EXCEPT ![b] =
                         {i \in Ids : Exists(i) /\ devices[i].mac = b /\ devices[i].state}]
          /\ UNCHANGED posting
        BY <2>1 DEF Login
    <3>. QED
        BY <1>1, <3>1 DEF TypeOK, BoardsInv, Exists
  <2>2. ASSUME NEW i \in Ids, FindDevice(b, i) PROVE TypeOK' /\ BoardsInv'
    <3>. DEFINE p == [id |-> i, moves |-> {j \in {i} : devices[j].mac = b}]
    <3>1. p \in Post
        BY DEF Post
    <3>2. posting' = [posting EXCEPT ![b] = p] /\ UNCHANGED known /\ Exists(i)
        BY <2>2 DEF FindDevice, BoardsInv
    <3>3. TypeOK'
        BY <1>1, <3>1, <3>2 DEF TypeOK
    <3>4. BoardsInv'
      <4> SUFFICES ASSUME NEW c \in Boards
                   PROVE  /\ \A k \in known[c] : Exists(k)
                          /\ posting'[c] # None =>
                                Exists(posting'[c].id) /\ posting'[c].moves \subseteq {posting'[c].id}
          BY <1>1, <3>2 DEF BoardsInv, Exists
      <4>1. CASE c = b
        <5>1. posting'[c] = p
            BY <3>2, <4>1 DEF TypeOK
        <5>. QED
            BY <3>2, <5>1 DEF BoardsInv
      <4>2. CASE c # b
        <5>1. posting'[c] = posting[c]
            BY <3>2, <4>2 DEF TypeOK
        <5>. QED
            BY <5>1 DEF BoardsInv
      <4>. QED
          BY <4>1, <4>2
    <3>. QED
        BY <3>3, <3>4
  <2>. QED
      BY <2>1, <2>2
<1>. QED
    BY <1>1, <1>2 DEF FormsInv, RowsInv, NeverAhead, AgreesUnlessOvertaken,
       OneDevicePerContact, Exists

\* A row: its device moves on with it, and whatever form or board is left
\* behind is marked as overtaken.
LEMMA RowKeeps ==
    ASSUME AdminInv, NEW b \in Boards, AddChange(b)
    PROVE  AdminInv'
<1>. USE DEF AdminInv
<1>. DEFINE p == posting[b]
            Moved(j) == [devices[j] EXCEPT !.indicator = @ + 1]
<1>1. /\ p \in Post /\ p.id \in Ids /\ p.moves \subseteq {p.id} /\ Exists(p.id)
      /\ rows[p.id] < MaxRows
      /\ rows' = [rows EXCEPT ![p.id] = @ + 1]
      /\ devices' = [j \in Ids |-> IF j \in p.moves THEN Moved(j) ELSE devices[j]]
      /\ overtaken' = IF FormOn(p.id) \/ p.moves = {} THEN overtaken \cup {p.id} ELSE overtaken
      /\ posting' = [posting EXCEPT ![b] = None]
      /\ UNCHANGED <<form, known>>
    BY DEF AddChange, TypeOK, BoardsInv, Post
<1>2. /\ rows'[p.id] = rows[p.id] + 1
      /\ \A j \in Ids : j # p.id => rows'[j] = rows[j] /\ devices'[j] = devices[j]
      /\ \A j \in Ids : rows[j] \in 0..MaxRows /\ rows'[j] \in 0..MaxRows
    BY <1>1, MaxRowsAssumption DEF TypeOK
<1>3. devices[p.id] \in Device /\ devices[p.id].indicator <= rows[p.id]
    BY <1>1, DeviceType DEF NeverAhead
<1>4. /\ Moved(p.id) \in Device
      /\ Moved(p.id).indicator = devices[p.id].indicator + 1
      /\ Moved(p.id).mac = devices[p.id].mac /\ Moved(p.id).pin = devices[p.id].pin
    BY <1>1, <1>2, <1>3, MaxRowsAssumption DEF Device
<1>5. \/ p.id \in p.moves /\ devices'[p.id] = Moved(p.id)
      \/ p.moves = {} /\ devices'[p.id] = devices[p.id]
    BY <1>1
<1>6. \A j \in Ids : /\ Exists(j) <=> devices'[j] # None
                     /\ Exists(j) => /\ devices'[j].mac = devices[j].mac
                                     /\ devices'[j].pin = devices[j].pin
    BY <1>1, <1>2, <1>4, <1>5, NoneAssumption DEF Exists
<1>7. TypeOK'
  <2>1. devices' \in [Ids -> Device \cup {None}]
      BY <1>1, <1>2, <1>4, <1>5 DEF TypeOK
  <2>2. rows' \in [Ids -> 0..MaxRows]
      BY <1>1, <1>2 DEF TypeOK
  <2>3. overtaken' \subseteq Ids /\ posting' \in [Boards -> Post \cup {None}]
      BY <1>1 DEF TypeOK
  <2>. QED
      BY <1>1, <2>1, <2>2, <2>3 DEF TypeOK
<1>8. FormsInv'
  <2> SUFFICES ASSUME NEW f \in Forms, form[f] # None
               PROVE  /\ form[f].id = None => form[f].indicator = 0
                      /\ form[f].id # None =>
                            /\ devices'[form[f].id] # None
                            /\ form[f].indicator <= rows'[form[f].id]
                            /\ form[f].id \notin overtaken' => form[f].indicator = rows'[form[f].id]
      BY <1>1 DEF FormsInv, Exists
  <2>1. /\ form[f].id \in Ids \cup {None} /\ form[f].indicator \in 0..MaxRows
      BY FormType
  <2>2. CASE form[f].id = p.id
    <3>1. FormOn(p.id) /\ p.id \in overtaken' /\ form[f].id # None
        BY <1>1, <2>2, NoneAssumption DEF FormOn
    <3>. QED
        BY <1>2, <1>6, <2>1, <2>2, <3>1 DEF FormsInv
  <2>3. CASE form[f].id # p.id
    <3>1. overtaken \subseteq overtaken'
        BY <1>1
    <3>. QED
        BY <1>2, <1>6, <2>1, <2>3, <3>1 DEF FormsInv
  <2>. QED
      BY <2>2, <2>3
<1>9. BoardsInv'
  <2> SUFFICES ASSUME NEW c \in Boards
               PROVE  /\ \A k \in known[c] : devices'[k] # None
                      /\ posting'[c] # None =>
                            /\ devices'[posting'[c].id] # None
                            /\ posting'[c].moves \subseteq {posting'[c].id}
      BY <1>1 DEF BoardsInv, Exists
  <2>1. \A k \in known[c] : k \in Ids /\ Exists(k)
      BY DEF BoardsInv, TypeOK
  <2>2. posting'[c] # None => posting'[c] = posting[c] /\ posting[c].id \in Ids
      BY <1>1 DEF TypeOK, Post
  <2>. QED
      BY <1>6, <2>1, <2>2 DEF BoardsInv
<1>10. RowsInv'
    BY <1>1, <1>2, <1>6 DEF RowsInv, Exists
<1>11. NeverAhead' /\ AgreesUnlessOvertaken'
  <2> SUFFICES ASSUME NEW j \in Ids, devices'[j] # None
               PROVE  /\ devices'[j].indicator <= rows'[j]
                      /\ j \notin overtaken' => devices'[j].indicator = rows'[j]
      BY DEF NeverAhead, AgreesUnlessOvertaken, Exists
  <2>1. overtaken \subseteq overtaken' /\ (p.moves = {} => p.id \in overtaken')
      BY <1>1
  <2>2. CASE j = p.id
    <3>1. devices[j].indicator \in Nat /\ rows[j] \in Nat
        BY <1>2, <1>3, <2>2, MaxRowsAssumption DEF Device
    <3>2. j \notin overtaken => devices[j].indicator = rows[j]
        BY <1>1, <2>2 DEF AgreesUnlessOvertaken
    <3>3. devices[j].indicator <= rows[j] /\ rows'[j] = rows[j] + 1
        BY <1>2, <1>3, <2>2
    <3>4. CASE devices'[p.id] = Moved(p.id)
      <4>1. devices'[j].indicator = devices[j].indicator + 1
          BY <1>4, <2>2, <3>4
      <4>. HIDE DEF p
      <4>. QED
          BY <2>1, <3>1, <3>2, <3>3, <4>1
    <3>5. CASE p.moves = {} /\ devices'[p.id] = devices[p.id]
      <4>1. devices'[j].indicator = devices[j].indicator /\ j \in overtaken'
          BY <2>1, <2>2, <3>5
      <4>. HIDE DEF p
      <4>. QED
          BY <3>1, <3>3, <4>1
    <3>. QED
        BY <1>5, <3>4, <3>5
  <2>3. CASE j # p.id
      BY <1>2, <1>6, <2>1, <2>3 DEF NeverAhead, AgreesUnlessOvertaken
  <2>. QED
      BY <2>2, <2>3
<1>12. OneDevicePerContact'
    BY <1>6 DEF OneDevicePerContact, Exists
<1>. QED
    BY <1>7, <1>8, <1>9, <1>10, <1>11, <1>12

-----------------------------------------------------------------------------
\* The invariant is inductive.
LEMMA AdminNext == AdminInv /\ [Next]_vars => AdminInv'
<1> SUFFICES ASSUME AdminInv, [Next]_vars PROVE AdminInv'
    OBVIOUS
<1>1. ASSUME NEW f \in Forms, NEW i \in Ids, LoadDevice(f, i) PROVE AdminInv'
    BY <1>1, OpenKeeps
<1>2. ASSUME NEW f \in Forms,
             \/ NewDevice(f) \/ CloseForm(f)
             \/ \E mac \in Boards, pin \in Pins, state \in BOOLEAN : CheckContact(f, mac, pin, state)
      PROVE  AdminInv'
    BY <1>2, FormStepKeeps
<1>3. ASSUME NEW f \in Forms, WriteDevice(f) PROVE AdminInv'
    BY <1>3, SaveKeeps
<1>4. ASSUME NEW b \in Boards, Login(b) \/ \E i \in Ids : FindDevice(b, i) PROVE AdminInv'
    BY <1>4, LoginKeeps
<1>5. ASSUME NEW b \in Boards, AddChange(b) PROVE AdminInv'
    BY <1>5, RowKeeps
<1>6. CASE UNCHANGED vars
    BY <1>6 DEF vars, AdminInv, TypeOK, FormsInv, BoardsInv, RowsInv, NeverAhead,
       AgreesUnlessOvertaken, OneDevicePerContact, Exists
<1>. QED
    BY <1>1, <1>2, <1>3, <1>4, <1>5, <1>6 DEF Next

\* The inductive invariant holds in every state.
THEOREM AdminInvariant == Spec => []AdminInv
    BY AdminInit, AdminNext, PTL DEF Spec

\* Every variable of DeviceAdmin keeps its type.
THEOREM AdminTypes == Spec => []TypeOK
    BY AdminInvariant, PTL DEF AdminInv

\* However saves and rows interleave, and whatever a board believes of its
\* devices, no indicator runs ahead of the rows.
THEOREM IndicatorNeverAhead == Spec => []NeverAhead
    BY AdminInvariant, PTL DEF AdminInv

\* A device whose rows overtook no form and no board has the indicator that
\* its rows give.
THEOREM IndicatorAgrees == Spec => []AgreesUnlessOvertaken
    BY AdminInvariant, PTL DEF AdminInv

\* Concurrent saves never give a contact to two devices.
THEOREM ContactsAreUnique == Spec => []OneDevicePerContact
    BY AdminInvariant, PTL DEF AdminInv
=============================================================================
