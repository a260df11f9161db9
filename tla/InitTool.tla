------------------------------ MODULE InitTool ------------------------------
(***************************************************************************)
(* The tool on the PC that sets a board up over Bluetooth                  *)
(* (borad/python_init/init_params.py), together with the board.  Its       *)
(* handlers are coroutines of one event loop: a handler runs alone up to   *)
(* its next await, and nothing keeps the user from clicking meanwhile.     *)
(***************************************************************************)
EXTENDS BoardSettings

CONSTANT Forms    \* what the user may have typed when clicking "save"

ASSUME FormsAssumption == Forms \subseteq Contents

VARIABLES
    link,        \* the BLE connection is up
    client,      \* self.client is not None
    status,      \* what update_status was called with last
    connecting,  \* the connect handler: 0 ended, else the setting it reads
    leaving,     \* the disconnect handler awaits client.disconnect()
    value,       \* Characteristics[...]['value'], shared by all handlers
    saver,       \* each save handler: 0 ended, else the setting it writes
    request,     \* the write it awaits
    data,        \* and what is written
    clicked,     \* history: of each save handler, its form, those clicked since,
                 \* and those of the saves it began beside; {} when it has ended
    saved        \* history: these forms of the last save that was announced;
                 \* {} after a click

toolVars == <<client, status, connecting, leaving, value>>
history == <<clicked, saved>>
writeVars == <<saver, request, data>>
vars == <<boardVars, link, toolVars, writeVars, history>>

Init ==
    /\ BoardInit
    /\ link = FALSE
    /\ client = FALSE
    /\ status = FALSE
    /\ connecting = 0
    /\ leaving = FALSE
    /\ value = [s \in Settings |-> Empty]
    /\ saver = [i \in Savers |-> 0]
    /\ request = [i \in Savers |-> "none"]
    /\ data = [i \in Savers |-> Empty]
    /\ clicked = [i \in Savers |-> {}]
    /\ saved = {}

Idle == \A i \in Savers : saver[i] = 0

\* A link that breaks takes the writes along; one that the board has already
\* received is carried out, but its answer is lost.
Break ==
    /\ link' = FALSE
    /\ request' = [i \in Savers |->
         IF request[i] \in {"sent", "received"} THEN "lost" ELSE request[i]]
    /\ UNCHANGED <<saver, data>>

-----------------------------------------------------------------------------
(* on_connect_clicked and connect_and_read.                                *)

\* The scan takes half a minute: the handlers that the old link left behind
\* have ended by then.
Connect ==
    /\ ~status /\ connecting = 0 /\ ~link
    /\ Idle
    /\ connecting' = 1
    /\ client' = TRUE
    /\ link' = TRUE
    /\ UNCHANGED <<boardVars, status, leaving, value, writeVars, history>>

ReadCharacteristic ==
    /\ connecting \in DOMAIN Order
    /\ link
    /\ value' = [value EXCEPT ![Order[connecting]] = gatt[Order[connecting]]]
    /\ connecting' = (connecting + 1) % (Len(Order) + 1)
    /\ status' = (connecting' = 0)
    /\ UNCHANGED <<boardVars, link, client, leaving, writeVars, history>>

\* A read fails, and sooner or later the link is gone too.
ConnectFails ==
    /\ connecting # 0
    /\ connecting' = 0
    /\ status' = FALSE
    /\ Break
    /\ UNCHANGED <<boardVars, client, leaving, value, history>>

-----------------------------------------------------------------------------
(* on_disconnect_clicked.                                                  *)

Disconnect ==
    /\ status /\ ~leaving
    /\ leaving' = TRUE
    /\ Break
    /\ UNCHANGED <<boardVars, client, status, connecting, value, history>>

Disconnected ==
    /\ leaving
    /\ leaving' = FALSE
    /\ client' = FALSE
    /\ status' = FALSE
    /\ UNCHANGED <<boardVars, link, connecting, value, writeVars, history>>

-----------------------------------------------------------------------------
(* on_save_clicked and ble_write.                                          *)

Await(i, k, content) ==
    /\ saver' = [saver EXCEPT ![i] = k]
    /\ request' = [request EXCEPT ![i] = "sent"]
    /\ data' = [data EXCEPT ![i] = content]

\* Every save under way takes note of a click; a new one begins with what all
\* of them have noted.
NoteClick(form) ==
    /\ clicked' = [j \in Savers |->
         CASE saver'[j] = 0 -> {}
           [] saver'[j] # 0 /\ saver[j] = 0 -> {form} \cup UNION {clicked[k] : k \in Savers}
           [] OTHER -> {form} \cup clicked[j]]
    /\ saved' = {}

\* The fields are copied into value before they are checked, and the button
\* stays enabled while another save is under way.
ClickSave(i, form) ==
    /\ status
    /\ saver[i] = 0
    /\ value' = form
    /\ IF client /\ link /\ \A s \in Settings : form[s] # Empty
       THEN Await(i, 1, form[Order[1]])
       ELSE UNCHANGED writeVars
    /\ NoteClick(form)
    /\ UNCHANGED <<boardVars, link, client, status, connecting, leaving>>

\* The board receives a write.
Receive(i) ==
    /\ request[i] = "sent"
    /\ link
    /\ WriteArrives(i, Order[saver[i]], data[i])
    /\ request' = [request EXCEPT ![i] = "received"]
    /\ UNCHANGED <<link, toolVars, saver, data, history>>

\* The board has carried it out and answers, if the link is still there.
Answer ==
    /\ SetPreference
    /\ request' = [i \in Savers |->
         IF i = writing.by /\ request[i] = "received" THEN "answered" ELSE request[i]]
    /\ UNCHANGED <<link, toolVars, saver, data, history>>

EndSave(i, success) ==
    /\ saver' = [saver EXCEPT ![i] = 0]
    /\ request' = [request EXCEPT ![i] = "none"]
    /\ data' = [data EXCEPT ![i] = Empty]
    /\ clicked' = [clicked EXCEPT ![i] = {}]
    /\ saved' = IF success THEN clicked[i] ELSE saved

\* ble_write goes on to the next characteristic, or returns True.  Without a
\* client it raises an AttributeError that nobody catches; without a link
\* write_gatt_char raises a BleakError and it returns False.
NextWrite(i) ==
    IF saver[i] = Len(Order)
    THEN EndSave(i, TRUE)
    ELSE IF client /\ link
    THEN /\ Await(i, saver[i] + 1, value[Order[saver[i] + 1]])
         /\ UNCHANGED history
    ELSE EndSave(i, FALSE)

WriteAnswered(i) ==
    /\ request[i] = "answered"
    /\ NextWrite(i)
    /\ UNCHANGED <<boardVars, link, toolVars>>

\* Mutant of WriteFails: the error is printed and the loop goes on.
WriteFailsOn(i) ==
    /\ saver[i] # 0
    /\ request[i] \in {"sent", "lost"}
    /\ NextWrite(i)
    /\ UNCHANGED <<boardVars, link, toolVars>>

\* write_gatt_char raises a BleakError: the link is gone, or the stack of the
\* PC refuses the write (another one is under way, for instance).
WriteFails(i) ==
    /\ saver[i] # 0
    /\ request[i] \in {"sent", "lost"}
    /\ EndSave(i, FALSE)
    /\ UNCHANGED <<boardVars, link, toolVars>>

-----------------------------------------------------------------------------
(* The board and its surroundings.                                         *)

BoardWorks == SetValue /\ UNCHANGED <<link, toolVars, writeVars, history>>

OpenSession ==
    /\ session.next = 0
    /\ SessionBegins
    /\ UNCHANGED <<link, toolVars, writeVars, history>>

UseSettings == SessionReads /\ UNCHANGED <<link, toolVars, writeVars, history>>

PowerLoss ==
    /\ BoardBoots
    /\ Break
    /\ UNCHANGED <<toolVars, history>>

LinkBreaks ==
    /\ link
    /\ Break
    /\ UNCHANGED <<boardVars, toolVars, history>>

Save(i) == Receive(i) \/ WriteAnswered(i) \/ WriteFails(i)

Board == BoardWorks \/ Answer \/ OpenSession \/ UseSettings

Next ==
    \/ Connect \/ ReadCharacteristic \/ ConnectFails
    \/ Disconnect \/ Disconnected
    \/ \E i \in Savers : (\E form \in Forms : ClickSave(i, form)) \/ Save(i)
    \/ Board
    \/ PowerLoss \/ LinkBreaks

Spec == Init /\ [][Next]_vars

-----------------------------------------------------------------------------
\* Every variable keeps its type.
TypeOK ==
    /\ BoardTypeOK
    /\ link \in BOOLEAN /\ client \in BOOLEAN /\ status \in BOOLEAN
    /\ connecting \in 0..Len(Order)
    /\ leaving \in BOOLEAN
    /\ value \in Contents
    /\ saver \in [Savers -> 0..Len(Order)]
    /\ request \in [Savers -> {"none", "sent", "received", "answered", "lost"}]
    /\ data \in [Savers -> Values \cup {Empty}]
    /\ clicked \in [Savers -> SUBSET Contents]
    /\ saved \subseteq Contents

\* The three copies of a setting agree whenever no write is being carried out,
\* after a loss of power in the middle of one too: what the tool reads back is
\* what the board uses now and after the next restart.
CopiesAgree ==
    \A s \in Settings :
        writing = NoWrite \/ writing.setting # s => ram[s] = flash[s] /\ gatt[s] = flash[s]

\* What is in the flash of the board after "Параметры сохранены", until the
\* next click, is what was typed: each setting comes from the form of that save,
\* from one that was clicked before it ended, or from a save beside which it
\* began; from its own form alone when there was no other click.  So no error,
\* disconnect or restart after the first characteristic ends in that message
\* with an old content in place.  It may be a mixture, and even have an empty
\* field that the tool had refused: all handlers share Characteristics and copy
\* the fields before they check them (init_params.py:472, 485, 558).
SavedMeansStored ==
    saved # {} => \A s \in Settings : flash[s] \in {form[s] : form \in saved}

\* SenderTask reads the settings one by one without a lock (web_wifi.cpp,
\* rest_api.cpp), while saves come and go: a write that overlaps with a session
\* spoils the setting that it writes, and no other; the rest of what the
\* session uses is what is in flash.
SessionUsesSaved ==
    \A s \in Settings \ session.touched : session.read[s] \in {"unread", flash[s]}
=============================================================================
