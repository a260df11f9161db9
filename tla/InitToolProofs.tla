--------------------------- MODULE InitToolProofs ---------------------------
(***************************************************************************)
(* Proofs about InitTool and the settings of the board, for every set of   *)
(* contents, every form and any number of saves under way.                 *)
(***************************************************************************)
EXTENDS InitTool, TLAPS

LEMMA OrderFacts ==
    /\ Len(Order) = 3 /\ DOMAIN Order = 1..3
    /\ Order[1] = "WIFI_SSID" /\ Order[2] = "WIFI_PASSWORD" /\ Order[3] = "SERVER_NAME"
    /\ \A k \in 1..3 : Order[k] \in Settings
    /\ \A j, k \in 1..3 : Order[j] = Order[k] => j = k
    /\ \A s \in Settings : \E k \in 1..3 : Order[k] = s
    BY DEF Order, Settings

LEMMA NextInOrder == \A k \in 1..3 : (k + 1) % (Len(Order) + 1) \in 0..3
<1>1. Len(Order) + 1 = 4
    BY OrderFacts
<1>. QED
    BY <1>1

-----------------------------------------------------------------------------
(* Types.                                                                  *)

LEMMA TypeInit == Init => TypeOK
<1> SUFFICES ASSUME Init PROVE TypeOK
    OBVIOUS
<1>1. BoardTypeOK
  <2>1. ram \in [Settings -> Values \cup {Empty, Torn}] /\ flash \in Contents /\ gatt \in Contents
      BY FactoryAssumption DEF Init, BoardInit, Contents
  <2>2. writing \in [by : Savers \cup {"nobody"}, step : {"none", "setValue", "setPreference"},
                     setting : Settings, content : Values \cup {Empty}]
      BY DEF Init, BoardInit, NoWrite, Settings
  <2>3. session \in [next : 0..Len(Order), touched : SUBSET Settings,
                     read : [Settings -> Values \cup {Empty, Torn, "unread"}]]
      BY OrderFacts DEF Init, BoardInit, NoSession, NotRead
  <2>. QED
      BY <2>1, <2>2, <2>3 DEF BoardTypeOK
<1>2. connecting \in 0..Len(Order) /\ saver \in [Savers -> 0..Len(Order)]
    BY OrderFacts DEF Init
<1>3. value \in Contents /\ clicked \in [Savers -> SUBSET Contents] /\ saved \subseteq Contents
    BY DEF Init, Contents
<1>. QED
    BY <1>1, <1>2, <1>3 DEF Init, TypeOK

\* A click writes to one saver, or to none.
LEMMA AwaitTypes ==
    ASSUME TypeOK, NEW i \in Savers, NEW k \in 1..3, NEW c \in Values \cup {Empty}, Await(i, k, c)
    PROVE  /\ saver' \in [Savers -> 0..Len(Order)]
           /\ request' \in [Savers -> {"none", "sent", "received", "answered", "lost"}]
           /\ data' \in [Savers -> Values \cup {Empty}]
<1>1. k \in 0..Len(Order)
    BY OrderFacts
<1>. QED
    BY <1>1 DEF TypeOK, Await

LEMMA BreakTypes ==
    ASSUME TypeOK, Break
    PROVE  /\ link' \in BOOLEAN
           /\ saver' \in [Savers -> 0..Len(Order)]
           /\ request' \in [Savers -> {"none", "sent", "received", "answered", "lost"}]
           /\ data' \in [Savers -> Values \cup {Empty}]
    BY DEF TypeOK, Break

LEMMA EndSaveTypes ==
    ASSUME TypeOK, NEW i \in Savers, NEW ok \in BOOLEAN, EndSave(i, ok)
    PROVE  /\ saver' \in [Savers -> 0..Len(Order)]
           /\ request' \in [Savers -> {"none", "sent", "received", "answered", "lost"}]
           /\ data' \in [Savers -> Values \cup {Empty}]
           /\ clicked' \in [Savers -> SUBSET Contents] /\ saved' \subseteq Contents
<1>1. 0 \in 0..Len(Order)
    BY OrderFacts
<1>3. clicked' \in [Savers -> SUBSET Contents] /\ saved' \subseteq Contents
    BY DEF TypeOK, EndSave
<1>. QED
    BY <1>1, <1>3 DEF TypeOK, EndSave

\* What a save has noted after a click.
LEMMA ClickedAfter ==
    ASSUME TypeOK, NEW form \in Contents, NoteClick(form)
    PROVE  /\ clicked' \in [Savers -> SUBSET Contents]
           /\ \A j \in Savers : saver'[j] # 0 =>
                /\ form \in clicked'[j]
                /\ saver[j] # 0 => clicked'[j] = {form} \cup clicked[j]
                /\ saver[j] = 0 => \A k \in Savers : clicked[k] \subseteq clicked'[j]
<1>. DEFINE noted(j) == CASE saver'[j] = 0 -> {}
                          [] saver'[j] # 0 /\ saver[j] = 0 -> {form} \cup UNION {clicked[k] : k \in Savers}
                          [] OTHER -> {form} \cup clicked[j]
<1>1. clicked' = [j \in Savers |-> noted(j)]
    BY DEF NoteClick
<1>2. ASSUME NEW j \in Savers
      PROVE  /\ noted(j) \subseteq Contents
             /\ saver'[j] # 0 =>
                  /\ form \in noted(j)
                  /\ saver[j] # 0 => noted(j) = {form} \cup clicked[j]
                  /\ saver[j] = 0 => \A k \in Savers : clicked[k] \subseteq noted(j)
  <2>1. /\ saver'[j] = 0 => noted(j) = {}
        /\ saver'[j] # 0 /\ saver[j] = 0 => noted(j) = {form} \cup UNION {clicked[k] : k \in Savers}
        /\ saver'[j] # 0 /\ saver[j] # 0 => noted(j) = {form} \cup clicked[j]
      OBVIOUS
  <2>2. \A k \in Savers : clicked[k] \subseteq Contents
      BY DEF TypeOK
  <2>. HIDE DEF noted
  <2>. QED
      BY <2>1, <2>2
<1>. HIDE DEF noted
<1>. QED
    BY <1>1, <1>2

\* A save handler that has ended awaits nothing, and one that runs does.
Pending == \A i \in Savers : saver[i] = 0 <=> request[i] = "none"

TypeInv == TypeOK /\ Pending

LEMMA TypeNext == TypeInv /\ [Next]_vars => TypeOK'
<1> SUFFICES ASSUME TypeInv, [Next]_vars PROVE TypeOK'
    OBVIOUS
<1>. TypeOK /\ Pending
    BY DEF TypeInv
<1>0. DOMAIN Order = 1..3 /\ Len(Order) = 3 /\ \A k \in 1..3 : Order[k] \in Settings
    BY OrderFacts
<1>1. CASE Connect
    BY <1>0, <1>1 DEF Connect, TypeOK, BoardTypeOK, boardVars, writeVars, history
<1>2. CASE ReadCharacteristic
  <2>1. connecting' \in 0..Len(Order) /\ status' \in BOOLEAN
      BY <1>0, <1>2, NextInOrder DEF ReadCharacteristic
  <2>2. value' \in Contents
      BY <1>0, <1>2 DEF ReadCharacteristic, TypeOK, BoardTypeOK, Contents
  <2>. QED
      BY <1>2, <2>1, <2>2 DEF ReadCharacteristic, TypeOK, BoardTypeOK, boardVars, writeVars, history
<1>3. CASE ConnectFails
  <2>1. 0 \in 0..Len(Order)
      BY <1>0
  <2>2. connecting' = 0 /\ status' = FALSE
      BY <1>3 DEF ConnectFails
  <2>3. status' \in BOOLEAN
      BY <2>2
  <2>. QED
      BY <1>3, <2>1, <2>2, <2>3, BreakTypes DEF ConnectFails, TypeOK, BoardTypeOK, boardVars, history
<1>4. CASE Disconnect
    BY <1>4, BreakTypes DEF Disconnect, TypeOK, BoardTypeOK, boardVars, history
<1>5. CASE Disconnected
    BY <1>5 DEF Disconnected, TypeOK, BoardTypeOK, boardVars, writeVars, history
<1>6. ASSUME NEW i \in Savers, NEW form \in Forms, ClickSave(i, form) PROVE TypeOK'
  <2>1. form \in Contents /\ form[Order[1]] \in Values \cup {Empty}
      BY <1>0, FormsAssumption DEF Contents
  <2>2. /\ saver' \in [Savers -> 0..Len(Order)]
        /\ request' \in [Savers -> {"none", "sent", "received", "answered", "lost"}]
        /\ data' \in [Savers -> Values \cup {Empty}]
      BY <1>6, <2>1, AwaitTypes DEF ClickSave, TypeOK, writeVars
  <2>3. clicked' \in [Savers -> SUBSET Contents]
      BY <1>6, <2>1, ClickedAfter DEF ClickSave
  <2>4. saved' = {} /\ value' \in Contents
      BY <1>6, <2>1 DEF ClickSave, NoteClick
  <2>. QED
      BY <1>6, <2>2, <2>3, <2>4 DEF ClickSave, TypeOK, BoardTypeOK, boardVars
<1>7. ASSUME NEW i \in Savers, Receive(i) PROVE TypeOK'
  <2>1. saver[i] \in 1..3
      BY <1>0, <1>7 DEF Receive, TypeOK, Pending
  <2>2. Order[saver[i]] \in Settings /\ data[i] \in Values \cup {Empty}
      BY <1>0, <2>1 DEF TypeOK
  <2>3. session' \in [next : 0..Len(Order), touched : SUBSET Settings,
                      read : [Settings -> Values \cup {Empty, Torn, "unread"}]]
      BY <1>7, <2>2 DEF Receive, WriteArrives, TypeOK, BoardTypeOK
  <2>. QED
      BY <1>7, <2>2, <2>3 DEF Receive, WriteArrives, TypeOK, BoardTypeOK, toolVars, history, Contents
<1>8. CASE BoardWorks
    BY <1>8 DEF BoardWorks, SetValue, TypeOK, BoardTypeOK, toolVars, writeVars, history, Contents
<1>9. CASE Answer
    BY <1>9 DEF Answer, SetPreference, TypeOK, BoardTypeOK, toolVars, history, Contents, NoWrite, Settings
<1>10. ASSUME NEW i \in Savers, WriteAnswered(i) PROVE TypeOK'
  <2>1. saver[i] \in 1..3
      BY <1>0, <1>10 DEF WriteAnswered, TypeOK, Pending
  <2>2. CASE saver[i] = 3
      BY <1>0, <1>10, <2>2, EndSaveTypes
         DEF WriteAnswered, NextWrite, TypeOK, BoardTypeOK, boardVars, toolVars
  <2>3. CASE saver[i] # 3
    <3>1. saver[i] + 1 \in 1..3 /\ value[Order[saver[i] + 1]] \in Values \cup {Empty}
        BY <1>0, <2>1, <2>3 DEF TypeOK, Contents
    <3>2. \/ Await(i, saver[i] + 1, value[Order[saver[i] + 1]]) /\ UNCHANGED history
          \/ EndSave(i, FALSE)
        BY <1>0, <1>10, <2>3 DEF WriteAnswered, NextWrite
    <3>3. /\ saver' \in [Savers -> 0..Len(Order)]
          /\ request' \in [Savers -> {"none", "sent", "received", "answered", "lost"}]
          /\ data' \in [Savers -> Values \cup {Empty}]
          /\ clicked' \in [Savers -> SUBSET Contents] /\ saved' \subseteq Contents
      <4>1. CASE EndSave(i, FALSE)
          BY <4>1, EndSaveTypes
      <4>2. CASE Await(i, saver[i] + 1, value[Order[saver[i] + 1]]) /\ UNCHANGED history
          BY <3>1, <4>2, AwaitTypes DEF TypeOK, history
      <4>. QED
          BY <3>2, <4>1, <4>2
    <3>. QED
        BY <1>10, <3>3 DEF WriteAnswered, TypeOK, BoardTypeOK, boardVars, toolVars
  <2>. QED
      BY <2>2, <2>3
<1>11. ASSUME NEW i \in Savers, WriteFails(i) PROVE TypeOK'
    BY <1>11, EndSaveTypes DEF WriteFails, TypeOK, BoardTypeOK, boardVars, toolVars
<1>12. CASE OpenSession
  <2>1. session' \in [next : 0..Len(Order), touched : SUBSET Settings,
                      read : [Settings -> Values \cup {Empty, Torn, "unread"}]]
    <3>1. NotRead \in [Settings -> Values \cup {Empty, Torn, "unread"}]
        BY DEF NotRead
    <3>2. writing.setting \in Settings
        BY DEF TypeOK, BoardTypeOK
    <3>. QED
        BY <1>0, <1>12, <3>1, <3>2 DEF OpenSession, SessionBegins
  <2>. QED
      BY <1>12, <2>1 DEF OpenSession, SessionBegins, TypeOK, BoardTypeOK, toolVars, writeVars, history
<1>13. CASE UseSettings
  <2>1. session.next \in 1..3 /\ Order[session.next] \in Settings
      BY <1>0, <1>13 DEF UseSettings, SessionReads
  <2>2. (session.next + 1) % (Len(Order) + 1) \in 0..Len(Order)
      BY <1>0, <2>1, NextInOrder
  <2>3. (IF Order[session.next] \in session.touched
         THEN session.read[Order[session.next]] ELSE ram[Order[session.next]])
            \in Values \cup {Empty, Torn, "unread"}
      BY <2>1 DEF TypeOK, BoardTypeOK
  <2>4. session' \in [next : 0..Len(Order), touched : SUBSET Settings,
                      read : [Settings -> Values \cup {Empty, Torn, "unread"}]]
      BY <1>13, <2>2, <2>3 DEF UseSettings, SessionReads, TypeOK, BoardTypeOK
  <2>. QED
      BY <1>13, <2>4 DEF UseSettings, SessionReads, TypeOK, BoardTypeOK, toolVars, writeVars, history
<1>14. CASE PowerLoss
  <2>1. session' \in [next : 0..Len(Order), touched : SUBSET Settings,
                      read : [Settings -> Values \cup {Empty, Torn, "unread"}]]
      BY <1>0, <1>14 DEF PowerLoss, BoardBoots, NoSession, NotRead
  <2>2. writing' \in [by : Savers \cup {"nobody"}, step : {"none", "setValue", "setPreference"},
                      setting : Settings, content : Values \cup {Empty}]
      BY <1>14 DEF PowerLoss, BoardBoots, NoWrite, Settings
  <2>. QED
      BY <1>14, <2>1, <2>2, BreakTypes
         DEF PowerLoss, BoardBoots, TypeOK, BoardTypeOK, toolVars, history, Contents
<1>15. CASE LinkBreaks
    BY <1>15, BreakTypes DEF LinkBreaks, TypeOK, BoardTypeOK, boardVars, toolVars, history
<1>16. CASE UNCHANGED vars
    BY <1>16 DEF vars, boardVars, toolVars, writeVars, history, TypeOK, BoardTypeOK
<1>. QED
    BY <1>1, <1>2, <1>3, <1>4, <1>5, <1>6, <1>7, <1>8, <1>9, <1>10, <1>11, <1>12, <1>13,
       <1>14, <1>15, <1>16 DEF Next, Save, Board

LEMMA PendingNext == TypeInv /\ [Next]_vars => Pending'
<1> SUFFICES ASSUME TypeInv, [Next]_vars PROVE Pending'
    OBVIOUS
<1>. TypeOK /\ Pending
    BY DEF TypeInv
<1>1. CASE UNCHANGED writeVars
    BY <1>1 DEF writeVars, Pending
<1>2. CASE Break
    BY <1>2 DEF Break, Pending, TypeOK
<1>3. ASSUME NEW i \in Savers, NEW k \in 1..3, NEW c, Await(i, k, c) PROVE Pending'
    BY <1>3 DEF Await, Pending, TypeOK
<1>4. ASSUME NEW i \in Savers, NEW ok \in BOOLEAN, EndSave(i, ok) PROVE Pending'
    BY <1>4 DEF EndSave, Pending, TypeOK
<1>5. CASE Connect \/ ReadCharacteristic \/ Disconnected \/ BoardWorks \/ OpenSession \/ UseSettings
    BY <1>1, <1>5 DEF Connect, ReadCharacteristic, Disconnected, BoardWorks, OpenSession, UseSettings
<1>6. CASE ConnectFails \/ Disconnect \/ PowerLoss \/ LinkBreaks
    BY <1>2, <1>6 DEF ConnectFails, Disconnect, PowerLoss, LinkBreaks
<1>7. ASSUME NEW i \in Savers, NEW form \in Forms, ClickSave(i, form) PROVE Pending'
    BY <1>1, <1>3, <1>7 DEF ClickSave
<1>8. ASSUME NEW i \in Savers, Receive(i) PROVE Pending'
    BY <1>8 DEF Receive, Pending, TypeOK
<1>9. CASE Answer
    BY <1>9 DEF Answer, Pending, TypeOK
<1>10. ASSUME NEW i \in Savers, WriteAnswered(i) PROVE Pending'
  <2>1. saver[i] \in 1..3 /\ Len(Order) = 3
      BY <1>10, OrderFacts DEF WriteAnswered, TypeOK, Pending
  <2>2. saver[i] # 3 => saver[i] + 1 \in 1..3
      BY <2>1
  <2>. QED
      BY <1>3, <1>4, <1>10, <2>1, <2>2 DEF WriteAnswered, NextWrite
<1>11. ASSUME NEW i \in Savers, WriteFails(i) PROVE Pending'
    BY <1>4, <1>11 DEF WriteFails
<1>12. CASE UNCHANGED vars
    BY <1>1, <1>12 DEF vars
<1>. QED
    BY <1>5, <1>6, <1>7, <1>8, <1>9, <1>10, <1>11, <1>12 DEF Next, Save, Board

\* Every variable of the tool and of the board keeps its type.
THEOREM ToolTypes == Spec => []TypeOK
<1>1. Init => TypeInv
    BY TypeInit DEF TypeInv, Pending, Init
<1>2. TypeInv /\ [Next]_vars => TypeInv'
    BY TypeNext, PendingNext DEF TypeInv
<1>3. TypeInv => TypeOK
    BY DEF TypeInv
<1>. QED
    BY <1>1, <1>2, <1>3, PTL DEF Spec

-----------------------------------------------------------------------------
(* The three copies of a setting.                                          *)

\* A write in progress has put its content into the characteristic, and into
\* the global when the assignment is over.
HalfWritten ==
    /\ writing.step = "none" <=> writing = NoWrite
    /\ writing # NoWrite => gatt[writing.setting] = writing.content
    /\ writing.step = "setPreference" => ram[writing.setting] = writing.content

CopiesInv == TypeInv /\ HalfWritten /\ CopiesAgree

\* The setting that the board is told to write.
LEMMA ReceivedSetting ==
    ASSUME TypeInv, NEW i \in Savers, Receive(i)
    PROVE  saver[i] \in 1..3 /\ Order[saver[i]] \in Settings
<1>1. saver[i] \in 1..3
    BY OrderFacts DEF Receive, TypeInv, TypeOK, Pending
<1>. QED
    BY <1>1, OrderFacts

LEMMA CopiesNext ==
    ASSUME CopiesInv, [Next]_vars
    PROVE  HalfWritten' /\ CopiesAgree'
<1>. TypeOK /\ BoardTypeOK /\ HalfWritten /\ CopiesAgree /\ TypeInv
    BY DEF CopiesInv, TypeInv, TypeOK
<1>0. NoWrite.step = "none" /\ writing.setting \in Settings
    BY DEF NoWrite, BoardTypeOK
<1>1. CASE UNCHANGED <<ram, flash, gatt, writing>>
    BY <1>1 DEF HalfWritten, CopiesAgree
<1>2. ASSUME NEW i \in Savers, Receive(i) PROVE HalfWritten' /\ CopiesAgree'
  <2>1. /\ writing = NoWrite /\ flash' = flash
        /\ gatt' = [gatt EXCEPT ![Order[saver[i]]] = data[i]]
        /\ ram' = [ram EXCEPT ![Order[saver[i]]] = Torn]
        /\ writing' = [by |-> i, step |-> "setValue",
                       setting |-> Order[saver[i]], content |-> data[i]]
      BY <1>2 DEF Receive, WriteArrives
  <2>2. writing' # NoWrite /\ writing'.step = "setValue"
      BY <1>0, <2>1
  <2>3. HalfWritten'
      BY <1>2, <2>1, <2>2, ReceivedSetting DEF HalfWritten, BoardTypeOK, Contents
  <2>4. CopiesAgree'
      BY <1>2, <2>1, <2>2, ReceivedSetting DEF CopiesAgree, BoardTypeOK, Contents
  <2>. QED
      BY <2>3, <2>4
<1>3. CASE BoardWorks
  <2>1. /\ writing.step = "setValue"
        /\ flash' = flash /\ gatt' = gatt
        /\ ram' = [ram EXCEPT ![writing.setting] = writing.content]
        /\ writing' = [writing EXCEPT !.step = "setPreference"]
      BY <1>3 DEF BoardWorks, SetValue
  <2>2. /\ writing # NoWrite /\ writing' # NoWrite
        /\ writing'.step = "setPreference"
        /\ writing'.setting = writing.setting /\ writing'.content = writing.content
      BY <1>0, <2>1 DEF BoardTypeOK
  <2>3. ram'[writing.setting] = writing.content /\ \A s \in Settings : s # writing.setting => ram'[s] = ram[s]
      BY <1>0, <2>1 DEF BoardTypeOK
  <2>. QED
      BY <2>1, <2>2, <2>3 DEF HalfWritten, CopiesAgree
<1>4. CASE Answer
  <2>1. /\ writing.step = "setPreference"
        /\ ram' = ram /\ gatt' = gatt /\ writing' = NoWrite
        /\ flash' = [flash EXCEPT ![writing.setting] = writing.content]
      BY <1>4 DEF Answer, SetPreference
  <2>2. writing # NoWrite
      BY <1>0, <2>1
  <2>3. flash'[writing.setting] = writing.content
        /\ \A s \in Settings : s # writing.setting => flash'[s] = flash[s]
      BY <1>0, <2>1 DEF BoardTypeOK, Contents
  <2>. QED
      BY <1>0, <2>1, <2>2, <2>3 DEF HalfWritten, CopiesAgree
<1>5. CASE PowerLoss
  <2>1. ram' = flash /\ gatt' = flash /\ flash' = flash /\ writing' = NoWrite
      BY <1>5 DEF PowerLoss, BoardBoots
  <2>. QED
      BY <1>0, <2>1 DEF HalfWritten, CopiesAgree
<1>6. CASE Connect \/ ReadCharacteristic \/ ConnectFails \/ Disconnect \/ Disconnected \/ LinkBreaks
    BY <1>1, <1>6 DEF Connect, ReadCharacteristic, ConnectFails, Disconnect, Disconnected,
                      LinkBreaks, boardVars
<1>7. ASSUME NEW i \in Savers, NEW form \in Forms, ClickSave(i, form)
      PROVE  HalfWritten' /\ CopiesAgree'
    BY <1>1, <1>7 DEF ClickSave, boardVars
<1>8. ASSUME NEW i \in Savers, WriteAnswered(i) \/ WriteFails(i)
      PROVE  HalfWritten' /\ CopiesAgree'
    BY <1>1, <1>8 DEF WriteAnswered, WriteFails, boardVars
<1>9. CASE OpenSession \/ UseSettings
    BY <1>1, <1>9 DEF OpenSession, UseSettings, SessionBegins, SessionReads
<1>10. CASE UNCHANGED vars
    BY <1>1, <1>10 DEF vars, boardVars
<1>. QED
    BY <1>2, <1>3, <1>4, <1>5, <1>6, <1>7, <1>8, <1>9, <1>10 DEF Next, Save, Board

LEMMA CopiesInvInit == Init => CopiesInv
<1> SUFFICES ASSUME Init PROVE CopiesInv
    OBVIOUS
<1>1. TypeInv
    BY TypeInit DEF TypeInv, Pending, Init
<1>2. HalfWritten /\ CopiesAgree
    BY DEF Init, BoardInit, HalfWritten, CopiesAgree, NoWrite
<1>. QED
    BY <1>1, <1>2 DEF CopiesInv

LEMMA CopiesInvNext == CopiesInv /\ [Next]_vars => CopiesInv'
    BY CopiesNext, TypeNext, PendingNext DEF CopiesInv, TypeInv

\* The three copies of a setting agree whenever no write is being carried out,
\* after a loss of power in the middle of one too (setValue and setPreference
\* in bluetooth.h and preference.cpp).
THEOREM OneTruth == Spec => []CopiesAgree
<1>1. CopiesInv => CopiesAgree
    BY DEF CopiesInv
<1>. QED
    BY <1>1, CopiesInvInit, CopiesInvNext, PTL DEF Spec

-----------------------------------------------------------------------------
(* Saves that overlap.                                                     *)

\* While the tool connects, no save is under way and none can be clicked.
ConnectsAlone == connecting # 0 => ~status /\ Idle

\* The write that the board carries out for a saver that still awaits it.
Received ==
    \A i \in Savers : request[i] = "received" =>
        /\ writing # NoWrite
        /\ writing.by = i
        /\ writing.setting = Order[saver[i]]
        /\ writing.content = data[i]

\* The contents of a setting in some forms.
Typed(forms, s) == {form[s] : form \in forms}

\* Whatever the handlers that run still write comes from these forms ...
WritesFrom(forms) ==
    \A j \in Savers : saver[j] # 0 =>
        value \in forms /\ data[j] \in Typed(forms, Order[saver[j]])

\* ... and so does what the board is writing now.
BoardWritesFrom(forms) ==
    writing # NoWrite => writing.content \in Typed(forms, writing.setting)

\* The board has received a write of this handler.  Before that, it may still be
\* busy with one that an earlier handler has left behind.
Began(i) == saver[i] > 1 \/ request[i] \in {"received", "answered"}

\* The settings that this handler has written.
Written(i) == {k \in 1..3 : k < saver[i] \/ (k = saver[i] /\ request[i] = "answered")}

OverlapInv ==
    \A i \in Savers : saver[i] # 0 =>
        /\ WritesFrom(clicked[i])
        /\ Began(i) => BoardWritesFrom(clicked[i])
        /\ \A k \in Written(i) : flash[Order[k]] \in Typed(clicked[i], Order[k])

SavedInv ==
    saved # {} =>
        /\ WritesFrom(saved) /\ BoardWritesFrom(saved)
        /\ \A s \in Settings : flash[s] \in Typed(saved, s)

\* A write that is being carried out has touched the session.
SessionInv ==
    /\ writing # NoWrite => writing.setting \in session.touched
    /\ SessionUsesSaved

SaveInv == CopiesInv /\ ConnectsAlone /\ Received /\ OverlapInv /\ SavedInv /\ SessionInv

LEMMA ConnectsAloneNext ==
    ASSUME SaveInv, [Next]_vars
    PROVE  ConnectsAlone'
<1>. TypeOK /\ Pending /\ ConnectsAlone
    BY DEF SaveInv, CopiesInv, TypeInv
<1>1. CASE UNCHANGED <<connecting, status, saver>>
    BY <1>1 DEF ConnectsAlone, Idle
<1>2. CASE Connect
    BY <1>2 DEF Connect, writeVars, ConnectsAlone, Idle
<1>8. CASE ReadCharacteristic
  <2>1. connecting # 0 /\ saver' = saver
      BY <1>8, OrderFacts DEF ReadCharacteristic, writeVars
  <2>2. connecting' # 0 => ~status'
      BY <1>8 DEF ReadCharacteristic
  <2>. QED
      BY <2>1, <2>2 DEF ConnectsAlone, Idle
<1>9. CASE ConnectFails
  <2>1. connecting' = 0
      BY <1>9 DEF ConnectFails
  <2>. QED
      BY <2>1 DEF ConnectsAlone
<1>10. CASE Disconnected
  <2>1. connecting' = connecting /\ saver' = saver /\ ~status'
      BY <1>10 DEF Disconnected, writeVars
  <2>. QED
      BY <2>1 DEF ConnectsAlone, Idle
<1>3. ASSUME NEW i \in Savers, NEW form \in Forms, ClickSave(i, form) PROVE ConnectsAlone'
    BY <1>3 DEF ClickSave, ConnectsAlone
<1>4. ASSUME NEW i \in Savers, WriteAnswered(i) \/ WriteFails(i) PROVE ConnectsAlone'
  <2>1. saver[i] # 0 /\ UNCHANGED <<connecting, status>>
      BY <1>4 DEF WriteAnswered, WriteFails, Pending, toolVars
  <2>. QED
      BY <2>1 DEF ConnectsAlone, Idle
<1>5. CASE Disconnect \/ PowerLoss \/ LinkBreaks
    BY <1>1, <1>5 DEF Disconnect, PowerLoss, LinkBreaks, Break, toolVars
<1>6. CASE Answer \/ BoardWorks \/ OpenSession \/ UseSettings \/ UNCHANGED vars
    BY <1>1, <1>6 DEF Answer, BoardWorks, OpenSession, UseSettings, vars, toolVars, writeVars
<1>7. ASSUME NEW i \in Savers, Receive(i) PROVE ConnectsAlone'
    BY <1>1, <1>7 DEF Receive, toolVars
<1>. QED
    BY <1>2, <1>3, <1>4, <1>5, <1>6, <1>7, <1>8, <1>9, <1>10 DEF Next, Save, Board

\* A write that the link takes along is received no more.
LEMMA BreakLoses ==
    ASSUME TypeOK, Break
    PROVE  /\ UNCHANGED <<saver, data>>
           /\ \A i \in Savers : request'[i] \notin {"sent", "received"}
           /\ \A i \in Savers : request'[i] = request[i] \/ request'[i] = "lost"
    BY DEF Break, TypeOK

LEMMA EndSaveEnds ==
    ASSUME TypeOK, NEW i \in Savers, NEW ok, EndSave(i, ok)
    PROVE  /\ saver'[i] = 0 /\ request'[i] = "none"
           /\ \A j \in Savers : j # i =>
                saver'[j] = saver[j] /\ request'[j] = request[j] /\ data'[j] = data[j]
    BY DEF EndSave, TypeOK

LEMMA AwaitWaits ==
    ASSUME TypeOK, NEW i \in Savers, NEW k \in 1..3, NEW c, Await(i, k, c)
    PROVE  /\ saver'[i] = k /\ request'[i] = "sent" /\ data'[i] = c
           /\ \A j \in Savers : j # i =>
                saver'[j] = saver[j] /\ request'[j] = request[j] /\ data'[j] = data[j]
    BY DEF Await, TypeOK

\* The two ends of WriteAnswered, with what the guard says.
LEMMA AnsweredStep ==
    ASSUME TypeInv, NEW i \in Savers, WriteAnswered(i)
    PROVE  /\ saver[i] \in 1..3 /\ request[i] = "answered"
           /\ UNCHANGED <<boardVars, link, toolVars>>
           /\ \/ saver[i] = 3 /\ EndSave(i, TRUE)
              \/ saver[i] # 3 /\ EndSave(i, FALSE)
              \/ /\ saver[i] + 1 \in 1..3
                 /\ Await(i, saver[i] + 1, value[Order[saver[i] + 1]])
                 /\ UNCHANGED history
<1>1. saver[i] \in 1..3 /\ Len(Order) = 3
    BY OrderFacts DEF WriteAnswered, TypeInv, TypeOK, Pending
<1>2. saver[i] # 3 => saver[i] + 1 \in 1..3
    BY <1>1
<1>. QED
    BY <1>1, <1>2 DEF WriteAnswered, NextWrite

LEMMA ReceivedNext ==
    ASSUME SaveInv, [Next]_vars
    PROVE  Received'
<1>. TypeOK /\ TypeInv /\ Received /\ HalfWritten
    BY DEF SaveInv, CopiesInv, TypeInv
<1>0. NoWrite.step = "none"
    BY DEF NoWrite
<1>1. CASE UNCHANGED <<writing, writeVars>>
    BY <1>1 DEF writeVars, Received
<1>2. CASE Break
    BY <1>2, BreakLoses DEF Received
<1>3. ASSUME NEW i \in Savers, UNCHANGED writing, request'[i] # "received",
             \A j \in Savers : j # i =>
                saver'[j] = saver[j] /\ request'[j] = request[j] /\ data'[j] = data[j]
      PROVE  Received'
    BY <1>3 DEF Received
<1>4. ASSUME NEW i \in Savers, NEW form \in Forms, ClickSave(i, form) PROVE Received'
  <2>1. CASE UNCHANGED writeVars
      BY <1>1, <1>4, <2>1 DEF ClickSave, boardVars
  <2>2. CASE Await(i, 1, form[Order[1]])
      BY <1>3, <1>4, <2>2, AwaitWaits DEF ClickSave, boardVars
  <2>. QED
      BY <1>4, <2>1, <2>2 DEF ClickSave
<1>5. ASSUME NEW i \in Savers, Receive(i) PROVE Received'
  <2>1. /\ writing = NoWrite
        /\ writing' = [by |-> i, step |-> "setValue",
                       setting |-> Order[saver[i]], content |-> data[i]]
        /\ request' = [request EXCEPT ![i] = "received"]
        /\ UNCHANGED <<saver, data>>
      BY <1>5 DEF Receive, WriteArrives
  <2>2. writing' # NoWrite
      BY <1>0, <2>1
  <2>3. \A j \in Savers : request'[j] = "received" => j = i
      BY <2>1 DEF Received, TypeOK
  <2>. QED
      BY <2>1, <2>2, <2>3 DEF Received
<1>6. CASE BoardWorks
  <2>1. /\ writing' = [writing EXCEPT !.step = "setPreference"]
        /\ UNCHANGED <<saver, data, request>>
      BY <1>6 DEF BoardWorks, SetValue, writeVars
  <2>2. /\ writing'.by = writing.by /\ writing'.setting = writing.setting
        /\ writing'.content = writing.content /\ writing' # NoWrite
      BY <1>0, <2>1 DEF TypeOK, BoardTypeOK
  <2>. QED
      BY <2>1, <2>2 DEF Received
<1>7. CASE Answer
  <2>1. request' = [i \in Savers |->
            IF i = writing.by /\ request[i] = "received" THEN "answered" ELSE request[i]]
      BY <1>7 DEF Answer
  <2>2. \A i \in Savers : request'[i] # "received"
      BY <2>1 DEF Received
  <2>. QED
      BY <2>2 DEF Received
<1>8. ASSUME NEW i \in Savers, WriteAnswered(i) PROVE Received'
  <2>1. UNCHANGED writing
      BY <1>8 DEF WriteAnswered, boardVars
  <2>2. CASE EndSave(i, TRUE) \/ EndSave(i, FALSE)
      BY <1>3, <2>1, <2>2, EndSaveEnds
  <2>3. CASE saver[i] + 1 \in 1..3 /\ Await(i, saver[i] + 1, value[Order[saver[i] + 1]])
      BY <1>3, <2>1, <2>3, AwaitWaits
  <2>. QED
      BY <1>8, <2>2, <2>3, AnsweredStep
<1>9. ASSUME NEW i \in Savers, WriteFails(i) PROVE Received'
    BY <1>3, <1>9, EndSaveEnds DEF WriteFails, boardVars
<1>10. CASE Connect \/ ReadCharacteristic \/ Disconnected
    BY <1>1, <1>10 DEF Connect, ReadCharacteristic, Disconnected, boardVars
<1>11. CASE ConnectFails \/ Disconnect \/ PowerLoss \/ LinkBreaks
    BY <1>2, <1>11 DEF ConnectFails, Disconnect, PowerLoss, LinkBreaks
<1>12. CASE OpenSession \/ UseSettings \/ UNCHANGED vars
    BY <1>1, <1>12 DEF OpenSession, UseSettings, SessionBegins, SessionReads, vars, boardVars
<1>. QED
    BY <1>4, <1>5, <1>6, <1>7, <1>8, <1>9, <1>10, <1>11, <1>12 DEF Next, Save, Board

\* More forms allow more.
LEMMA MoreForms ==
    ASSUME NEW forms, NEW more, forms \subseteq more
    PROVE  /\ \A s : Typed(forms, s) \subseteq Typed(more, s)
           /\ WritesFrom(forms) => WritesFrom(more)
           /\ BoardWritesFrom(forms) => BoardWritesFrom(more)
<1>1. \A s : Typed(forms, s) \subseteq Typed(more, s)
    BY DEF Typed
<1>. QED
    BY <1>1 DEF WritesFrom, BoardWritesFrom

\* The steps that are no click: whatever the handlers still write comes from the
\* same forms as before.
LEMMA WritesFromNext ==
    ASSUME SaveInv, NEW forms, WritesFrom(forms), Next,
           ~ \E i \in Savers, form \in Forms : ClickSave(i, form)
    PROVE  WritesFrom(forms)'
<1>. TypeOK /\ TypeInv /\ ConnectsAlone
    BY DEF SaveInv, CopiesInv, TypeInv
<1>1. CASE UNCHANGED <<value, saver, data>>
    BY <1>1 DEF WritesFrom
<1>2. CASE Break /\ value' = value
    BY <1>1, <1>2, BreakLoses
<1>3. CASE Connect \/ ReadCharacteristic
  <2>1. Idle /\ saver' = saver
      BY <1>3, OrderFacts DEF Connect, ReadCharacteristic, writeVars, ConnectsAlone
  <2>. QED
      BY <2>1 DEF WritesFrom, Idle
<1>4. CASE ConnectFails \/ Disconnect \/ PowerLoss \/ LinkBreaks
    BY <1>2, <1>4 DEF ConnectFails, Disconnect, PowerLoss, LinkBreaks, toolVars
<1>5. CASE Disconnected \/ Board
    BY <1>1, <1>5 DEF Disconnected, Board, BoardWorks, Answer, OpenSession, UseSettings, toolVars, writeVars
<1>6. ASSUME NEW i \in Savers, Receive(i) PROVE WritesFrom(forms)'
    BY <1>1, <1>6 DEF Receive, toolVars
<1>7. ASSUME NEW i \in Savers, NEW ok, EndSave(i, ok), value' = value PROVE WritesFrom(forms)'
    BY <1>7, EndSaveEnds DEF WritesFrom
<1>8. ASSUME NEW i \in Savers, WriteAnswered(i) PROVE WritesFrom(forms)'
  <2>1. /\ saver[i] \in 1..3 /\ value' = value
      BY <1>8, AnsweredStep DEF toolVars
  <2>2. CASE EndSave(i, TRUE) \/ EndSave(i, FALSE)
      BY <1>7, <2>1, <2>2
  <2>3. CASE saver[i] + 1 \in 1..3 /\ Await(i, saver[i] + 1, value[Order[saver[i] + 1]])
    <3>1. value \in forms
        BY <2>1 DEF WritesFrom
    <3>2. value[Order[saver[i] + 1]] \in Typed(forms, Order[saver[i] + 1])
        BY <3>1 DEF Typed
    <3>. QED
        BY <2>1, <2>3, <3>1, <3>2, AwaitWaits DEF WritesFrom
  <2>. QED
      BY <1>8, <2>2, <2>3, AnsweredStep
<1>9. ASSUME NEW i \in Savers, WriteFails(i) PROVE WritesFrom(forms)'
    BY <1>7, <1>9 DEF WriteFails, toolVars
<1>. QED
    BY <1>3, <1>4, <1>5, <1>6, <1>8, <1>9 DEF Next, Save

\* What the board writes comes from the forms that the handlers write from.
LEMMA BoardWritesNext ==
    ASSUME SaveInv, NEW forms, WritesFrom(forms), BoardWritesFrom(forms), Next
    PROVE  BoardWritesFrom(forms)'
<1>. TypeOK /\ TypeInv /\ BoardTypeOK
    BY DEF SaveInv, CopiesInv, TypeInv, TypeOK
<1>0. NoWrite.step = "none"
    BY DEF NoWrite
<1>1. CASE writing' \in {writing, NoWrite}
    BY <1>1 DEF BoardWritesFrom
<1>2. ASSUME NEW i \in Savers, Receive(i) PROVE BoardWritesFrom(forms)'
  <2>1. writing'.setting = Order[saver[i]] /\ writing'.content = data[i]
      BY <1>2 DEF Receive, WriteArrives
  <2>2. saver[i] # 0
      BY <1>2, ReceivedSetting
  <2>. QED
      BY <2>1, <2>2 DEF WritesFrom, BoardWritesFrom
<1>3. CASE BoardWorks
  <2>1. writing # NoWrite /\ writing'.setting = writing.setting /\ writing'.content = writing.content
      BY <1>0, <1>3 DEF BoardWorks, SetValue, BoardTypeOK
  <2>. QED
      BY <2>1 DEF BoardWritesFrom
<1>4. CASE Answer \/ PowerLoss
    BY <1>1, <1>4 DEF Answer, SetPreference, PowerLoss, BoardBoots
<1>5. CASE Connect \/ ReadCharacteristic \/ ConnectFails \/ Disconnect \/ Disconnected \/ LinkBreaks
           \/ OpenSession \/ UseSettings
    BY <1>1, <1>5 DEF Connect, ReadCharacteristic, ConnectFails, Disconnect, Disconnected,
                      LinkBreaks, OpenSession, UseSettings, SessionBegins, SessionReads, boardVars
<1>6. ASSUME NEW i \in Savers, NEW form \in Forms, ClickSave(i, form) PROVE BoardWritesFrom(forms)'
    BY <1>1, <1>6 DEF ClickSave, boardVars
<1>7. ASSUME NEW i \in Savers, WriteAnswered(i) \/ WriteFails(i) PROVE BoardWritesFrom(forms)'
    BY <1>1, <1>7 DEF WriteAnswered, WriteFails, boardVars
<1>. QED
    BY <1>2, <1>3, <1>4, <1>5, <1>6, <1>7 DEF Next, Save, Board

\* A setting that holds a content of these forms goes on to do so.
LEMMA FlashNext ==
    ASSUME SaveInv, NEW forms, BoardWritesFrom(forms), Next,
           NEW s \in Settings, flash[s] \in Typed(forms, s)
    PROVE  flash'[s] \in Typed(forms, s)
<1>. TypeOK /\ BoardTypeOK
    BY DEF SaveInv, CopiesInv, TypeInv, TypeOK
<1>0. NoWrite.step = "none"
    BY DEF NoWrite
<1>1. CASE flash' = flash
    BY <1>1
<1>2. CASE Answer
  <2>1. writing # NoWrite /\ flash' = [flash EXCEPT ![writing.setting] = writing.content]
      BY <1>0, <1>2 DEF Answer, SetPreference
  <2>2. flash'[s] = IF s = writing.setting THEN writing.content ELSE flash[s]
      BY <2>1 DEF BoardTypeOK, Contents
  <2>. QED
      BY <2>1, <2>2 DEF BoardWritesFrom
<1>3. ASSUME ~Answer PROVE flash' = flash
    BY <1>3 DEF Next, Save, Board, Connect, ReadCharacteristic, ConnectFails, Disconnect, Disconnected,
                ClickSave, Receive, WriteArrives, WriteAnswered, WriteFails, BoardWorks, SetValue,
                OpenSession, UseSettings, SessionBegins, SessionReads, PowerLoss, BoardBoots,
                LinkBreaks, boardVars
<1>. QED
    BY <1>1, <1>2, <1>3

\* A handler that has written a setting, or is about to have, had a write received.
LEMMA WrittenBegan ==
    ASSUME TypeInv, NEW i \in Savers, saver[i] # 0
    PROVE  /\ saver[i] \in 1..3
           /\ Written(i) \subseteq 1..3
           /\ Written(i) # {} => Began(i)
<1>1. saver[i] \in 1..3
    BY OrderFacts DEF TypeInv, TypeOK
<1>. QED
    BY <1>1 DEF Written, Began

\* A click: forms that were enough stay enough with the form that was clicked.
LEMMA ClickWrites ==
    ASSUME SaveInv, NEW i \in Savers, NEW form \in Forms, ClickSave(i, form),
           NEW forms, \A j \in Savers : saver[j] # 0 => data[j] \in Typed(forms, Order[saver[j]]),
           NEW more, forms \subseteq more, form \in more
    PROVE  WritesFrom(more)'
<1>. TypeOK
    BY DEF SaveInv, CopiesInv, TypeInv
<1>1. value' = form /\ saver[i] = 0
    BY DEF ClickSave
<1>2. CASE UNCHANGED writeVars
    BY <1>1, <1>2, MoreForms DEF writeVars, WritesFrom
<1>3. CASE Await(i, 1, form[Order[1]])
  <2>1. form[Order[1]] \in Typed(more, Order[1])
      BY DEF Typed
  <2>2. /\ saver'[i] = 1 /\ data'[i] = form[Order[1]]
        /\ \A j \in Savers : j # i => saver'[j] = saver[j] /\ data'[j] = data[j]
      BY <1>3, AwaitWaits
  <2>3. \A j \in Savers : saver[j] # 0 => data[j] \in Typed(more, Order[saver[j]])
      BY MoreForms
  <2>4. \A j \in Savers : saver'[j] # 0 => data'[j] \in Typed(more, Order[saver'[j]])
      BY <2>1, <2>2, <2>3
  <2>. QED
      BY <1>1, <2>4 DEF WritesFrom
<1>. QED
    BY <1>2, <1>3 DEF ClickSave

\* The handler is where it was, or nearer to its end.
Behind(i) == (Began(i)' => Began(i)) /\ Written(i)' \subseteq Written(i)

\* How a step that is no click changes what a handler has written.
LEMMA HandlerStep ==
    ASSUME SaveInv, Next, ~ \E i \in Savers, form \in Forms : ClickSave(i, form),
           NEW h \in Savers, saver'[h] # 0
    PROVE  /\ saver[h] # 0 /\ clicked'[h] = clicked[h]
           /\ \/ Behind(h)
              \/ Receive(h) /\ Written(h)' \subseteq Written(h)
              \/ /\ Answer /\ request[h] = "received"
                 /\ Written(h)' \subseteq Written(h) \cup {saver[h]}
<1>. DEFINE Goal == /\ saver[h] # 0 /\ clicked'[h] = clicked[h]
                    /\ \/ Behind(h)
                       \/ Receive(h) /\ Written(h)' \subseteq Written(h)
                       \/ /\ Answer /\ request[h] = "received"
                          /\ Written(h)' \subseteq Written(h) \cup {saver[h]}
<1>. TypeOK /\ TypeInv /\ Pending
    BY DEF SaveInv, CopiesInv, TypeInv
<1>1. ASSUME saver'[h] = saver[h], request'[h] \in {request[h], "lost"}, clicked'[h] = clicked[h]
      PROVE  Goal
    BY <1>1 DEF Began, Written, Behind
<1>2. CASE Break /\ clicked' = clicked
    BY <1>1, <1>2, BreakLoses
<1>3. CASE Connect \/ ReadCharacteristic \/ Disconnected \/ BoardWorks \/ OpenSession \/ UseSettings
    BY <1>1, <1>3 DEF Connect, ReadCharacteristic, Disconnected, BoardWorks, OpenSession, UseSettings,
                      writeVars, history
<1>4. CASE ConnectFails \/ Disconnect \/ PowerLoss \/ LinkBreaks
    BY <1>2, <1>4 DEF ConnectFails, Disconnect, PowerLoss, LinkBreaks, history
<1>5. ASSUME NEW j \in Savers, Receive(j) PROVE Goal
  <2>1. saver' = saver /\ clicked' = clicked /\ request' = [request EXCEPT ![j] = "received"]
      BY <1>5 DEF Receive, history
  <2>2. CASE j # h
      BY <1>1, <2>1, <2>2 DEF TypeOK
  <2>3. CASE j = h
    <3>1. request'[h] # "answered"
        BY <2>1, <2>3 DEF TypeOK
    <3>2. Written(h)' \subseteq Written(h)
        BY <2>1, <3>1 DEF Written
    <3>. QED
        BY <1>5, <2>1, <2>3, <3>2
  <2>. QED
      BY <2>2, <2>3
<1>6. CASE Answer
  <2>1. /\ saver' = saver /\ clicked' = clicked
        /\ request'[h] = IF h = writing.by /\ request[h] = "received" THEN "answered" ELSE request[h]
      BY <1>6 DEF Answer, history
  <2>2. CASE request'[h] = request[h]
      BY <1>1, <2>1, <2>2
  <2>3. CASE request'[h] # request[h]
    <3>1. request[h] = "received"
        BY <2>1, <2>3
    <3>2. Written(h)' \subseteq Written(h) \cup {saver[h]}
        BY <2>1 DEF Written
    <3>. QED
        BY <1>6, <2>1, <3>1, <3>2
  <2>. QED
      BY <2>2, <2>3
<1>7. ASSUME NEW j \in Savers, NEW ok, EndSave(j, ok) PROVE Goal
  <2>1. j # h
      BY <1>7, EndSaveEnds
  <2>2. clicked'[h] = clicked[h]
      BY <1>7, <2>1 DEF EndSave, TypeOK
  <2>. QED
      BY <1>1, <1>7, <2>1, <2>2, EndSaveEnds
<1>8. ASSUME NEW j \in Savers, WriteAnswered(j) PROVE Goal
  <2>1. saver[j] \in 1..3 /\ request[j] = "answered"
      BY <1>8, AnsweredStep
  <2>2. CASE saver[j] + 1 \in 1..3 /\ Await(j, saver[j] + 1, value[Order[saver[j] + 1]]) /\ UNCHANGED history
    <3>1. /\ saver'[j] = saver[j] + 1 /\ request'[j] = "sent" /\ clicked' = clicked
          /\ j # h => saver'[h] = saver[h] /\ request'[h] = request[h]
        BY <2>2, AwaitWaits DEF history
    <3>2. CASE j # h
        BY <1>1, <3>1, <3>2
    <3>3. CASE j = h
      <4>1. Began(h)
          BY <2>1, <3>3 DEF Began
      <4>2. Written(h)' \subseteq Written(h)
          BY <2>1, <3>1, <3>3 DEF Written
      <4>. QED
          BY <2>1, <3>1, <3>3, <4>1, <4>2 DEF Behind
    <3>. QED
        BY <3>2, <3>3
  <2>. QED
      BY <1>7, <1>8, <2>2, AnsweredStep
<1>9. ASSUME NEW j \in Savers, WriteFails(j) PROVE Goal
    BY <1>7, <1>9 DEF WriteFails
<1>. QED
    BY <1>3, <1>4, <1>5, <1>6, <1>8, <1>9 DEF Next, Save, Board

LEMMA OverlapNext ==
    ASSUME SaveInv, [Next]_vars
    PROVE  OverlapInv'
<1>. TypeOK /\ TypeInv /\ Pending /\ Received /\ HalfWritten /\ OverlapInv
    BY DEF SaveInv, CopiesInv, TypeInv
<1>0. NoWrite.step = "none"
    BY DEF NoWrite
<1>1. CASE UNCHANGED vars
    BY <1>1 DEF vars, boardVars, toolVars, writeVars, history, OverlapInv, WritesFrom, BoardWritesFrom,
                Began, Written
<1>. SUFFICES ASSUME Next, NEW h \in Savers, saver'[h] # 0
              PROVE  /\ WritesFrom(clicked[h])'
                     /\ Began(h)' => BoardWritesFrom(clicked[h])'
                     /\ \A k \in Written(h)' : flash'[Order[k]] \in Typed(clicked'[h], Order[k])
    BY <1>1 DEF OverlapInv, Typed
<1>. PICK forms : forms = clicked'[h]
    OBVIOUS
<1>2. ASSUME /\ WritesFrom(forms)'
             /\ Began(h)' => BoardWritesFrom(forms)'
             /\ \A k \in Written(h)' : flash'[Order[k]] \in Typed(forms, Order[k])
      PROVE  /\ WritesFrom(clicked[h])'
             /\ Began(h)' => BoardWritesFrom(clicked[h])'
             /\ \A k \in Written(h)' : flash'[Order[k]] \in Typed(clicked'[h], Order[k])
    BY <1>2 DEF WritesFrom, BoardWritesFrom
<1>3. ASSUME ~ \E i \in Savers, form \in Forms : ClickSave(i, form)
      PROVE  /\ WritesFrom(forms)'
             /\ Began(h)' => BoardWritesFrom(forms)'
             /\ \A k \in Written(h)' : flash'[Order[k]] \in Typed(forms, Order[k])
  <2>1. /\ saver[h] # 0 /\ clicked[h] = forms
        /\ \/ Behind(h)
           \/ Receive(h) /\ Written(h)' \subseteq Written(h)
           \/ /\ Answer /\ request[h] = "received"
              /\ Written(h)' \subseteq Written(h) \cup {saver[h]}
      BY <1>3, HandlerStep
  <2>2. /\ WritesFrom(forms)
        /\ Began(h) => BoardWritesFrom(forms)
        /\ \A k \in Written(h) : flash[Order[k]] \in Typed(forms, Order[k])
      BY <2>1 DEF OverlapInv
  <2>3. WritesFrom(forms)'
      BY <1>3, <2>2, WritesFromNext
  <2>4. \A k \in Written(h) : flash'[Order[k]] \in Typed(forms, Order[k])
    <3> SUFFICES ASSUME NEW k \in Written(h) PROVE flash'[Order[k]] \in Typed(forms, Order[k])
        OBVIOUS
    <3>1. Began(h) /\ k \in 1..3 /\ Order[k] \in Settings
        BY <2>1, WrittenBegan, OrderFacts
    <3>. QED
        BY <2>2, <3>1, FlashNext
  <2>5. CASE Behind(h)
      BY <2>2, <2>3, <2>4, <2>5, BoardWritesNext DEF Behind
  <2>6. CASE Receive(h) /\ Written(h)' \subseteq Written(h)
    <3>1. writing'.setting = Order[saver[h]] /\ writing'.content = data[h]
        BY <2>6 DEF Receive, WriteArrives
    <3>2. BoardWritesFrom(forms)'
        BY <2>1, <2>2, <3>1 DEF WritesFrom, BoardWritesFrom
    <3>. QED
        BY <2>3, <2>4, <2>6, <3>2
  <2>7. CASE Answer /\ request[h] = "received" /\ Written(h)' \subseteq Written(h) \cup {saver[h]}
    <3>1. BoardWritesFrom(forms)'
        BY <2>2, <2>7, BoardWritesNext DEF Began
    <3>2. /\ flash' = [flash EXCEPT ![writing.setting] = writing.content]
          /\ writing.setting = Order[saver[h]] /\ writing.content = data[h]
        BY <2>7 DEF Answer, SetPreference, Received
    <3>3. saver[h] \in 1..3 /\ Order[saver[h]] \in Settings
        BY <2>1, WrittenBegan, OrderFacts
    <3>4. flash'[Order[saver[h]]] \in Typed(forms, Order[saver[h]])
        BY <2>1, <2>2, <3>2, <3>3 DEF TypeOK, BoardTypeOK, Contents, WritesFrom
    <3>. QED
        BY <2>3, <2>4, <2>7, <3>1, <3>4
  <2>. QED
      BY <2>1, <2>5, <2>6, <2>7
<1>4. ASSUME NEW i \in Savers, NEW form \in Forms, ClickSave(i, form)
      PROVE  /\ WritesFrom(forms)'
             /\ Began(h)' => BoardWritesFrom(forms)'
             /\ \A k \in Written(h)' : flash'[Order[k]] \in Typed(forms, Order[k])
  <2>1. /\ form \in forms
        /\ saver[h] # 0 => forms = {form} \cup clicked[h]
        /\ saver[h] = 0 => \A j \in Savers : clicked[j] \subseteq forms
      BY <1>4, ClickedAfter, FormsAssumption DEF ClickSave
  <2>2. saver[i] = 0 /\ UNCHANGED <<flash, writing>>
      BY <1>4 DEF ClickSave, boardVars
  <2>3. CASE saver[h] # 0
    <3>1. /\ WritesFrom(clicked[h])
          /\ Began(h) => BoardWritesFrom(clicked[h])
          /\ \A k \in Written(h) : flash[Order[k]] \in Typed(clicked[h], Order[k])
        BY <2>3 DEF OverlapInv
    <3>2. clicked[h] \subseteq forms
        BY <2>1, <2>3
    <3>3. \A j \in Savers : saver[j] # 0 => data[j] \in Typed(forms, Order[saver[j]])
        BY <3>1, <3>2, MoreForms DEF WritesFrom
    <3>4. WritesFrom(forms)'
        BY <1>4, <2>1, <3>3, ClickWrites
    <3>5. saver'[h] = saver[h] /\ request'[h] = request[h]
        BY <1>4, <2>2, <2>3, AwaitWaits DEF ClickSave, writeVars
    <3>6. Began(h)' = Began(h) /\ Written(h)' = Written(h)
        BY <3>5 DEF Began, Written
    <3>7. Began(h) => BoardWritesFrom(forms)'
        BY <2>2, <3>1, <3>2, MoreForms DEF BoardWritesFrom
    <3>8. \A k \in Written(h) : flash'[Order[k]] \in Typed(forms, Order[k])
        BY <2>2, <3>1, <3>2, MoreForms
    <3>. QED
        BY <3>4, <3>6, <3>7, <3>8
  <2>4. CASE saver[h] = 0
    <3>1. h = i /\ Await(i, 1, form[Order[1]])
        BY <1>4, <2>4, AwaitWaits DEF ClickSave, writeVars
    <3>2. saver'[h] = 1 /\ request'[h] = "sent"
        BY <3>1, AwaitWaits
    <3>3. ~Began(h)' /\ Written(h)' = {}
        BY <3>2 DEF Began, Written
    <3>4. \A j \in Savers : saver[j] # 0 => data[j] \in Typed(forms, Order[saver[j]])
      <4> SUFFICES ASSUME NEW j \in Savers, saver[j] # 0 PROVE data[j] \in Typed(forms, Order[saver[j]])
          OBVIOUS
      <4>1. data[j] \in Typed(clicked[j], Order[saver[j]])
          BY DEF OverlapInv, WritesFrom
      <4>2. clicked[j] \subseteq forms
          BY <2>1, <2>4
      <4>. QED
          BY <4>1, <4>2, MoreForms
    <3>5. WritesFrom(forms)'
        BY <1>4, <2>1, <3>4, ClickWrites
    <3>. QED
        BY <3>3, <3>5
  <2>. QED
      BY <2>3, <2>4
<1>. QED
    BY <1>2, <1>3, <1>4

\* A step that is no click keeps what a save announced.
LEMMA FormsKept ==
    ASSUME SaveInv, Next, ~ \E i \in Savers, form \in Forms : ClickSave(i, form),
           NEW forms, WritesFrom(forms), BoardWritesFrom(forms),
           \A s \in Settings : flash[s] \in Typed(forms, s)
    PROVE  /\ WritesFrom(forms)' /\ BoardWritesFrom(forms)'
           /\ \A s \in Settings : flash'[s] \in Typed(forms, s)
    BY WritesFromNext, BoardWritesNext, FlashNext

LEMMA SavedNext ==
    ASSUME SaveInv, [Next]_vars
    PROVE  SavedInv'
<1>. TypeOK /\ TypeInv /\ Pending /\ OverlapInv /\ SavedInv
    BY DEF SaveInv, CopiesInv, TypeInv
<1>1. CASE UNCHANGED vars
    BY <1>1 DEF vars, boardVars, toolVars, writeVars, history, SavedInv, WritesFrom, BoardWritesFrom
<1>2. CASE \E i \in Savers, form \in Forms : ClickSave(i, form)
    BY <1>2 DEF ClickSave, NoteClick, SavedInv
<1>3. ASSUME Next, ~ \E i \in Savers, form \in Forms : ClickSave(i, form), saved' # {}
      PROVE  /\ WritesFrom(saved)' /\ BoardWritesFrom(saved)'
             /\ \A s \in Settings : flash'[s] \in Typed(saved', s)
  <2>. PICK forms : forms = saved'
      OBVIOUS
  <2>1. CASE saved' = saved
    <3>1. /\ WritesFrom(forms) /\ BoardWritesFrom(forms)
          /\ \A s \in Settings : flash[s] \in Typed(forms, s)
        BY <1>3, <2>1 DEF SavedInv
    <3>. QED
        BY <1>3, <3>1, FormsKept DEF WritesFrom, BoardWritesFrom
  <2>2. ASSUME NEW i \in Savers, saver[i] = 3, request[i] = "answered", saved' = clicked[i]
        PROVE  /\ WritesFrom(saved)' /\ BoardWritesFrom(saved)'
               /\ \A s \in Settings : flash'[s] \in Typed(saved', s)
    <3>1. Began(i) /\ Written(i) = 1..3
        BY <2>2 DEF Began, Written
    <3>2. /\ WritesFrom(forms) /\ BoardWritesFrom(forms)
          /\ \A k \in 1..3 : flash[Order[k]] \in Typed(forms, Order[k])
        BY <2>2, <3>1 DEF OverlapInv
    <3>3. \A s \in Settings : flash[s] \in Typed(forms, s)
        BY <3>2, OrderFacts
    <3>. QED
        BY <1>3, <3>2, <3>3, FormsKept DEF WritesFrom, BoardWritesFrom
  <2>3. ASSUME NEW i \in Savers, WriteAnswered(i)
        PROVE  saved' = saved \/ (saver[i] = 3 /\ request[i] = "answered" /\ saved' = clicked[i])
      BY <2>3, AnsweredStep DEF EndSave, history
  <2>4. ASSUME ~ \E i \in Savers : WriteAnswered(i) PROVE saved' = saved
      BY <1>3, <2>4 DEF Next, Save, Board, Connect, ReadCharacteristic, ConnectFails, Disconnect,
                        Disconnected, Receive, WriteFails, EndSave, BoardWorks, Answer, OpenSession,
                        UseSettings, PowerLoss, LinkBreaks, history
  <2>. QED
      BY <2>1, <2>2, <2>3, <2>4
<1>. QED
    BY <1>1, <1>2, <1>3 DEF SavedInv, Typed

LEMMA SessionNext ==
    ASSUME SaveInv, [Next]_vars
    PROVE  SessionInv'
<1>. TypeOK /\ BoardTypeOK /\ HalfWritten /\ CopiesAgree /\ TypeInv /\ SessionInv
    BY DEF SaveInv, CopiesInv, TypeInv, TypeOK
<1>0. NoWrite.step = "none" /\ writing.setting \in Settings
    BY DEF NoWrite, BoardTypeOK
<1>1. CASE UNCHANGED <<session, flash, writing>>
    BY <1>1 DEF SessionInv, SessionUsesSaved
<1>2. ASSUME NEW i \in Savers, Receive(i) PROVE SessionInv'
  <2> DEFINE s == Order[saver[i]]
  <2>1. s \in Settings /\ writing'.setting = s /\ flash' = flash
      BY <1>2, ReceivedSetting DEF Receive, WriteArrives
  <2>2. session' = [session EXCEPT !.touched = @ \cup {s}, !.read[s] = "unread"]
      BY <1>2 DEF Receive, WriteArrives
  <2>. HIDE DEF s
  <2>3. /\ session'.touched = session.touched \cup {s}
        /\ \A t \in Settings : t # s => session'.read[t] = session.read[t]
      BY <2>1, <2>2 DEF BoardTypeOK
  <2>. QED
      BY <2>1, <2>3 DEF SessionInv, SessionUsesSaved
<1>3. CASE BoardWorks
  <2>1. /\ writing # NoWrite /\ writing'.setting = writing.setting
        /\ session' = session /\ flash' = flash
      BY <1>0, <1>3 DEF BoardWorks, SetValue, BoardTypeOK
  <2>. QED
      BY <2>1 DEF SessionInv, SessionUsesSaved
<1>4. CASE Answer
  <2>1. /\ writing # NoWrite /\ writing' = NoWrite /\ session' = session
        /\ \A s \in Settings : s # writing.setting => flash'[s] = flash[s]
      BY <1>0, <1>4 DEF Answer, SetPreference, BoardTypeOK, Contents
  <2>. QED
      BY <2>1 DEF SessionInv, SessionUsesSaved
<1>5. CASE OpenSession
  <2>1. /\ session'.read = NotRead /\ writing' = writing
        /\ session'.touched = IF writing = NoWrite THEN {} ELSE {writing.setting}
      BY <1>5 DEF OpenSession, SessionBegins
  <2>. QED
      BY <2>1 DEF SessionInv, SessionUsesSaved, NotRead
<1>6. CASE UseSettings
  <2>1. session.next \in 1..3 /\ UNCHANGED <<flash, writing>>
      BY <1>6, OrderFacts DEF UseSettings, SessionReads
  <2> DEFINE s == Order[session.next]
  <2>2. s \in Settings
      BY <2>1, OrderFacts
  <2>3. /\ session'.touched = session.touched
        /\ session'.read = [session.read EXCEPT ![s] = IF s \in session.touched THEN @ ELSE ram[s]]
      BY <1>6 DEF UseSettings, SessionReads, BoardTypeOK
  <2>4. s \notin session.touched => ram[s] = flash[s]
    <3>1. s \notin session.touched => writing = NoWrite \/ writing.setting # s
        BY <2>1 DEF SessionInv
    <3>. QED
        BY <2>2, <3>1 DEF CopiesAgree
  <2>. HIDE DEF s
  <2>5. \A t \in Settings : session'.read[t] =
           IF t = s THEN (IF s \in session.touched THEN session.read[s] ELSE ram[s])
                    ELSE session.read[t]
      BY <2>2, <2>3 DEF BoardTypeOK
  <2>. QED
      BY <2>1, <2>2, <2>3, <2>4, <2>5 DEF SessionInv, SessionUsesSaved
<1>7. CASE PowerLoss
  <2>1. session' = NoSession /\ writing' = NoWrite
      BY <1>7 DEF PowerLoss, BoardBoots
  <2>. QED
      BY <2>1 DEF SessionInv, SessionUsesSaved, NoSession, NotRead
<1>8. ASSUME NEW i \in Savers, NEW form \in Forms, ClickSave(i, form) PROVE SessionInv'
    BY <1>1, <1>8 DEF ClickSave, boardVars
<1>9. ASSUME NEW i \in Savers, WriteAnswered(i) \/ WriteFails(i) PROVE SessionInv'
    BY <1>1, <1>9 DEF WriteAnswered, WriteFails, boardVars
<1>10. CASE Connect \/ ReadCharacteristic \/ Disconnected \/ ConnectFails \/ Disconnect \/ LinkBreaks
    BY <1>1, <1>10 DEF Connect, ReadCharacteristic, Disconnected, ConnectFails, Disconnect,
                       LinkBreaks, boardVars
<1>11. CASE UNCHANGED vars
    BY <1>1, <1>11 DEF vars, boardVars
<1>. QED
    BY <1>2, <1>3, <1>4, <1>5, <1>6, <1>7, <1>8, <1>9, <1>10, <1>11 DEF Next, Save, Board

LEMMA SaveInvInit == Init => SaveInv
<1> SUFFICES ASSUME Init PROVE SaveInv
    OBVIOUS
<1>1. CopiesInv
    BY CopiesInvInit
<1>2. ConnectsAlone /\ Received /\ OverlapInv /\ SavedInv
    BY DEF Init, ConnectsAlone, Received, OverlapInv, SavedInv
<1>3. SessionInv
    BY DEF Init, BoardInit, NoSession, NotRead, SessionInv, SessionUsesSaved
<1>. QED
    BY <1>1, <1>2, <1>3 DEF SaveInv

LEMMA SaveInvariant == Spec => []SaveInv
<1>1. SaveInv /\ [Next]_vars => SaveInv'
  <2> SUFFICES ASSUME SaveInv, [Next]_vars PROVE SaveInv'
      OBVIOUS
  <2>1. CopiesInv'
      BY CopiesInvNext DEF SaveInv
  <2>. QED
      BY <2>1, ConnectsAloneNext, ReceivedNext, OverlapNext, SavedNext, SessionNext DEF SaveInv
<1>. QED
    BY <1>1, SaveInvInit, PTL DEF Spec

\* What is in flash after "Параметры сохранены" comes, setting by setting, from
\* the form of that save, a form clicked before it ended or one of the saves
\* beside which it began (on_save_clicked and ble_write, init_params.py): from
\* its own alone if there was no other click.
THEOREM SavedWasTyped == Spec => []SavedMeansStored
<1>1. SaveInv => SavedMeansStored
    BY DEF SaveInv, SavedInv, SavedMeansStored, Typed
<1>. QED
    BY <1>1, SaveInvariant, PTL

\* A write that overlaps with a session spoils the setting that it writes, and
\* no other: what the session reads of the rest, without a lock, is what is in
\* flash (web_wifi.cpp, rest_api.cpp, bluetooth.h).
THEOREM WritesSpoilTheirSetting == Spec => []SessionUsesSaved
<1>1. SaveInv => SessionUsesSaved
    BY DEF SaveInv, SessionInv
<1>. QED
    BY <1>1, SaveInvariant, PTL
=============================================================================
