--------------------------- MODULE BoardSettings ----------------------------
(***************************************************************************)
(* The settings of the board (borad/main/preference.cpp, bluetooth.h and   *)
(* bluetooth.cpp): three strings that exist in RAM, in flash and in the    *)
(* GATT characteristics.  The NimBLE task writes them when a client does,  *)
(* and SenderTask reads them without a lock when it opens a session.       *)
(*                                                                         *)
(* NVS is assumed to take every putString: setPreference does not look.    *)
(***************************************************************************)
EXTENDS Naturals, Sequences, FiniteSets

CONSTANTS
    Values,    \* contents of a setting
    Empty,     \* the empty string
    Torn,      \* what is read from a string that is being assigned
    Factory,   \* the contents that the board starts with
    Savers     \* clicks on "save" that can be under way at a time

ASSUME ContentsAssumption ==
    /\ Empty \notin Values
    /\ Torn \notin Values \cup {Empty}
    /\ "unread" \notin Values \cup {Empty, Torn}
ASSUME SaversAssumption == "nobody" \notin Savers

\* BLECharacteristics and Characteristics name them in the same order, which
\* is also the order in which a session uses them.
Order == <<"WIFI_SSID", "WIFI_PASSWORD", "SERVER_NAME">>
Settings == {"WIFI_SSID", "WIFI_PASSWORD", "SERVER_NAME"}
Contents == [Settings -> Values \cup {Empty}]

ASSUME FactoryAssumption == Factory \in Contents

VARIABLES
    ram,       \* the globals WIFI_SSID, WIFI_PASSWORD and SERVER_NAME
    flash,     \* foxden_settings
    gatt,      \* the values of the characteristics
    writing,   \* the write that the NimBLE task handles
    session    \* how far SenderTask is in using them, and what it has read

boardVars == <<ram, flash, gatt, writing, session>>

NoWrite == [by |-> "nobody", step |-> "none",
            setting |-> "WIFI_SSID", content |-> Empty]
NotRead == [s \in Settings |-> "unread"]
NoSession == [next |-> 0, read |-> NotRead, touched |-> {}]

BoardInit ==
    /\ ram = Factory /\ flash = Factory /\ gatt = Factory
    /\ writing = NoWrite
    /\ session = NoSession

-----------------------------------------------------------------------------
(* A write to a characteristic, in the NimBLE task.                        *)

\* NimBLE stores the value and calls onWrite; setValue starts to assign.  A
\* session is from now on touched by this write.
WriteArrives(by, s, c) ==
    /\ writing = NoWrite
    /\ gatt' = [gatt EXCEPT ![s] = c]
    /\ ram' = [ram EXCEPT ![s] = Torn]
    /\ writing' = [by |-> by, step |-> "setValue", setting |-> s, content |-> c]
    /\ session' = [session EXCEPT !.touched = @ \cup {s}, !.read[s] = "unread"]
    /\ UNCHANGED flash

\* Mutant of SetValue: the global keeps its old content.
SetValueNot ==
    /\ writing.step = "setValue"
    /\ ram' = [ram EXCEPT ![writing.setting] = flash[writing.setting]]
    /\ writing' = [writing EXCEPT !.step = "setPreference"]
    /\ UNCHANGED <<flash, gatt, session>>

\* The end of the assignment in FBLECharacteristics::setValue.
SetValue ==
    /\ writing.step = "setValue"
    /\ ram' = [ram EXCEPT ![writing.setting] = writing.content]
    /\ writing' = [writing EXCEPT !.step = "setPreference"]
    /\ UNCHANGED <<flash, gatt, session>>

\* Mutant of SetPreference: the content is not put into flash.
SetPreferenceNot ==
    /\ writing.step = "setPreference"
    /\ flash' = flash
    /\ writing' = NoWrite
    /\ UNCHANGED <<ram, gatt, session>>

\* setPreference, the end of onWrite; NimBLE answers after it.
SetPreference ==
    /\ writing.step = "setPreference"
    /\ flash' = [flash EXCEPT ![writing.setting] = writing.content]
    /\ writing' = NoWrite
    /\ UNCHANGED <<ram, gatt, session>>

-----------------------------------------------------------------------------
(* A session of SenderTask, as far as it uses the settings.                *)

\* touched: the settings of which a write was carried out at some time of the
\* session (history).  What it reads of the other settings is recorded.
SessionBegins ==
    /\ session' = [next |-> 1, read |-> NotRead,
                   touched |-> IF writing = NoWrite THEN {} ELSE {writing.setting}]
    /\ UNCHANGED <<ram, flash, gatt, writing>>

\* Mutant of SessionReads: SenderTask goes on after the last setting.
SessionReadsOn ==
    /\ session.next \in DOMAIN Order
    /\ session' = [session EXCEPT !.next = @ + 1]
    /\ UNCHANGED <<ram, flash, gatt, writing>>

\* WiFi.begin(WIFI_SSID, WIFI_PASSWORD), then SERVER_NAME for the POST.
SessionReads ==
    /\ session.next \in DOMAIN Order
    /\ session' =
         [session EXCEPT !.next = (@ + 1) % (Len(Order) + 1),
                         !.read[Order[session.next]] =
                             IF Order[session.next] \in session.touched
                             THEN @ ELSE ram[Order[session.next]]]
    /\ UNCHANGED <<ram, flash, gatt, writing>>

\* A loss of power; setup runs initPreference and then initBluetooth.
BoardBoots ==
    /\ ram' = flash
    /\ gatt' = ram'
    /\ writing' = NoWrite
    /\ session' = NoSession
    /\ UNCHANGED flash

-----------------------------------------------------------------------------
BoardTypeOK ==
    /\ ram \in [Settings -> Values \cup {Empty, Torn}]
    /\ flash \in Contents
    /\ gatt \in Contents
    /\ writing \in [by : Savers \cup {"nobody"},
                    step : {"none", "setValue", "setPreference"},
                    setting : Settings, content : Values \cup {Empty}]
    /\ session \in [next : 0..Len(Order), touched : SUBSET Settings,
                    read : [Settings -> Values \cup {Empty, Torn, "unread"}]]
=============================================================================
