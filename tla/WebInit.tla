------------------------------ MODULE WebInit -------------------------------
(***************************************************************************)
(* initWeb of the board (borad/main/web_wifi.cpp): read the MAC address,   *)
(* join WiFi, set the clock, and say whether the board is ready to send.   *)
(* The access point and the time servers are the environment.  The         *)
(* semaphore between setDateTime and the SNTP callback is left out here:   *)
(* only whether and when isSynchronized is set.                            *)
(***************************************************************************)
CONSTANTS
    Faults,      \* reading the MAC, the join and the time servers may fail
    LinkDrops    \* the access point may drop the board after the join

ASSUME WebFaultsAssumption == Faults \in BOOLEAN /\ LinkDrops \in BOOLEAN

VARIABLES
    web,             \* where initWeb is
    isReadMac,       \* global
    isWIFIConnect,   \* global
    isSynchronized,  \* global
    sntpStarted,     \* sntp_init was called
    online           \* WiFi.isConnected()

vars == <<web, isReadMac, isWIFIConnect, isSynchronized, sntpStarted, online>>

Init ==
    /\ web = "idle"
    /\ isReadMac \in BOOLEAN      \* initBluetooth reads it once at boot
    /\ isWIFIConnect = FALSE
    /\ isSynchronized = FALSE
    /\ sntpStarted = FALSE
    /\ online = FALSE

-----------------------------------------------------------------------------
Call ==
    /\ web = "idle"
    /\ web' = "readMac"
    /\ UNCHANGED <<isReadMac, isWIFIConnect, isSynchronized, sntpStarted, online>>

\* esp_wifi_get_mac may fail; a later session tries again.
ReadMacAddress ==
    /\ web = "readMac"
    /\ isReadMac' \in IF isReadMac \/ ~Faults THEN {TRUE} ELSE BOOLEAN
    /\ web' = "join"
    /\ UNCHANGED <<isWIFIConnect, isSynchronized, sntpStarted, online>>

\* Disconnect(), then WiFi.begin.
StartConnecting ==
    /\ web = "join"
    /\ online' = FALSE
    /\ web' = "waitConnecting"
    /\ UNCHANGED <<isReadMac, isWIFIConnect, isSynchronized, sntpStarted>>

\* One of the polls of waitConnecting sees WL_CONNECTED.
Connected ==
    /\ web = "waitConnecting"
    /\ online' = TRUE
    /\ isWIFIConnect' = TRUE
    /\ web' = "clock"
    /\ UNCHANGED <<isReadMac, isSynchronized, sntpStarted>>

\* Mutant of ConnectTimedOut: a failed join is noted.
ConnectTimedOutNoted ==
    /\ Faults
    /\ web = "waitConnecting"
    /\ isWIFIConnect' = FALSE
    /\ web' = "clock"
    /\ UNCHANGED <<isReadMac, isSynchronized, sntpStarted, online>>

\* WIFI_TIMEOUT has passed: nothing sets isWIFIConnect back to false.
ConnectTimedOut ==
    /\ Faults
    /\ web = "waitConnecting"
    /\ web' = "clock"
    /\ UNCHANGED <<isReadMac, isWIFIConnect, isSynchronized, sntpStarted, online>>

SetDateTime ==
    /\ web = "clock"
    /\ isWIFIConnect /\ ~isSynchronized
    /\ sntpStarted' = TRUE
    /\ web' = "setDateTime"
    /\ UNCHANGED <<isReadMac, isWIFIConnect, isSynchronized, online>>

SkipDateTime ==
    /\ web = "clock"
    /\ ~isWIFIConnect \/ isSynchronized
    /\ web' = "ready"
    /\ UNCHANGED <<isReadMac, isWIFIConnect, isSynchronized, sntpStarted, online>>

\* The wait ends with sntpFinish or after WIFI_TIMEOUT.
DateTimeDone ==
    /\ web = "setDateTime"
    /\ isSynchronized \/ Faults
    /\ web' = "ready"
    /\ UNCHANGED <<isReadMac, isWIFIConnect, isSynchronized, sntpStarted, online>>

\* sntp_notification runs: during the wait or after it, even when the board
\* has gone offline since the answer came.
SntpAnswers ==
    /\ sntpStarted
    /\ isSynchronized' = TRUE
    /\ UNCHANGED <<web, isReadMac, isWIFIConnect, sntpStarted, online>>

Ready == isReadMac /\ isWIFIConnect /\ isSynchronized

Return(ok) ==
    /\ web = "ready"
    /\ ok = Ready
    /\ web' = "idle"
    /\ UNCHANGED <<isReadMac, isWIFIConnect, isSynchronized, sntpStarted, online>>

-----------------------------------------------------------------------------
\* The board was joined and the access point goes away: no auto-reconnect.
LinkLost ==
    /\ LinkDrops
    /\ online
    /\ online' = FALSE
    /\ UNCHANGED <<web, isReadMac, isWIFIConnect, isSynchronized, sntpStarted>>

\* Disconnect() of SenderTask, after the upload.
Disconnect ==
    /\ web = "idle"
    /\ online' = FALSE
    /\ UNCHANGED <<web, isReadMac, isWIFIConnect, isSynchronized, sntpStarted>>

Restart ==
    /\ web' = "idle"
    /\ isReadMac' \in BOOLEAN
    /\ isWIFIConnect' = FALSE
    /\ isSynchronized' = FALSE
    /\ sntpStarted' = FALSE
    /\ online' = FALSE

Steps ==
    \/ ReadMacAddress \/ StartConnecting \/ Connected \/ ConnectTimedOut
    \/ SetDateTime \/ SkipDateTime \/ DateTimeDone

Network == SntpAnswers \/ LinkLost

Next ==
    \/ Call \/ Steps \/ Network \/ Disconnect \/ Restart
    \/ \E ok \in BOOLEAN : Return(ok)

Spec == Init /\ [][Next]_vars

-----------------------------------------------------------------------------
TypeOK ==
    /\ web \in {"idle", "readMac", "join", "waitConnecting", "clock", "setDateTime", "ready"}
    /\ isReadMac \in BOOLEAN /\ isWIFIConnect \in BOOLEAN /\ isSynchronized \in BOOLEAN
    /\ sntpStarted \in BOOLEAN /\ online \in BOOLEAN

\* The clock is never taken for set before the board has joined WiFi once:
\* a moment sent to the server rests on an answer of a time server.
ClockNeedsWiFi == isSynchronized => isWIFIConnect /\ sntpStarted

\* What the comment at buffer.cpp:31 says of the call of initWeb, and the
\* condition around the upload relies on: the board is connected.
ReadyIsOnline == [][Return(TRUE) => online]_vars
=============================================================================
