# FoxDen: a verification of the way of a pulse

FoxDen counts the pulses of water and gas meters. A board (ESP32, `src/borad/main`)
senses the contact of a meter, keeps pulses in a queue, joins WiFi from time to time and
posts them to a Flask server (`src/web/python`, PostgreSQL in `src/sql`), which moves the
indicator of the device, looks for leaks and mails the owner. A tool on a PC
(`src/borad/python_init`) writes the settings of the board over Bluetooth.

The TLA+ modules here model the way of a pulse from the contact to the table
`device_changes`, the leak alerts that the server draws from the table, the forms that
administrators save into it, and the tool that sets a board up. TLC checks them on small
instances; TLAPS proves the safety properties for every value of the constants, the two refinements of the
composition among them. `PROJECT.json` lists the runs, the source lines of each definition, the hazards and the theorems.

## 1. Inventory

| Component | Source | State | Operations | Hard behaviour |
|---|---|---|---|---|
| Pulse buffer | `buffer.cpp`, `main.ino` | `pulseQueue`, `queueMutex`, `lastQueuePut`, the locals of `SenderTask` | `putData2Buffer` (loop task), the loop of `SenderTask` | two tasks, a full queue, an old reading of the size, loss of power |
| WiFi session | `web_wifi.cpp` | `isReadMac`, `isWIFIConnect`, `isSynchronized`, `sntpFinish`, `synchronizationMutex`, `curr_timeinfo`, `synchronizationTime` | `initWeb`, `waitConnecting`, `setDateTime`, `sntp_notification`, `Disconnect` | sticky flags, a semaphore between a task and a callback, timeouts |
| Upload client | `rest_api.cpp` | `isConnect`, `access_token`, `pin_id` | `connect2Web`, `data2Web`, `sendData2Web` | lost and late requests, expired keys, retries |
| Device endpoints | `app.py` 787-841, 921-1038, `find_device.sql`, `add_device_changes.sql` | tables `devices`, `device_changes`; session keys | `/connect_device`, `/add_device_changes` | rollback of a whole vector, an error after the commit |
| Leak mails | `app.py` 80-550, `simple_email_sender.py` | `last_notifications`, `last_checks` | `should_send_notification`, `send_automatic_leak_email`, `check_single_device_for_leaks`, the monitor's loop | threads without locks, an entry written before the mail, failures that are not retried |
| Leak analyses | `leak_detector.py` | none between calls; the window of rows | the three `_detect_*` functions | rows that arrive late, the last segment, floors of the rates |
| Administration | `app.py` 1224-1560, `admin.html`, `update_device.sql`, `add_device.sql`, ... | the same tables, forms in browsers | forms that are read, edited, saved | lost updates, a NOTICE instead of an error |
| BLE settings | `bluetooth.cpp`, `bluetooth.h`, `preference.cpp` | `WIFI_SSID`, `WIFI_PASSWORD`, `SERVER_NAME` in RAM, flash and characteristics | `onWrite`, `setValue`, `setPreference`, `initPreference` | writes in one task, reads in another, loss of power between two copies |
| PC tool | `init_params.py` | BLE client, `value` of each parameter, `status` | connect, save, disconnect | coroutines interleaved at each `await`, clicks while a save runs, a broken link |
| Debounce and polling | `Bounce2.cpp`, `main.ino` | two state bits of each `Bounce` | `begin`, `update`, the loop over the pins | flicker, a loop held up by a full queue, restarts |
| Last message, LED | `debug.cpp`, `pulse_led.cpp` | | | a lazily created semaphore |
| Dashboard and pages | `app.py` 558-785 | none of its own | queries | |
| Libraries | `src/borad/libraries` | | | third-party, not modelled |

How they interact. The loop task and `SenderTask` share the queue and `queueMutex`.
`SenderTask` calls `initWeb`, drains the queue, calls `sendData2Web` and `Disconnect`, all
in its own thread. The SNTP client calls `sntp_notification` in another one. Requests go
over HTTP; the answer travels on the connection of its request, so a client that timed out
never sees it although the server may have done the work. Everything on the board but the
three settings is lost with power. On the server every request is one transaction.

What makes each part correct:

* buffer: order, no duplicate, no loss but at a full queue or by a loss of power; a backlog leaves the board;
* WiFi session: ready means a clock that was set; the semaphore never blocks for ever, fails to exclude in two known ways only, and the time base is whole all the same;
* upload and endpoints: no pulse recorded twice, a vector recorded as a whole, indicator and rows agree, the call returns;
* the whole: a pulse is in one place, recorded at most once, in the end recorded when nothing fails;
* input: a closure of a contact is counted once, and counted if it lasts;
* leak mails: few mails of a kind in four hours although the cache has no lock and is lost at a restart, no kind silenced without a mail, a leak that lasts is told in the end;
* leak analyses: exactly the long runs are found, and later rows take no alert back;
* administration: an indicator is never ahead of its rows, and behind only in known ways; one device per contact;
* settings: the three copies agree, "saved" means that nothing older than this save, the clicks during it and the saves beside it is in flash; a write spoils only its own setting of a session.

## 2. Modules

```
 MeterReading  (promise)
      ^ refined by
   FoxDen  --- INSTANCE ---> PulseBuffer <-- EXTENDS -- MeterInput   PulseBufferProofs
      |    --- INSTANCE ---> WebInit <-- EXTENDS -- ClockSync        ClockSyncProofs
      |    --- EXTENDS ----> DataUpload -- EXTENDS --> MeterServer   DataUploadProofs
   MCFoxDen                  MCDataUpload

   FoxDenProofs: EXTENDS FoxDen and DataUploadProofs, INSTANCE of PulseBufferProofs

 LeakNotifier    LeakNotifierProofs        BoardSettings <-- EXTENDS -- InitTool
 LeakDetector    LeakDetectorProofs            MCInitTool, InitToolProofs
 DeviceAdmin     MCDeviceAdmin, DeviceAdminProofs
```

**PulseBuffer** has the two tasks. `loopPc`/`putting` is the loop task inside
`putData2Buffer`: `Sense` (the call), `PutAccepted`/`PutTimedOut` (the two results of
`xQueueSendToBack`), `MarkPut` (the critical section). `pc`, `queueSize`, `batch` are
`SenderTask` and its locals: `ReadQueueSize`, `Decide` (take, condition of line 30),
`InitWebReturns(ok)`, `ReceivePulse` and `ReceiveTimedOut` (the loop of line 35),
`SendBatch`, `SendReturns`. `mutexFree` starts FALSE because `xSemaphoreCreateBinary`
creates an empty semaphore; no action makes it true, as no code does. A pulse carries a
history id, so that order and duplicates can be stated. `handed` is what
`sendData2Web` was given.

**MeterInput** EXTENDS it with what comes before the call: the contacts, `Debouncer::update` and the
loop over the pins, in the order of `GPIOPin`. `Poll(p, reading)` is one pin's turn; a pulse takes the loop into
`putData2Buffer`, and the next pin waits until it is over. A contact is a reading chosen anew at each poll. Polls are a second apart and
the interval of Bounce2 is 10 ms, so its clock has always run out: the second equal reading is the new state. `uncounted` is a history: the
contact was seen to close and no pulse has been given for it.

**WebInit** is `initWeb` with one action per step; the access point and the time servers
are the environment (`ConnectTimedOut` and `LinkLost` are guarded by `Faults` and
`LinkDrops`). **ClockSync** EXTENDS it with the semaphore: `dt` is `setDateTime`, `cb` is
`sntp_notification`, `mutex` is none, created or deleted, `tokens` its count. `setDateTime` gives the semaphore
outside the `if` (web_wifi.cpp:216): `TakeFails` goes to "give" without holding it. Nothing bounds how long a side holds the
semaphore (the callback prints under it), so a take may time out whenever it is empty, also while the callback is inside; the give then lets
`setDateTime` in beside it. The callback's four writes are steps of their own. A take on a
deleted semaphore may return either answer (`CallbackTakesDeleted`); a crash there is
`SyncRestart`. The history `loose` says that one of these two has let somebody past. `ImplementsWebInit` is the refinement back to WebInit's `Spec`.

**MeterServer** has the two endpoints, one atomic step each: the board cannot see the middle
of a handler and the database transaction is atomic. `changes` is `device_changes` in commit
order, `indicator` counts steps of `step_increment`. A device's key for its pin is spelt
`"pin:"` as in app.py:818. `Commit` may still answer 500, because the code after the commit
can fail. `SwitchDevice` is `update_device` as far as the state goes.

**DataUpload** EXTENDS it with the client. `up` is the place in `sendData2Web` and
`data2Web`; `conn` is the connection held open; `GiveUp` closes it and leaves the request
on its way or not. `slash` says whether `SERVER_NAME` ends with "/": without it
`PostMisdirected` (rest_api.cpp:208). `given` is a history of the vectors.

**FoxDen** EXTENDS DataUpload with the parts that DataUpload takes for its environment, PulseBuffer and WebInit. Its
specification is `SystemSpec`, so that `Spec` remains that of the upload. The calls and returns of
`SenderTask` are joint steps: `Decide` with `initWeb`'s call, `InitWebReturns`, `SendBatch`
with `sendData2Web`'s call, `SendReturns` with `Disconnect`. `Reboot` takes the whole board.
`online` belongs to WebInit and is read by DataUpload.

**LeakNotifier** has the checks that look for leaks (threads of uploads, requests of the dashboard) and the monitor. A
check goes through the alerts one by one: `Look` and `Claim` are the two lines of `should_send_notification`, with any other step in between,
`Send` is the mail. The monitor's `Visit` has a memory of its own and does not ask the cache. Time is kept as ages, in quarters of
an hour, up to the limit that the code compares with; `QuarterHour` waits until no check is between the two lines (microseconds in
the code). A restart empties the cache and the monitor's memory; the four hours of the owner go on. So the histories `windowAge`, `claims` and `lives`
(the four hours after a first claim, the claims in them, and one more than the restarts in them) outlive it, and `MaxRestarts` bounds the
restarts in one window. They, `tried` (a mail followed the last claim) and `told` (the owner knows of it) follow one alert, `watched`, a device and a kind that `Init`
chooses freely and no step changes: what is shown of it is shown of every alert, and TLC has one set of histories instead of one for each.

**LeakDetector** has the window of rows and the analyses. The scan of `_detect_long_continuous_usage` takes one step per iteration,
so that the code's loop is what is checked against the definition of a maximal run; the other two analyses are expressions. Rows arrive with moments in the past, since a board uploads
late, and leave the window after a day.

**DeviceAdmin** has the forms of administrators and the boards. A save is two statements, `CheckContact` and `WriteDevice`, because PostgreSQL
runs the procedure at READ COMMITTED; so is the recording of a row, `FindDevice` and `AddChange`. A form holds the indicator that it was
filled with (`LoadDevice`); `known` are the ids a board learnt at its last login. `overtaken` is a history of the two ways in which a row can be lost
from an indicator. MeterServer has the same endpoints from the board's side, with keys and rollbacks but without administrators.

**BoardSettings** has the three copies of a setting and the write of a characteristic in three steps: `WriteArrives` (NimBLE stores
the value, the assignment starts: a reader meets `Torn`), `SetValue`, `SetPreference`. **InitTool** EXTENDS it with the tool: every handler is a coroutine, so each part
between two awaits is an action. `saver[i]` is the setting a save handler writes, `request[i]` the write it awaits,
`value` the parameters that all handlers share. A broken link takes a request along, but a write that the board has received is carried out. 
`clicked` is a history of each save handler: its own form, the forms clicked since, whether refused or not, and what the saves beside which it began had noted.
`saved` keeps that of the last save that ended with "Параметры сохранены", until the next click. `session.touched` are the settings that a write overlapped with in this session of `SenderTask`.

**MeterReading** is the promise: a pulse that was sensed waits until it is recorded, once, or
lost for good. FoxDen's `KeepsPromise` maps `waiting` to the pulses that are anywhere between
the contact and the table, and `recorded` to the number of rows of each pulse.

## 3. Runs

| Run | Question | Bounds |
|---|---|---|
| `buffer` | MeterInput: closures counted once and counted at all; order, losses, sessions, the half-hour limit, draining | 3 pulses, 2 pins, capacity 2, limit 2, a clock of 2 values with a limit of 0, one restart |
| `upload` | retries, atomicity, the indicator, termination | 2 pulses, 2 pins and devices, indicator limit 1, two keys, one stale request beside the current one, `CONNECT_ATTEMPT` = 2 |
| `clock` | the semaphore, the time base, refinement of WebInit | 3 answers of time servers since a boot, any number of sessions and restarts |
| `foxden` | the composition with all faults refines the promise | 4 pulses of 1 pin, capacity 2, one restart, one stale request, one key |
| `foxden_calm` | liveness of the composition | 5 pulses, capacity 3, no fault but expired keys |
| `leak` | mails per window, no silent window, a lasting leak is told | 1 device, 2 kinds, 2 checks, 1 monitor, a window of 2 rounds, a recheck of 2, one restart in a window |
| `detector` | the scan, alerts that stay, an even flow | 6 rows, a clock up to 8, a day of 6, limits of 1 to 4 |
| `admin` | indicator and rows, one device per contact | 2 ids, 2 boards, 1 pin, 2 forms, 2 rows of a device |
| `settings` | copies, saves, sessions | 2 contents and the empty one, 3 forms, 2 save handlers, any number of broken links and losses of power |
| `upload_pins`, `web_online`, `leak_window` | the three findings | see the cfg files |

Why the bounds are enough. Capacity 2 with a limit of 2 makes the queue full and the limit
reached at the same size; the third pulse meets a full queue (in `foxden` the fourth meets one while a vector is under way). A
capacity that differs from the limit is in `foxden_calm`, and the theorems of section 5 hold for all
values. Two pins are enough for one to be held up by the put of the other. Two pulses of two pins make a vector with one good row and one bad row, and with an indicator limit of 1
also one that overflows. One stale request beside the current one is what a timeout leaves;
the board opens one connection at a time, and a second stale one can only repeat what the first did. Two session
keys tell an old from a new one; the code never compares more. The third answer of a time server comes after the first
session is over and its semaphore deleted. `MaxReboots` = 1 lets a loss of power happen at each step; after it the board
is in its initial state, and only the server remembers.

Devices do not share anything in LeakNotifier but the monitor, which visits all; two kinds make one mail with a fresh and a silenced
alert, and two checks race for each of them. A window of 2 rounds has one
that is inside and one that ends it, and so has the recheck; that the window is longer in the code makes no difference, since the monitor does not ask the cache and the checks do not ask its memory. One restart in a window
shows a kind mailed by two lives of the server; any number of windows follow each other. In `detector` a day of 6 with a clock up to 8 lets rows grow old and
lets a night begin again; six rows make two long runs with a pause between them, and at the end of the data. In `admin` two forms race for one contact, two boards for one device, and
the second row follows a row that a form overtook; `settings` has overlapping saves of two complete forms and a refused one with an empty address.
Ids, boards, forms and savers are only compared, so exchanging two of them is a symmetry. There is no liveness in the runs that use symmetry.

The runs of LeakNotifier and InitTool and `web_online` check for deadlock, and find none. The other runs set `CHECK_DEADLOCK FALSE`:
their number of pulses, rows or answers is bounded, so the bounded system stops when
all are handled; in the code the tasks wait for more.

What the findings show:

* `upload_pins`: the server writes the key `"pin:"`, the board reads `"pin"`; all ids land on pin 0.
  A pulse of another pin goes out with device 0 and the foreign key rolls the whole vector back.
* `web_online`: `isWIFIConnect` stays true after the first join; in a later session `initWeb`
  answers true without WiFi, the queue is drained, the upload fails and the vector is lost.
* `leak_window`: `should_send_notification` promises one mail of a kind in four hours (app.py:87, 92). Two checks that both read
  `last_notifications` before either writes it get through together; `leak` shows what remains true.

These three are consequences of the code as it is, and the other runs are made with them in: the properties that
hold, hold of the code with its bugs. Two more disagreements show in properties that hold:

* `OnlyFullBatches`: `queueMutex` is created empty and never given (buffer.cpp:67, 26, 93), so `lastQueuePut` stays 0, though the comments at lines 8 and 23 call it
  the time of the last write, and the half-hour limit of line 30 is dead; a lone pulse waits for a second one.
* `SavedMeansStored`: the save handlers share `Characteristics` and copy the fields before they check them (init_params.py:472). A save whose writes are under way (558) may be followed by a click
  that the check refuses: the save goes on with the new fields, an empty address among them, and shows "Параметры сохранены" (485) for the mixture. The property says
  what such a mixture is made of, and that without another click there is none.

## 4. Fairness

* `PulseBuffer!FairSpec`: weak fairness of `SenderTask`. FreeRTOS runs a ready task, and each wait in
  it has a timeout (200 ticks, WIFI_TIMEOUT, HTTPClient's). Strong fairness of `InitWebReturns(TRUE)` says that WiFi that is
  tried again and again is joined at last; without it nothing can leave the board. No fairness of the loop task: a meter may be still.
* `ClockSync!SyncFairSpec`: `SenderTask`, the callback once it has started, and the passing of time. Answers of servers are not fair.
* `DataUpload!FairSpec`: only the client. Termination does not depend on the server or the network.
* `MeterInput!InputFairness`: Arduino calls `loop()` for ever and each wait in it ends (weak fairness of `LoopTask`), and the fairness of `SenderTask` as
  above. The contacts are not fair. Without the first, `HeldClosureIsCounted` would say nothing about a queue that stays full.
* `LeakNotifier!Fairness`: time and the monitor go on, a thread gets through `should_send_notification` once it has begun, and a monitor that mails about a device again and again succeeds
  at last (strong fairness of that one outcome). The mails of checks are not fair, and nothing says that restarts come to an end.
* `FoxDen!SystemFairSpec`: `SenderTask` (all its parts) and the server's threads; used with `Faults = FALSE`.

## 5. Theorems

All are proved by TLAPS for every value of the constants, under the named assumptions of the modules: capacity and
limit positive with the limit not above the capacity, bounds and limits natural numbers, `Faults` and
`LinkDrops` Boolean, devices distinct from 0 with a contact each, finite sets of devices and checks, markers such as `None` and `Torn` outside the data. TLC evaluates the assumptions in the runs.
Most safety properties of the runs are theorems; each needs an invariant that is stronger than itself.

**PulseBufferProofs**
* `TypeCorrect`: `TypeOK` is inductive.
* `OrderKept`: `InSensedOrder` is not inductive alone, since a new pulse could be older than the last one. `OrderInv` adds
  "no pulse of the pipeline is newer than `sensed`" and "`putting` is empty outside the put". The lemma `PipelineStep` says what a step can do to
  the sequence `handed \o batch \o queue \o putting`: leave it, add the newest pulse at its end,
  cut the put off (`PutTimedOut`), or cut all but `handed` off (`Reboot`). The order follows from two lemmas about
  increasing sequences.
* `LossesKnown`: the action property `LostOnlyWhenFull`, from `OrderInv` and `PipelineStep`.
* `SessionsSend`: `SessionInv` says that `queueSize` is never more than the length of the queue between the reading and the drain, because only
  the loop task touches the queue then, and it adds.
* `FullBatches`: `NeverMarked` (the semaphore is never free, `lastQueuePut` is 0) makes the first disjunct of the condition decide alone.

The last part of the module is about MeterInput:
* `InputImplementsBuffer`: each step of `InputSpec` is a step of PulseBuffer or leaves it alone, so its theorems hold behind `loop()`;
* `ClosuresCountOnce` (`OncePerClosure`): `ClosureInv` says that a `Bounce` whose state is still HIGH and whose last reading is LOW has not yet given a pulse for this closure.

**ClockSyncProofs**: one invariant, `SyncInv`. `Holding` says who has the semaphore as long as it is not `loose`: it exists exactly while `setDateTime` waits, in "check" and "delete" it is empty and the callback outside, and when it can be taken the callback is outside.
`Flags` ties the flags to what has happened, and does not need exclusion. From it follow `SyncTypes`, `SyncExclusion` (`ExclusiveUnlessLoose`), `SyncStamped`,
`SyncNeedsWiFi` (the clock is set only after a join; no run checks it), and, with the lemma `StepSimulation`, the refinement `SyncImplements`.

**DataUploadProofs**: `UploadInv`, in named parts. `HttpInv`: requests on their way have numbers of their own, an answer exists only on the connection that is open.
`GivenInv`: vectors of different calls have no pulse in common, and every row and every POST comes from one of them. `CopyInv` is the core: a pulse is on its way once at most and not after it was recorded; and as long as
`sendData2Web` may still post its vector, the vector is `Fresh`: neither recorded nor on its way. `PostInv` says why a repeat is harmless: the only copy is the request of the open connection, an answer of 401 means that it was not
recorded and is gone, an answer of 200 that it was recorded. A client that timed out does not repeat, which is why the late copy of its request does no harm. From it:
* `NoPulseTwice` (`RecordedOnce`), `VectorsAreWhole` (`BatchAtomic`), `SuccessIsTrue` (`SuccessMeansRecorded`);
* `IndicatorCountsRows` (`IndicatorAgrees`): rows of a device in two sequences add up (`RowsOfConcat`), so a commit moves the indicator by as many steps as it adds rows.

* `UploadTypes` (`TypeOK`) is not inductive alone: the attempts of `data2Web` stay below `CONNECT_ATTEMPT` only because a place in the code says which ones are used
up, the answers on a connection fit the place that waits for them (`TypeInv`), and an indicator is bounded because a commit checks it.

The lemmas are about `CalmStep`, a step of the upload or of its environment, and `FreeStep`, which allows a loss of power with any bound on faults: `FoxDenProofs` uses them for steps of the composition.
`RowOrder` (for the order of rows) says that the table, the vector and each POST rise, that everything given before the vector is older than it, and that no request is on its way but the one of the open connection.

A connection that is opened needs a number that no request has (`FreeNr`); that one is free follows from the pigeonhole principle.

**LeakNotifierProofs**: `WindowInv` bounds the claims of a window together with the checks that stand between the two lines: `claims + |Claiming| <= |Checks| * lives`. Checks get there only while the cache's entry is old, and then only earlier lives of
the server have claims in the window: `claims <= |Checks| * (lives - 1)`. A restart empties `Claiming` and adds a life, which leaves room for all checks anew. The window is never younger than the entry (`windowAge >= cacheAge`), so that
when it ends the entry is old too. `FewMailsPerWindow` follows; `ClaimsLeadToMails` (`ClaimsAreTried`) is inductive with the types of jobs.

**LeakDetectorProofs**: `ScanInv` is the loop invariant: the segments found are exactly the long maximal runs that end before row `i`, and `start` is the first row of the run that is open (`OpenRun`). `ScanFindsLongRuns` is the exit of the loop.
`AlertsAreKept` rests on the lemma that a row more only splits a gap (`InsertedGaps`): a stretch without pauses stays one, and `StayInv` carries it through the scan.
`EvenFlowsAreNormal` (`EvenFlowIsNormal`) needs two hypotheses that the constants of the code satisfy: five recent rows (two are enough) and three times the norm (twice is enough). Every row of an even flow stands where its number says (`EvenRows`):
the provers have no induction, so the proof takes the least row of which this is false (`LeastMember`, from the well-foundedness of `<` in the library). Then `n` recent rows span at least `n - 1` steps (`RecentEnds`), all `N` rows span `N - 1`, and `RateBound` compares the rates.

**DeviceAdminProofs**: `FormsInv` (a form's indicator is at most the rows, and equal unless overtaken), `BoardsInv` (a board moves only the device whose row it records), `RowsInv` (no rows without a device). From them `IndicatorNeverAhead`,
`IndicatorAgrees`, `ContactsAreUnique`, `AdminTypes`.

**InitToolProofs**: `CopiesInv` ties the half-written setting to the write in progress; `OneTruth` (`CopiesAgree`) follows. `OverlapInv` is the core for saves. It says of each save under way
that the forms it has noted hold whatever any save writes now or will write (`WritesFrom`), whatever the board is carrying out once the save's own first write has reached it (`BoardWritesFrom`; before that an older write may still be in the board), and what is in flash of the settings that it has written.
`SavedInv` keeps this from the message to the next click, for every setting: saves that go on after the message write only forms that the announced one had noted. `ConnectsAlone` says that nothing but a click overwrites `value` while a save is under way.
`SavedWasTyped` (`SavedMeansStored`) follows. It has no premise: overtaken saves and refused clicks are in it.
`SessionInv` says of every setting that no write has touched in this session that what was read is in flash, and that the write under way, if there is one, has touched it; from it `WritesSpoilTheirSetting` (`SessionUsesSaved`), with any number of writes during the session.

**FoxDenProofs** proves the composition from what was proved of its parts. The inductive invariant is
`SystemInv == BufferInv /\ TypeInv /\ LinkInv`: `BufferInv` is the invariant of PulseBuffer, `TypeInv` that of DataUpload, and `LinkInv` joins the two, since neither can say it alone:
* the pulses that the buffer handed over (`handed`) are those that the upload was given (`given`);
* `SenderTask` waits for `sendData2Web` exactly while the upload is at work, and `initWeb` is at work only while `SenderTask` waits for it;
* an upload that is idle holds no vector, and a vector that is about to be sent is not empty.

`SystemMovesBuffer` and `SystemMovesUpload` map every step of the whole to a step of each part. The second needs the order of the pipeline: the vector handed to
`sendData2Web` is later than all that were given (`VectorIsNew`), which is what DataUpload takes for granted. Then:
* `SystemInvariant`, `SystemImplementsBuffer`: the theorems about PulseBuffer hold of the whole;
* `SystemRecords`, `SystemCountsRows`: the properties of the upload hold behind the buffer and through losses of power;
* `PulsesInOnePlace` (`OnePlace`), `SessionsEndOffline` (`SessionEndsOffline`) from `SystemInv`;
* `SystemImplementsUpload` (`ImplementsUpload`), the refinement of `DataUpload!Spec`. It has a hypothesis, `Faults \/ (~LinkDrops /\ MaxReboots = 0)`: DataUpload without faults has neither a loss of WiFi nor of power, so it is refined
  only by a board that has none. With faults, nothing is assumed. `OnlineInv` (without faults and dropped links, WiFi is there while the vector is drained and sent) serves the second case;
* `SystemKeepsOrder` (`RecordedInOrder`), from `RowOrder` and `SystemInv`, for a system without timeouts and losses of power, as the property says;
* `SystemKeepsPromise` (`KeepsPromise`), the refinement of MeterReading. With `Buffered` and `Uploaded`, the pulses that are before and behind the call, what waits is `(Buffered \cup Uploaded) \ recorded` (`UnrecordedIs`). Each step senses one (`PromiseSense`),
  records the rows of a POST, which waited and had no row (`PromiseRecord`, with `CountOfDistinct`), or leaves fewer waiting (`PromiseLose`): a pulse moves from `batch` to the upload without being lost or doubled because of `OnePlace`;
* `CountedOnce` and `CountedGiven`, what the promise is worth: whatever keeps it counts no pulse twice and invents none.

Only model-checked: liveness under fairness (`BacklogIsDrained`, `HeldClosureIsCounted`, `CallReturns`, `SetDateTimeReturns`, `LeakIsReported`, `BacklogIsRecorded`), which is out of the prover's reach. Every other property of a
passing run is a theorem. The invariants used in the proofs were checked by TLC before they were proved.

## 6. What is not modelled

* the vendored libraries (`src/borad/libraries`: NimBLE, ArduinoJson and others), which are most of the lines of the repository. They are third-party code; where
  the board's code relies on one, the few lines concerned are modelled (`writeEvent` of NimBLE by `WriteArrives`) or an external definition stands for it. They are why the map covers a small share of all lines;
* moments: `moment` of a row, and the 32-bit arithmetic of rest_api.cpp:226-238; the runs tell pulses apart by an id;
* the hash of the MAC address and several boards at one server: boards share no row, since `devices` is unique by address and pin, except through administration (DeviceAdmin);
* a device without `step_increment` or `indicator` (NULL), and an administrator who edits the indicator: what it should be then is the administrator's word;
* the composition of the leak alerts, the forms and the tool with the way of a pulse: LeakNotifier takes any analysis, LeakDetector any rows, and a session reads any settings, so each is checked against more than FoxDen can do;
* in LeakNotifier an e-mail system that is switched off (nothing is sent or claimed), database errors in the monitor (logged, and the device is visited again after half an hour), the texts and severities of alerts, and `stop()`, which nothing calls. `background_monitor.py` is not imported by the server;
* users and passwords, which are single statements on one row, and the queries and charts of the dashboard, which read only;
* a `putString` that fails (NVS full): `setPreference` does not look; in the tool the search for boards, the layout and the state of single widgets; in the admin page the answer of `/api/device` that comes after another form was opened;
* memory: allocation failures of queue, semaphores and vectors;
* the initial part of `setup`, LED, debug output, and everything marked `not_modelled` in `PROJECT.json`.

## 7. What could follow

All components with state that lasts are modelled. Left, in order of worth:

1. The polling of the pins in front of the whole: MeterInput is composed with PulseBuffer only, not with FoxDen.
2. Moments: the 32-bit difference of rest_api.cpp:228 against real time, then LeakDetector over the rows that arrive with such moments.
