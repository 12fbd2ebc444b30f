# Verification of ChemLinkPlatform

TLA+ models of the gateway in this repository, checked with TLC and, for the
theorems listed below, proved with TLAPS. All paths are relative to the
repository; `main.c` etc. are the files under `src/core/`.

## 1. The system

The gateway is one Linux process. Threads sample sensors and two field buses,
exchange samples through mailboxes, store them in SQLite, upload them over MQTT
and show them on an LVGL screen.

```
 pthread_rs485 --> g_rs485_buf --+                +--> lvgl box    --> pthread_lvgl_recv --> UI thread
 pthread_can   --> g_can_buf   --+-> collect -----+--> storage box --> pthread_storage --> g_batch_buf --> SQLite
 sensor HAL    ------------------+  every 2 s     +--> mqtt box    --> pthread_mqtt  <---- unsynced rows --+
                                                                          |  ^
                                                        MQTTClient thread (connlost, msgarrvd)
```

| component | state | operations | interacts with | what is hard |
|---|---|---|---|---|
| mailbox (`mailbox.c`) | registry of tasks, per task a list, `cur_len`, lock and condition variable | register, send, receive, wait for all | all task threads | head and nodes used outside the lock that guards them, overflow, wakeups, a registration that fails half way |
| storage (`storage.c`) | `g_batch_buf`, table `sensor_data`, alarm, threshold and user tables, one lock | batch insert, flush, query unsynced, mark, clean; alarms; thresholds; users | storage, mqtt and UI threads | two threads flush one buffer; statements fail one by one; rows deleted while they are uploaded |
| mqtt (`mqtt.c`) | `g_mqtt_connected`, `g_reconnect_delay` | init, reconnect, send_all, callbacks | mqtt thread, library thread | connlost at any moment; QoS 0; a broken session that nobody has noticed |
| threads (`main.c`) | loop counters, `reconnect_delay`, batch and ids of a resume | collect, storage and mqtt loops, resume | everything above | periods, outages, restart during an outage |
| device registry (`main.c`) | id lists and value buffers for RS485 and CAN, four locks | add, remove, poll, receive, snapshot | UI, bus threads, collect | list and buffer change under different locks, one after the other |
| alarm manager (`alarm_mgr.c`) | 100 records, unread counter, 64 deduplication slots, thresholds | check, confirm, clear, set thresholds | UI thread, collect (reads thresholds), storage (trylock) | slots and records at their limit, counter kept by hand, torn read of thresholds |
| trend page (`ui_trend.c`) | query strings, loading and ready flags, points | query, background thread, timer | UI thread, query thread, storage | flags outside the lock, failures on each path |
| session (`auth.c`, `ui_login.c`, `ui_common.c`, `ui_alarm.c`, `ui_settings.c`) | role, page, dialogs | login, logout, switch user, navigation | UI thread only | dialogs left over, roles checked in some callbacks |
| UI hand-over (`lvgl_ui.c`) | latest sample and its flag | put, timer | lvgl_recv and UI threads | one variable under one lock |
| HAL and drivers | device files; the spinlock of the DHT11 driver | read, control | collect | conversion widths, the lock on the timeout path |
| log (`log.c`) | a file | write | all threads | no state that another part reads |

LVGL, lv_drivers, the binary libraries and the headers of OpenSSL, Paho and
SQLite are third-party code and are not modelled. SQLite and the MQTT client
appear only as their callers see them.

### What makes each component correct

* **mailbox**: `cur_len` is the true length and bounded; messages of one sender
  keep their order; the newest message is never the one dropped; nobody sleeps
  on a non-empty list; a lookup finds what is registered; no new pointer to a
  freed node.
* **storage and upload**: the buffer is not overrun; no sample is stored twice;
  a stored sample leaves the table only by age; only what was handed to the
  MQTT client is marked; a resume goes on only while it takes rows off the backlog, and
  clears what it found.
* **connection**: both delays agree with the number of failures; the flag does
  not outlive the session for ever.
* **registry**: a registered device has an entry, with its latest reading, as
  long as the buffer has room; entries of a device do not pile up; a removed
  device is gone; list and buffer stay within their arrays.
* **alarms**: a pair of type and source is listed at most once in 30 seconds, and
  never passed over; an alarm that lasts comes again; the alarm page shows the
  list; the thresholds the user set are kept through restarts and bad readings.
* **trend page**: one query at a time; loading ends; no answer but
  a late "Memory error" is left standing for that of a newer query; the points of a chart partition the rows.
* **session**: label, buttons, bar and page belong to the role logged in, over
  every sequence of logins, dialogs and page changes; no dialog is left behind;
  a password set is the one in force after a restart.
* **LED and buzzer**: a pass over the sensors finds an alarm only for a value
  beyond a bound that was in force; LED and buzzer come to agree with the
  thresholds.

## 2. Modules

| module | stands for |
|---|---|
| `LossyMailbox` | what a user of a mailbox is promised (abstract) |
| `Mailbox` | `mailbox.c` with its threads, registry, locks and condition variables |
| `MCMailbox` | its constants for TLC |
| `MailboxProofs` | theorems about `Mailbox` |
| `Outbox` | what store and forward promises for one sample (abstract) |
| `Uplink` | `storage.c` and `mqtt.c` with the threads collect, storage and mqtt |
| `MCUplink` | its constants for TLC |
| `UplinkProofs` | theorems about `Uplink` |
| `DeviceRegistry` | the device lists and buffers of `main.c`, the two bus threads and the UI thread |
| `MCDeviceRegistry` | its constants for TLC |
| `DeviceRegistryProofs` | theorems about `DeviceRegistry` |
| `AlarmMgr` | `alarm_mgr.c`, the UI timer, the alarm page and the row of thresholds |
| `MCAlarmMgr` | its constants for TLC |
| `AlarmMgrProofs` | theorems about `AlarmMgr` |
| `TrendQuery` | `ui_trend.c`: the handlers of the page and the query threads |
| `Downsample` | the limits of the points of a chart (`downsample_avg`) |
| `DownsampleProofs` | theorems about `Downsample` |
| `Credentials` | how `storage.c` writes and reads a password |
| `CredentialsProofs` | theorems about `Credentials` |
| `Access` | who may see and change what at the screen (abstract) |
| `Console` | `auth.c`, `ui_login.c`, `ui_common.c`, the accounts of `ui_settings.c`, the UI timer |
| `MCConsole` | its constants for TLC |
| `ConsoleProofs` | theorems about `Console` and `TrendQuery` |
| `Indicators` | the pass of collect over sensors and thresholds, LED, buzzer, HAL, lock of the DHT11 driver |
| `MCIndicators` | its constants for TLC |
| `IndicatorsProofs` | theorems about `Indicators` |

`Mailbox` implements `LossyMailbox` (property `BoxSafe`, with fairness
`BoxFair`); `Uplink` is composed of two boxes of `LossyMailbox`, whose `Put` and
`Get` are conjuncts of its actions; `Uplink` implements `Outbox` (`OutboxSafe`);
`Console` implements `Access` (theorem `ImplementsAccess`).
In this way the upper model does not repeat the locks of the lower one.
`DeviceRegistry` stands alone: nothing but collect's copy of the buffers connects
it to the rest, and that copy changes nothing. `AlarmMgr` stands alone as well: it
is given samples, and the storage lock shows only as a record not persisted.
`Console` EXTENDS `TrendQuery` and `Credentials`: roles, pages and dialogs of the UI
thread composed with the query threads of the trend page and the rows of
the passwords, each handler of the page a conjunct of an action of the console.
`Indicators` stands alone: it shares the thresholds with `AlarmMgr`, but what matters
there is what the UI thread assigns while collect reads, and not when it saves.

### Mailbox

A node is named by its task. `linked` is the set of nodes in the list behind
`PthreadHead`: nodes are only inserted at the head and only by `main()`, so the
position in `Order` gives the place in the list. `queue` and `curLen` are the
message list and `cur_len`, kept apart because the code counts by hand.
`pc`, `ptr`, `want` are the program counter and locals of the thread.

What runs under `PthreadLock` or `ListLock` is one step. Reading the head of the
registry (before the lock is taken) and using the node found (after it is
released) are steps of their own, which is where the hazards are:
`SendBegin`/`RecvBegin` read the head, `Search` walks under the lock,
`SendAppend`/`RecvTake`/`RecvWait` work under the lock of the node.
`TouchFreed` is the use of a node after `free`; the thread is "undefined" from
then on. Failing allocation, lock initialisation and `pthread_create` are
`NodeFails`, `CreateFails`, `FreeNode` and `SendNoMemory`; `SpuriousWakeup` is
allowed at any time. `listed` and `last` are history variables.

### Uplink

A sample is the number of the collect cycle that produced it. `batch` is
`g_batch_buf`, `rows` maps ids to samples, `synced` is the column of that name,
`nextId` is AUTOINCREMENT. `fetched` and `sentIds` are `batch[]` and `ids[]` of
`resume_unsynced_data`. `session` is the TCP session with the broker: "up",
"broken" as long as nobody noticed, "closed"; `callback` says that the library
still owes the call of `connlost`.

What runs under `g_storage_lock` is one step: `StorageTake`
(`MailBoxRecvMsg` and `StorageBatchInsert` with its flush), `StorageClean`,
`ResumeFlush`, `ResumeQuery`, `ResumeMark`. Each upload is a step
(`ResumeSend`, `ResumeSendFails`, `MqttLive`), so is connecting
(`MqttInitConnects`, `MqttConnects`) and, separately, setting the flag and the
delays (`MqttInitRaises`, `MqttRaises`). `StorageOverrun` is the write to
`g_batch_buf[STORAGE_BATCH_SIZE]`; the process is "undefined" afterwards.
`PowerFails` restarts the process: only the committed table and its ids stay.

What may fail is the constant `Faults`: BEGIN, each INSERT, COMMIT, the SELECT,
each UPDATE and the allocation in `resume_unsynced_data`. A COMMIT that fails is
followed by a ROLLBACK that succeeds. Connecting and uploading may fail in every
instance.

Assumptions and abstractions: `StorageInit` succeeds (main calls it before any
thread exists); ids are in the order of timestamps, that is, the clock is not
set back; the age of rows is arbitrary, so a clean-up deletes any prefix; the
DELETE itself succeeds or deletes nothing, and the checkpoint changes nothing
that is modelled; the cycle of a restarted collect is aligned to both periods, as
cycle 0 is; the lvgl box has no part. A sample carries no payload.

### DeviceRegistry

RS485 and CAN have a list and a buffer each and share only the UI thread, which
calls one function at a time: seen from one bus, a call for the other bus is a
pause of the UI thread. So a behaviour is about one bus, and `Init` chooses which.
`ids` and `buf` are the arrays up to their counts.

Each function the UI calls takes two locks one after the other and is two
steps: `AddToList` then `AppendEntry`, `RemoveFromList` then `EraseEntry`; `ui`
says which half is due. Calls that return -1 change nothing and are left out.
Both removals swap the last element into the gap (`SwapRemoved`).
`pthread_rs485` copies the list (`Rs485Copy`), then reads each device
and stores the answer under the lock of the buffer (`Rs485Read`) or goes on
(`Rs485ReadFails`). `pthread_can` looks the id of a frame up under one lock
(`CanReceive`) and stores it under the other (`CanStore`). `recvfrom` returns -1
when its second is over; `nbytes < sizeof(struct can_frame)` compares that as an
unsigned number, which is large, so the loop goes on with the `frame` it has
(`CanTimeout`). `frame` is not initialised: at first it is any frame.

Readings are not zero, so that they can be told from an entry never filled.
`latest`, `late` and `crowded` are history variables and guard nothing.

### AlarmMgr

All of `alarm_mgr.c` is called from the UI thread: by `update_timer_cb`
(`TakeSample`, then `AlarmMgrCheck` once for each comparison, then `ShowAlarms`)
and by clicks (`SwitchPage`, `ClearAll`, `SetThreshold` with `SaveThreshold`),
never by two callbacks at once; `ui` says what it has begun. The thread that hands
over samples (`LvglUiUpdateData`), the clock and power failures come between any
two steps. A comparison is a step because `add_record` reads the time and tries the
storage lock for each.

`time()` appears in `now - last_ts < ALARM_COOLDOWN_SEC` only, so a slot keeps its
age up to the cooldown instead, and the clock is not set back. A sample is a
sequence of readings, each compared with an upper and a lower bound; the code has a
fixed sequence for the board and loops for the devices. `version` is compared for equality
with the version drawn last; `changed` is the answer. A start inserts the
defaults if there is no row and reads the row (`LoadThreshold`); a SELECT that cannot be
prepared or run puts the defaults in force and leaves the row as it is
(`storage.c:670-690`), which `alarm_mgr.c:134` does not look at. Saving may fail as well.
Roles and the other pages are `Console`'s. `since`, `early`, `chosen` (what the user set
last), `unsaved` and `misread` are history variables.

### Console and TrendQuery

The UI thread runs one callback to its end, so each is one action; what
interleaves with them is the query thread. `switchBtn`, `navBar`, `settingsTab`
and `roleLabel` are widgets, `dialog` is the pointer `g_pwd_msgbox`, with the value
"gone" when the box it points to was deleted by its own button. A callback can run
when its widget can be touched (`Touchable`); nothing else can while the box lies
over the screen. `kb_event_cb`, `Elevate`, `Refuse`, `Cancel`, `CloseBox`,
`switch_user_btn_cb`, `logout_btn_event_cb` and `nav_btn_event_cb` are the ways
role and page change; each sets the widgets its code sets, and no others. A wrong
password at the login page changes a message only and is left out.

`query_thread_func` is four steps: allocation, statement, publishing the answer
(under the mutex) and clearing `g_chart_loading` (outside it), in the order of
the path taken. Its failures are no memory, a failing statement, more rows than
`MAX_QUERY_RECORDS`, and, in `do_query`, a thread that is not created. `found`
keeps "refused" and "empty" apart, for which the code has one count of 0. The ranges
of time are left out: `g_query_start` and `g_query_end` always hold those asked last, and
of what was found, published, shown and drawn the model keeps whether a query has been asked
after it (`old`, `chart`).

`AuthInit` reads the rows after a power failure. `StorageLoadCredential` uses the text of a
column after `sqlite3_finalize`: what it reads is the row, nothing, or a member of
`Garbled`. `PasswordKept` excuses that and a failed save (`spoilt`), and a password with
a character of the key. The first start finds no row and saves the defaults,
which is taken to succeed.

### Credentials and Downsample

A character is a number, `Xor` a constant operator with the laws the theorems need;
the hexadecimal digits are read back as they are written and left out, the C strings'
end is not. `Downsample` gives the limits `(int)(i * step)` as sets: exact,
or one below where the product is whole and double precision may round it down.
That is coarser than the build, in which only some products do.

### Indicators

A pass of `pthread_collect` is `ReadSensors`, one `Compare` for each bound in the
order of the code, `LedControl`, `BeepControl`. `AlarmMgrSetThreshold` assigns a struct:
its fields change one by one and in any order (`Assign`), a field at a time since
the bounds are whole numbers. A failing sensor leaves 0 (`Measured`), a failing
write leaves the device as it is. `locked` says that `dht11_read` has returned with its
spinlock held; on a build where spinlocks do spin (`SpinLocks`), the next read never
returns (`Hang`). A read of a sensor that is down may hang as well: the waits for the levels
of the data line (`dht11_drv.c:49`, `60`, `65-66`) have no limit.
`inForce` and `written` are history variables.

## 3. Runs

| run | question | size |
|---|---|---|
| `mailbox_failing` | counting, order, wakeups, lookups, freed nodes, refinement while tasks are still being registered and the registration of either receiver may fail | 3 tasks, one of them the sender, 7 messages, capacities 6 and 2 |
| `mailbox_live` | is every queued message taken or pushed out, does the refinement hold with fairness | 3 messages, capacities 2 and 1 |
| `uplink_safe` | buffer, table, marks, delays, refinement with every fault, lost sessions, clean-up and one power failure | 3 samples, batches of 2 |
| `uplink_live` | does a resume get on, does the flag heal, is the backlog cleared | 3 samples, resume batches of 1, no failing statement, no restart |
| `uplink_restart` | violated: `OwedResumed` | one restart |
| `uplink_waits` | violated: `WaitsAsDocumented` | no failing statement, no restart |
| `registry_safe` | list and buffer under additions, removals and the thread of either bus | 3 ids, arrays of 2, 2 readings |
| `registry_removed` | violated: `RemovedIsGone` | the same |
| `alarm` | when may an alarm repeat early, is one passed over, does one that lasts come again, is the alarm page current, are thresholds kept through a restart | 2 points (3 alarms possible), 1 slot, 2 records, cooldown 2, one power failure |
| `console` | do screen and role agree, are dialogs closed, is the password kept; one query at a time, which answer is shown, does loading end | 2 query threads, 0 to 2 rows where 1 fits, 2 new passwords, power failures at will |
| `trend_nodata` | violated: `NoDataMeansNone` | no statement fails |
| `indicators` | is every verdict justified, do LED and buzzer follow | 2 sensors, 2 bounds, 2 settings, 1 device down at a time |

**Bounds.** A list of capacity 6 is the smallest that drops two messages in one
overflow (6 to 4), capacity 2 drops one; seven messages overflow it. Both
receivers may fail to be registered: `lvgl` is registered last, so that its node can be the
head at which a call of `storage` has begun when it is freed. One sender
is what the program has (only collect sends); the theorems cover any number of
senders. In `Uplink`, batches of 2 have a first, a last and a partial
failure; three samples fill a batch and start another; resume batches of 1 or 2
make both one round and several. The maximum delay 6 is reached after two
failures and is not a power of two, as 60 is not. Mailboxes of capacity 1
overflow at once. `CollectBeyond` keeps samples for mqtt coming for ever, so that
bounding the samples stored does not stop the reconnecting thread; all of these
are the sample `MaxCycle`, whose identity no property of the upload uses.
In `DeviceRegistry` three ids do not fit into arrays of two, so both the list and
the buffer get full, the buffer also with entries of removed devices; the id 0
exists on the CAN bus only. Nothing else is bounded: `late` stays small by itself.
The theorems cover arrays of any size, 50 as in the code included.
In `AlarmMgr` three alarms are possible with the samples given, so that one slot
and two records get full; a sample may have two readings of one point, as a device
may have two entries. Two thresholds differ in what they let pass. The theorems
cover 64 slots, 100 records and 30 seconds.
In `Console` characters are two bits wide and the key has two of them; one new
password has a character of the key at its place, the other has none. There are
two query threads, so that a second query could run if the flags let it, and does run beside
a thread without memory.
No bound but the number of threads is set: power failures and queries go on for ever.
In `Indicators` both settings give an alarm for the first reading and a mixture of them
gives none, which is the torn read; for the second reading the settings differ.
A single device is down at a time, any of the two sensors, the LED and the buzzer.

**Deadlock** is checked in all runs but two: in `uplink_safe` the process may end
"undefined" after a BEGIN has failed, and in `mailbox_failing` both receivers may be lost,
so that nothing is left to do once the sender is at its bound.

**Fairness.** Weak fairness of every thread: each is an endless loop of its own
that the kernel schedules; a thread that waits for a message is not enabled. Main
registers without waiting for anything. The library notices a broken session by
its keepalive and calls `connlost`. Nothing is assumed of the network: connects
may fail for ever, sessions may break at any time, and uploads may fail for ever.
`BacklogResumed` therefore says "cleared, or the connection was lost again".
Nothing is assumed of the user, spurious wakeups or power failures either.
In `AlarmMgr` samples keep coming, time passes and a callback that has begun goes
on. Taking a sample is strongly fair: clicks and the timer share one thread, each
callback ends, and `lv_timer_handler` runs the 200 ms timer in every round in which
it is due, so a busy user cannot put it off for ever.
In `Console` a query thread that exists is run, and `update_timer_cb` with a new
sample goes off, since collect hands one over every other second; nothing is assumed of the
user. In `Indicators` collect is run and an assignment that has begun ends;
nothing is assumed of the devices, the readings or the user.

### What the runs show

All properties of the eight passing runs hold. Four that documents and comments
suggest do not:

1. `OwedResumed`. `项目介绍.md:144` promises that what was stored in an outage is
   uploaded when the connection is back. `resume_unsynced_data` is called after
   a successful `mqtt_reconnect` only. If the power fails in an outage and
   `mqtt_init` of the next process connects, live uploads go on and the rows are
   not uploaded until some later outage ends, or they expire after a day.
2. `RemovedIsGone`. The comment at `main.c:592` says that a removed device is
   taken out of the buffer as well. A bus thread that has looked the device up
   before the removal appends a new entry after it, and nothing ever removes that
   entry: a second removal stops at the list. It is uploaded with every sample
   and takes the room of another device.
3. `NoDataMeansNone`. `query_entry_callback` ends the statement with an error at row
   801, the query has then failed as a whole, and the page shows "No data found".
   One row is stored every 6 seconds, so every range of more than 80
   minutes of samples is affected, the buttons for hours and days included, though
   `项目介绍.md:181` promises the history of the table.
4. `WaitsAsDocumented`. `项目介绍.md:145` gives the waits as 2, 4, 8, ..., 60 seconds.
   `pthread_mqtt` sleeps for `reconnect_delay` (`main.c:430`) and then calls
   `mqtt_reconnect`, which sleeps for `g_reconnect_delay` (`mqtt.c:115`). Both are 2, 4, 8,
   ..., 60 in step (`DelaysInStep`), so the thread waits 4, 8, 16, ..., 120 seconds, at
   every attempt (`WaitsTwice`).

Other things met while modelling. They are part of a model or of a property that
holds, and no run is about them alone:

* `NoOverrun` says that `g_batch_buf` is overrun only if a BEGIN has failed. It is
  then overrun, since `StorageFlushBatch_locked` returns before it resets
  `g_batch_count`.
* `RepeatOnlyWithoutSlot` says when the 30 seconds of the comment at
  `alarm_mgr.c:22` are not kept: slots are never given back, and an alarm that
  finds all 64 taken is recorded with every sample, until the list is cleared. With 8
  alarms of the board and 4 of each device, 15 devices can take them; with 14 the
  comment is right (`CooldownKept`).
* A resume need not end: while rows are stored as fast as they are uploaded, each
  round flushes and finds new ones (`main.c:371-392`, `storage.c:434`).
  `BacklogAdvances` says only that it never turns on the spot.
* `NoFreshDangling` says that a freed node is reached only by a lookup that began before
  it was unlinked. Such a lookup does reach it: the head is read outside `PthreadLock`, and
  its owner may free it before the walk (`mailbox.c:296-305`).
* A SELECT that fails at the start leaves the defaults in force, and nobody is told;
  `ThresholdsKept` says that the row is not touched by it, so that the next good start
  brings back what was set.
* `SyncedWasSent` is about rows handed to the client. With QoS 0 (see the comment
  at `main.c:360`) those on a session that broke unnoticed need not have arrived.
* After a receive timeout `pthread_can` processes the frame before once more
  (`main.c:270`), or the initial content of its variable (`OneLateReading`).
* A query without memory clears its flag before its answer is published, so
  "Memory error" may be shown late, in place of the answer to a newer query; `ShownIsLast`
  says that no other answer is left standing for a newer one. A thread that cannot be created leaves
  the loading flag set for good, and an unwritten identifier is detached (`stuck`).
* The button of the password box deletes the box and leaves `g_pwd_msgbox` as it is.
  "Switch" then does nothing until the next change of page, which closes a box
  that has been freed (`ui_common.c:66` and `275`). The process is
  "undefined" then, and `NoDialogLeft` says nothing of it.
* A password with a character equal to the key's at its place is saved shorter, or
  empty, in which case the default is in force after a restart (`ReadBackUpToKey`).
  `项目介绍.md:152` calls the conversion OpenSSL; the code has a fixed key and XOR.
* A pass that reads thresholds while they are assigned may come to a verdict that
  neither setting gives (`Justified` speaks of each bound for itself); the next pass
  corrects it.
* A timeout of the DHT11 returns with the spinlock held: on a kernel whose spinlocks
  spin, LED, buzzer and all samples stop for ever; so they do, on any kernel, where the
  sensor stops in the middle of an answer. A sensor that fails is read as 0, which is
  compared like a reading. `IndicatorsFollow` and `Justified` excuse or include all three
  and catch none of them.
* The text of a column used after `sqlite3_finalize` (`storage.c:882`) and the character of
  the key (`storage.c:765`) are exceptions of `PasswordKept`, which does not catch them.
* `downsample_avg` may leave the newest row out of the last point; evaluated in
  double precision, it does for 30 of the row counts from 201 to 800 (`RowsCovered`
  says that no other row is missed).
* The button that clears the alarms follows the role only when the list is drawn
  again (`ui_alarm.c:113`). The page has no way to confirm a record and the settings none
  to control LED and buzzer, which `项目介绍.md:182` and `183` mention.

## 4. Proofs

All theorems hold for all constants that satisfy the named assumptions
(`TasksAssumption`, `OrderAssumption`, `LengthAssumption`, `UplinkAssumption`,
`RegistryAssumption`, `AlarmAssumption`, `TrendAssumption`, `KeyAssumption`,
`ConsoleAssumption`, `IndicatorsAssumption`): capacities and sizes are positive, names
are distinct, faults are arbitrary. TLC evaluates each of them in a run.

**MailboxProofs.**
* `CountingInv` = types, `CallsOK` (what a thread holds in each position of a
  call: a thread that has found its node holds the node it looked for) and
  `CountedAndBounded`. It is inductive and gives `TypeCorrect`, `CountCorrect`.
* `WakeupCorrect` (`NoLostWakeup`): a waiting thread's node is its own; every
  append to it wakes the thread in the same step.
* `RegistryInv` adds that linked nodes belong to tasks registered so far and
  that the node being freed is the newest. It is needed because a walk starts
  at a head read earlier: only the newest node can be unlinked, hence every other
  node is still behind that head. It gives `LookupCorrect` (`NoFalseMiss`, via
  `LookupOK`) and `DanglingOnlyFromBefore` (`NoFreshDangling`, with `FailedOK` below: a thread that
  has found its node is of a task whose registration has succeeded, which is never freed).
* `OrderCorrect` (`InOrder`): `Ascending` is kept by appending a newer message
  and by dropping from the front (lemmas `AscendingDropAppend`,
  `AscendingTail`), for any `max_len`.
* `UndefinedExplained` from `FailedOK`: only tasks of `MayFail` are ever freed, a task not
  registered or freed has no thread, and who touches a freed node holds another's
  pointer. So a thread is lost only to another task's failed registration.
  `SafeWithoutFailures` is the other side: with `MayFail` empty nothing is freed, nobody
  is lost, and who is registered stays linked, for any number of tasks.
* `ImplementsLossyMailbox` (`BoxSafe`): every step is a `Put`, a `Get`, an
  `Abandon` or a stutter; the overflow loop stays above four fifths.

**UplinkProofs.**
* `TypeCorrect` from six invariants, each proved with the help of the ones
  before it: mailboxes, buffer, upload, flags, delays, values.
* `BufferCorrect` (`NoOverrun`) from `BufferOK`: every flush empties the buffer
  or notes the failed BEGIN, so a full buffer between two steps implies one.
  `NoOverrun` alone is not inductive, the length of the buffer is needed.
* `UploadCorrect` (`SyncedWasSent`) from `UploadInv`: a copy fetched earlier
  still equals the row of the same id, if there is one. The reason is that new
  ids are greater than all ids ever given (`TableGrows`, proved for a flush in
  `FlushGrows`); with ids given twice the property fails, which is what the
  mutant of `NewId` shows.
* `NeverOverrun`: a note of a failed BEGIN needs one that can fail, so with `NoOverrun`
  the process is never "undefined" where BEGIN cannot fail, whatever else does.
* `LossExplained` (`LossNeedsPower`, an action property): where INSERT and COMMIT succeed,
  no step but a power failure adds to `lost`. A failed BEGIN keeps the buffer.
* `ResumeAdvances` (`BacklogAdvances`): ids join the unsynced rows only as they are inserted,
  and when a resume goes on to another round and no UPDATE can fail, it has taken all
  the rows of the last one, at least one, off the backlog. `MarkOK`: what is to be marked is
  not empty.
* `WaitsTwice` from `DelaysAgree`: the two delays are equal whenever the thread is
  about to wait, so every wait is twice the delay `main.c` knows: what the run
  `uplink_waits` shows of the first attempt is so at all of them.
* `DelaysCorrect` (`DelaysInStep`): both delays are `Documented(failures)`. `Waits` is a
  recursive function; that a function with its equation exists is proved without
  induction, by least counterexamples (`LeastExists`): there is a table of every length
  (`TableExists`), two agree where both are defined (`TablesAgree`), so their diagonal
  satisfies the equation (`WaitsDouble`).
* `StoredOnceCorrect` (`StoredOnce`) from `InOrder`: samples in the table are older than
  those in the buffer, those older than the ones in the mailbox, those older than
  the next; each place is ascending. `StoredOnce` alone is not inductive: that a
  sample in the buffer is not yet stored is what a flush needs.
* `ImplementsOutbox` (`OutboxSafe`): for each sample, every step is a step of
  `Outbox` or a stutter. `OnePlace` says that the places a sample may be in exclude one
  another, `StepKinds` which of mailbox, buffer, table and marks a step touches, and
  `LedgerOK` ties the stage of a sample to the table.

**DeviceRegistryProofs** (assumption `RegistryAssumption`: ids and readings are
natural numbers, arrays have at least one element).
* `ListInv` = types and `ListOK`: no id is listed twice, and a device being added
  is listed while one being removed is not. It is inductive and gives `TypeCorrect`.
  `SwapRemovedKeeps` says what moving the last element into the gap preserves;
  `FirstIsMember` that the loops which stop at the first match find one.
* `EntryCorrect` (`MissingOnlyWhenCrowded`) and `LatestCorrect`
  (`LatestIsShown`) are inductive with `ListInv`: a removal erases entries of a
  device that is off the list, and keeps every other (`EraseKeepsTypes`).
* `LateCorrect` (`OneLateReading`) from `LateOK`: a registered or pending id has not
  been stored since it was removed, and one pass handles an id once because the
  list it copied has no duplicates.
* `EntriesBounded` (`AtMostTwice`) counts entries: an `Append` adds one
  (`AppendCounts`), an erasure takes one (`EraseCounts`, with an injection from
  the places after it to those before), a stored reading makes one only where
  there is none (`StoreCounts`).
* `NobodyCrowdedOut`: with room for two entries of every id, no device finds the buffer
  full, since each has at most two and the one being added at most one (`RoomToAppend`,
  an injection of the buffer into pairs); so every listed device has an entry but the one whose
  entry is due.
* `LeftBehindExplained` (`LeftOnlyBy`): a removed device has an entry that nothing will erase
  only after a removal that found two, or a reading stored late. With
  `OneLateReading` that is one way of the bus thread, which is the run `registry_removed`.

**AlarmMgrProofs** (assumption `AlarmAssumption`: measured values are numbers, sizes
and the cooldown are positive).
* `TypeCorrect` bounds the list and the table; `StampedTable` says what the table
  is after a record.
* `CoolingOK` relates the table to the history: the age of a slot is the age of the
  alarm's last record, and a recorded alarm without a slot means a full table. With
  the types it is inductive (`CoolingAfterRecord` is the one hard step), and gives
  `RepeatsExplained` (`RepeatOnlyWithoutSlot`) and `NothingMissed`
  (`NoMissedAlarm`): an alarm is suppressed only by a slot, whose age is below the
  cooldown.
* `DrawnCurrent` (`DrawnIsCurrent`) from `ScreenOK`: while a sample is checked the
  page may be behind the list, and then `changed` says so.
* `ThresholdsSurvive` (`ThresholdsKept`) from `SettingsOK`: while a setting waits to be
  saved, it is in force.
* `CooldownKept`: with no more alarms than slots `early` stays empty. The slots are of
  distinct alarms (`SlotsDistinct`), so a full table without some alarm would be an
  injection into too few (`FullTable`).

**ConsoleProofs.**
* `ScreenCorrect` (`ScreenMatchesRole`) and `DialogsCorrect` (`NoDialogLeft`) are inductive
  together: that a role may change behind a box is harmless only because the
  box is an operator's, and an open picker only because it is the trend page's.
* `OneQueryAtATime` (`OneQuery`), inductive with `QueryTypes`.
* `ShownInOrder` (`ShownIsLast`) from `AnswersInOrder`: what a thread with memory is about
  to publish is about the query asked last, and once all threads have published, an older
  answer can only be that of a thread without memory. The theorem speaks of the states in
  which all threads have ended and all answers were looked at, those paths included.
* `WaitAnswered` from the same invariant: while the label says "loading" an answer is
  ready or a thread is on its way to one, unless none could be created. This is the
  safety kernel of `AnswerShown`.
* `PasswordCorrect` (`PasswordKept`) from `PasswordsOK`, which adds that the row,
  where it is not spoilt, is the password as it is stored; the step of a restart
  rests on `ReadBack` of `CredentialsProofs`.
* `TypeCorrect` from `ScreenTypes` and the invariants above.
* `ImplementsAccess`: role, page and passwords change only by steps of `Access`, all others are
  stutters of it. `pwd_keyboard_cb` sets the role of whoever's password it is given;
  that this never makes an administrator an operator is due to `NoDialogLeft`. TLC agrees
  on the constants of `console`.
* `NoDataIfFits`: with `MayFail` false and no range of more rows than fit, nothing is ever
  "refused" (`NothingRefused`), so `NoDataMeansNone` holds: what `trend_nodata` shows comes from
  the limit alone.
* `AdminKept` from `AdminOK`: the administrator's row is the one of the first start for
  good, and the password in force is that of `auth.c` or was read from freed memory.

**CredentialsProofs.** `ReadBackUpToKey`: a password is read back up to the first
character that is the key's, and exactly so; `ReadBack`: without one it is read back
whole. `LeastExists` gives the first zero by well-foundedness of the natural numbers;
`Cut` is what `CString` does.

**DownsampleProofs.** For all numbers of rows and points, and all ways of rounding:
`FirstAndLast` (the first point starts with the first row, the last ends with the last
row or the one before), `NoEmptyPoint` (no division by zero), `RowsDisjoint`,
`RowsCovered`.

**IndicatorsProofs.** `TypeCorrect`, and `VerdictJustified` (`Justified`) from
`PassOK`: during a pass the flag is justified by the comparisons made so far, and
`inForce` contains the value each bound has now. `VerdictExact`: where each bound had one
value only, the verdict is that of the readings against it, and so are LED and buzzer
once written; what the missing lock costs is limited to the other passes.

**Promises that hold under a condition.** Some theorems say when what a comment or
document promises does hold, for all constants within the condition: `CooldownKept` (as many
slots as alarms), `NobodyCrowdedOut` (room for two entries of each device), `NoDataIfFits`
(ranges that fit), `SafeWithoutFailures`, `NeverOverrun` and `LossExplained` (statements that
do not fail), `AdminKept` (a password without a character of the key, which `admin` is).
The code can be in both cases: the conditions are about the number of devices,
about rows, and about resources.

**Model-checked only.** All liveness (`Served`, `BoxFair`, `FlagHeals`, `BacklogResumed`, `AlarmRepeats`, `LoadingEnds`, `AnswerShown`,
`IndicatorsFollow`): fairness and ENABLED are out of the prover's
reach. Every invariant and action property of the passing runs is proved. The four
violated properties have no theorem, but `LeftBehindExplained`, `NoDataIfFits` and `WaitsTwice` say
how and when three of them fail. `ImplementsAccess` is a theorem only, without a run of its own.

## 5. Not modelled

* `MailBoxWaitAllTask` beyond its first join: no task function returns, so
  `WaitAllTask` ends in the wait. `StorageDeInit` and `mqtt_deinit` are never reached;
  `mqtt_send`, `StorageInsertData`, `StorageQueryData` and
  `StorageMarkSyncedAll` are never called.
* Formatting of payloads and log lines, subscriptions, incoming messages.
* Samples stored while online are not marked by a live upload and are uploaded
  again after the next reconnect. The model has this (a live upload changes no
  row); no document says otherwise, so no property does.
* Which samples of an outage reach the table: a sample sent to mqtt is kept only
  if its cycle is also a multiple of 3. This is a fact about periods and is left
  to a later composition of collect with its period and its payload.
* `AlarmMgrConfirm` and `AuthChangeAdminPassword`: nothing calls them. The values and
  timestamps of alarm records.
* Rows read back for a resumed upload carry no RS485 and CAN data (`storage.c:113`), and
  UPDATEs that fail for ever make a resume go on for ever (`storage.c:509`, excluded in
  `uplink_live`). An alarm listed while the storage lock is taken is not persisted
  (`storage.c:580`); nothing reads the table of alarms.
* The first start's saving of the default passwords is taken to succeed.
* Copying of the device buffers by collect; averages, scaling and drawing of the
  trend page; the clear button of the alarm page.
* Registers, timing and probing of the drivers; the 9-bit reading of the LM75A.
* The components marked `not_modelled` in `PROJECT.json`: log, layout and widgets, and
  the third-party code. Of some 400000 lines of C under `src/` the application has
  about 5000; the rest is LVGL with its fonts, drivers and headers of libraries, so the
  mapped lines are a small share of the whole and a large one of the
  program's own core.

## 6. Plan

Done, in this order: mailbox, uplink, device registry, alarms, trend page,
credentials, console, LED and buzzer, each with its constants for TLC, its runs, its
mutants and its theorems; then the theorems on `StoredOnce` and `OutboxSafe`, on the delays,
on the progress of a resume, on the conditions under which promises hold, and on `Access`.

What a further step could add: the composition of collect's periods with the
payload it copies from the registry, for which samples of an outage are kept and with
which devices; the visibility of the clear button; the conversion of the LM75A.

## 7. Running

    tlc -config UplinkSafe.cfg MCUplink        (and likewise for each .cfg)
    tlapm MailboxProofs.tla ; tlapm UplinkProofs.tla ; tlapm DeviceRegistryProofs.tla ;
    tlapm AlarmMgrProofs.tla ; tlapm DownsampleProofs.tla ; tlapm CredentialsProofs.tla ;
    tlapm ConsoleProofs.tla ; tlapm IndicatorsProofs.tla

`PROJECT.json` lists components, runs, the source lines of every definition, the
mutated definitions each property detects, the hazards and the theorems.
