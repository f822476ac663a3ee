# TLA+ verification of the IM6ULL gateway

The repository is an industrial gateway on an i.MX6ULL board (`Linux_data`, with
the screens of `Linux_ui`), an MQTT broker, and a PC station (`Pc_data`, with the
screens of `Pc_ui`). This directory models the parts of it whose correctness
depends on threads, message order and failures. Line numbers below are those of
`src/`; `PROJECT.json` maps every definition to its lines.

## 1. Inventory

| Component | State | Operations | Talks to |
|---|---|---|---|
| Registration cache, `Linux_data/data/data_config_sync.c` | `g_sync` (version, acknowledged version, active record, retry state), `g_pending_queue[8]`, `g_sync_seq` | `mark_sent`, `publish_latest_snapshot`, `handle_ack_json`, `tick`, `next_seq`, `telemetry_allowed` | MQTT wrapper, publishers, telemetry gate |
| MQTT wrapper, `Linux_data/mqtt/wrapper/mqtt_wrapper.c` | `g_connected`, ring `g_queue[32]` | `mqtt_poll`, `mqtt_send_direct_if_connected`, `mqtt_message_handler`, `mqtt_flush_offline_cache_once` | broker, offline cache, command dispatch |
| Offline cache, `Linux_data/offline_cache/` | SQLite table, two flags, last sample per sensor | `publishOrCache`, `flushToMqttOnce`, `clear`, setters | MQTT wrapper, command dispatch |
| Command dispatch, `data_command.c`, `data_ack.c`, `ipc_server.c` | the `cmd_id` in progress (global), IPC client | ~20 `handle_*` commands from IPC and MQTT | port manager, cache, publishers |
| Port manager, `port_manager.cpp` | slots (bus, devices, polling thread), configuration file | connect, disconnect, add, remove, threshold, poll, restore | Modbus, publishers |
| Telemetry and registration publishing, `data_publish.c` | gateway sequence number | `data_publish_*` | offline cache, registration cache |
| Modbus and sensors | serial port | read, write | port manager |
| Pc_data message handling, `MqttMessageHandler.cpp` | none of its own | one branch per message type, `publishRegisterAck` | database, service state, Pc_ui |
| Pc_data service state, `PcDataService.cpp` | registry, tombstones, pending commands, pending syncs | update, remove, complete, time out | message handling, IPC |
| Pc_data storage, `PcDatabase.cpp` | SQLite | upsert, query, delete | message handling |
| Pc_data IPC, `IpcMessageHandler.cpp` | IPC client | commands of Pc_ui | service state, MQTT |
| Pc_ui, `MainWindow.cpp`, `DataManager.cpp`, `UiStateStore.cpp`, `AlarmManager.cpp` | devices, realtime data, tombstones, alarms, what the pages show | snapshots, removals, timers, watchdog | Pc_data's pipe |
| Pc_ui commands, `CommandManager.cpp` | open commands, wanted relay states | send, acknowledge, log update | Pc_data's pipe |
| Linux_ui, `widget.cpp`, `ipc_client.cpp` | pending commands, relay states, slaves, overlay | operator's commands, frames, timeouts | the gateway's socket |
| Telemetry packs, `data_telemetry.c`, `TelemetryPackParser.cpp`, `ModelConverter.cpp` | none | pack, parse, convert, filter | every screen |
| py_test | test tools | imitate a gateway | broker |

**How they interact.** A command (from Linux_ui over a socket, or from Pc_data
over `cmd/...`) changes the port manager, then publishes a registration and a full
`config_snapshot` on `gateway/register`. Every publication passes the offline
cache, which hands it to the in-memory queue or stores it; `mqtt_poll`, on its own
thread, empties the queue to the broker. Pc_data saves each registration and
answers with an acknowledgement on `cmd/...`; the gateway's registration cache
matches it to a record and, once the current version's snapshot is acknowledged,
opens the telemetry gate. Telemetry goes through a worker, a writer and a publisher
thread of Pc_data to its memory, its tables and Pc_ui. A command of Pc_ui goes down
the pipe, is logged, published and remembered by Pc_data, executed by the gateway,
and its acknowledgement closes it on the way back. The gateway's own screen sends
the same commands over a socket, beside those of Pc_data.

**What is hard.** Three kinds of gateway threads (MQTT poll, MQTT callback, IPC)
and one per port meet in the caches; registrations are published before they are
recorded and snapshots exported before they are numbered; MQTT at QoS 0 loses
messages; acknowledgements arrive late or after a retry renumbered the record;
the queues are bounded; the connection flag is never reset; flags, rows and files
are saved in several steps. The full list, line by line, is `hazards` in
`PROJECT.json`.

**What makes each component correct.**
- Registration cache: an acknowledgement retires exactly its record; nothing waits
  without an active record; the gate closes on a new version; "success" is honest.
- Registration protocol: the gate is open only for what Pc_data saved; versions do
  not go back; what is saved is learned; what is lost is retried; Pc_data's
  configuration does not go back.
- Offline cache: a critical message is not lost by the cache; no duplicates without
  overlapping flushes; the table is bounded; stored messages are flushed; order and
  outages as README.md rule 21 has it.
- Port manager: one slot per port, one polling thread per connected slot, no use of a
  closed bus, stopping ends, the file agrees with the slots.
- Commands: executed at most once and only while waited for, closed once, reported
  successful only if executed; the operator is told in the end.
- Pc_data registry: a deleted device leaves no rows and comes back only by an addition;
  the memory is never behind the tables; a sync is answered once.
- Alarms: clearing spares active alarms; the list on the screen becomes the table's.
- Pc_ui: removed devices stay hidden, values do not go back, a held value is shown.
- Linux_ui: the overlay and the add dialog let go of the operator; the screen comes to
  show boards and devices.
- Telemetry packs: what is read is what is shown.
- Thresholds: the limits entered are the limits tested, also after a restart, and the ones
  Pc_data lists; a temperature out of range is reported, and an excursion only once.

## 2. Modules

| Module | Models | Used by |
|---|---|---|
| `ConfigSync` | the registration cache against any peer | `MCConfigSync`, `RegisterLink`, `RegisterLinkProofs` |
| `RegisterLink` | extends `ConfigSync` with the gateway's threads, both MQTT directions and Pc_data's register handlers | `MCRegisterLink`, `RegisterLinkProofs` |
| `OfflineQueue` | offline cache, in-memory queue, `mqtt_poll`, the offline commands | `MCOfflineQueue`, `OfflineQueueProofs` |
| `PortManager` | slots, polling threads, `device_config.json`, the commands and the restore at the start | `MCPortManager`, `PortManagerProofs` |
| `PcDatabase` | the device tables of Pc_data, one operator per method | `PcDataService` |
| `PcDataService` | extends `PcDatabase` with the memory of Pc_data, one operator per method | `PcRegistry` |
| `PcRegistry` | the threads of Pc_data over both | `MCPcRegistry`, `PcRegistryProofs` |
| `TelemetryPack` | a reading from the gateway's JSON to the screens, as operators | `CommandLife`, `GatewayUi` |
| `CommandContract` | abstract: what the command chain promises | `CommandLife` |
| `CommandLife` | the command chain Pc_ui, Pc_data, Linux_data | `MCCommandLife`, `CommandLifeProofs` |
| `IpcPipe` | the pipe between Pc_data and Pc_ui, as operators | `AlarmLife`, `PcUi` |
| `Thresholds` | the alarm limits from the forms to the sensor, its file and Pc_data's table, and the test of a reading, as operators | `AlarmLife`, `AlarmLifeProofs` |
| `AlarmLife` | the sensor that raises an alarm, and an alarm from the gateway to `AlarmManager` and back | `MCAlarmLife`, `AlarmLifeProofs` |
| `PcUiState` | what Pc_ui keeps of devices, one operator per method | `PcUi` |
| `PcUi` | extends `PcUiState`, `IpcPipe` with Pc_data's sending threads and Pc_ui's timers | `MCPcUi`, `PcUiProofs` |
| `GatewayUi` | Linux_ui beside Linux_data's command threads and poller | `MCGatewayUi`, `GatewayUiProofs` |
| `*Proofs` | the theorems about the module named, section 4; `RegisterLinkProofs` has those about `ConfigSync` too | |

The modules cut the system where it is joined by a queue: `PcRegistry` has Pc_data's
state for any messages, `PcUi`, `AlarmLife` and `CommandLife` the way to Pc_ui for
what Pc_data may send, `RegisterLink` and `OfflineQueue` the way from the gateway.

### ConfigSync
The variables are the members of `g_sync` and `g_pending_queue` with the source's
names. A record is `[seq, cmd, edition, version]`: the payload is reduced to the
configuration it was exported from (`edition`) and the `configVersion` it carries.
`g_sync_lock` makes each function one action. Time is `age`, the last send against
the two thresholds of the tick. `PromoteNext`, `Enqueue`, `RemoveQueued`, `Track`
are the `_locked` helpers. The peer is arbitrary: `EchoableAcks` holds every
acknowledgement with numbers and versions the gateway has issued, in any order and
any number of times; the only thing the peer cannot do is to name a version or a
retry number that was never issued. The texts on the screen are reduced to their
status.

### RegisterLink
Each gateway thread walks through `publish`, `mark`, `export`, `snapshot`, the
points between which the code holds no lock. `up` and `down` are FIFO (one
connection on either side of the broker) and may lose messages. Pc_data's three
handlers save or fail (`Verdicts`) and answer with `RegisterAck`; a failed snapshot
may leave some of its rows, because `upsertGatewayConfigSnapshot` is not a
transaction, hence the set `pc_editions`. `AcceptedTopics` is the filter of
`mqtt_message_handler`: `{"port"}` in the code, `{"gateway", "port"}` for rule 5 of
README.md. `port_register` is handled as `device_register` and not distinguished.
Commands with a partial snapshot (`get_config`) are in `ConfigSync`, not here.

### OfflineQueue
Messages are numbered by timestamp, and `Kind` gives each its class and so its
priority; a number also stands for the row's id. `publishOrCache` is two actions
(the attempt runs without `lock_`), a flush one action per locked section and one
per send, and the manual flush keeps the save, force and restore of the flag as
three steps. `connected` is set once, as in the code. `net` is the network, which
the code does not see; `out`, `lost`, `cleared`, `rejected` and `overlapped` are
history variables for the properties. An insertion or a save of the configuration
may fail; other SQLite statements succeed. The heartbeat, which bypasses the
cache, is left out. `HandleSet` and `HandleGet` set `cache_enabled_` together
with the file access and `flush_enabled_` in a second step.

### PortManager
`channel[s]` is `PortChannel`; the bus and the polling thread are the number of the
connection that created them, so that a replaced bus can be told from its
predecessor. `connectPort` is five actions (test, stop, join, clear, open and
commit), `disconnectPort` four, `handleRelay` two, and a poll is check, begin, end;
commands that hold the lock throughout are one. The file is what
`writeConfigLocked` writes: the ports and devices of all slots, from memory. A write
fails by leaving the file as it was or unreadable (`torn`). The initial states have
every file an earlier run can have left, which also stands for a restart. Left out
are what a poll publishes and the count of failed polls (see `GatewayUi`), threshold values
(see `AlarmLife` and `Thresholds`), and the messages of the restore. `overlaps` records that two connects or disconnects met on
a slot or a port: the code allows it (`main`, `ipc` and the MQTT callback do not
exclude each other), several properties do not survive it, and the runs show that
nothing else breaks them.

### PcDatabase, PcDataService, PcRegistry
`db` is a record of the tables and `svc` one of the memory; every method that changes
them is an operator with the source's name, since each holds its own mutex for its
whole body. `PcRegistry` cuts a handler where it leaves one of the two locks: `mq.op`
and `ip.op` name the step the MQTT callback and the IPC thread have reached, `worker`
and `writer` what the telemetry worker and the database writer hold. A device is
`none`, `active` or `deleted` (a row with `deleted=1`); values are the number of the
sample. Any message may come at any time, a snapshot may list any devices and carry
the number of a pending sync, a transaction may fail for any device, tombstones expire
at any time (30 s), and Pc_data may restart. One gateway; names, types and timestamps
are left out, history tables too.

### TelemetryPack
A reading is a function from fields to values. `PackDevice` is `pack_device_json` with
both its spellings, plain fields and `points[]`; `DataParser` reads the plain fields on
the gateway's screen; `ParseJson`, `ToTelemetryPoints`, `KnownPoints` and
`ApplyPointToTypedFields` are the way through Pc_data to Pc_ui, and `ShownByPcUi` is that
way from end to end.

### CommandContract, CommandLife
`ui[c]` is the status Pc_ui keeps of command `c`, `log[c]` its row in `command_log`,
`pend[c]` Pc_data's pending entry, `work[c]` what the gateway did. Pc_data's IPC thread,
MQTT callback and timer each have a program counter, because each writes the log, the
pending entry and the pipe in separate steps, in different orders. On the gateway `cur`
is the global `cmd_id`; `gm` and `gl` are the MQTT callback and the IPC thread, which
both set it, and `mixed` records the commands that ran beside one of the local screen.
`set_relay` writes all channels. `ImplementsContract` is the refinement: `outcome` is
`ui` with the open statuses taken together. The 20 s timer of Pc_ui and the soft
timeout only produce texts. The threshold command takes the same way without the relay
states, and its arguments are in `Thresholds`; generic commands are left out.

### Thresholds
A JSON object is a function on the keys it has, and a key's two spellings are one.
`ValidateThresholdConfig` and `ThresholdPayload` are the form of Linux_ui,
`ValidateOptions` and `CollectOptions` that of Pc_ui; `ForwardAddDevice` and
`ForwardSetThreshold` are what Pc_data makes of a command, `ParseSensorThresholdConfig`
what the gateway reads; `WriteConfig` and `LoadDevice` are the file,
`ExportConfigSnapshot` and `PublishThresholdConfig` the messages to Pc_data, and
`SnapshotPointConfigs` and `ParsePointConfigs` the rows they lead to. `CheckThreshold`
tests a reading, and `AlarmLife` applies it poll after poll. Limits are small numbers:
only their order matters. `LimitsArrive` is the reference definition of the way through the
encodings, which `AlarmLife` checks when nothing is under way.

### IpcPipe, AlarmLife
A row of `alarm_event` has id, state and acknowledged flag. The table is a function on row
numbers (the AUTOINCREMENT key); deleting rows leaves the other numbers as they are, and a
list sent to Pc_ui keeps them, as only their order is used. The MQTT callback saves and
then sends, the IPC thread reads and then sends. The device is either a
`TemperatureHumiditySensor` of Linux_data or one of a gateway that speaks the newer protocol (`newer`), as the mock gateway does.

Of the sensor `sensor` and `last` are its members; `polled` is the reading between
`recordPollSuccess` and its test, `old` the thresholds `setDeviceThreshold` would put back.
`PollDevice` ends with `recordPollSuccess`, which takes the port manager's lock; `TestReading`
is the rest of `pollDevice`, which holds no lock and may run between `BeginSetThreshold` and
`EndSetThreshold`, the two halves of a method that holds it. Its `CheckThreshold` is the only source of
`PublishThresholdAlarm`. `tested` and `told` are history variables: the last reading tested
with the thresholds in force, and the points reported since they were last in range. Any
reading may come, and any of `Sensors` be set. The sensor's members are read and written in
one step each, which the code does not ensure: it copies the thresholds while they are tested.

Alarms of the sensor (`Emergency`) are refused by what `parseAlarmEventPayload` demands, and
so leave no rows; the events of the newer protocol (`AlarmEvents`) are the ones Pc_data
stores, acknowledges and clears.

### PcUiState, PcUi
`ui.dm`, `ui.rt`, `ui.tomb` and `ui.mirror` are `DeviceManager`, `m_realtimeMap`,
`m_deletedDevices` and `UiStateStore`; their methods are operators and run on Qt's event
loop. Three threads of Pc_data read a snapshot in one step and send it in another. Time
is `aged`: which samples are older than 30 s and 90 s.

### GatewayUi
`ui` is `Widget`: pending commands by number, the dialog of the slave page (`adding`, what
it shows, and `add`, the command the screen waits for), the overlay, the slave list and the
relay states. One port with relay boards; Pc_data's commands arrive on a second thread and
their acknowledgements reach the screen too. A board is reported offline when it has failed
`OfflineFailureThreshold` reads in a row, and then not again (`RecordPollFailure`). The
model starts after the first answers.

This screen sends no `set_relay`: `relayCommandRequested` accepts the channels "led", "fan"
and "buzzer" (`widget.cpp:456-468`), while its only sender calls them "do1", "do2" and so on
(`PageStatus.cpp:475`), and the button that opens the other dialog needs more channels than
are ever made (`relaydetailcardui.cpp:48`). `m_pendingRelay`, its 8 s timer and
`failPendingRelay` are therefore never in use, and the model has none of them. Nor does the
page of the offline cache emit `clear_offline_cache` or a new configuration
(`pageinfo.cpp:129`); its two buttons are `OfflineCacheButton`.

Acknowledgements of Pc_data's commands carry numbers that are no number of this screen
(`NoSeq`): Pc_ui takes the time in milliseconds (`CommandManager.cpp:72`). The one command
of Pc_data that is numbered from 1, as the screen's are, is `get_config`
(`IpcMessageHandler.cpp:179`), and it never gets as far as an acknowledgement: its topic
`cmd/<gateway>` is discarded (`mqtt_wrapper.c:319`).

Left out: the poll while frames are still unread, `get_runtime_state`'s pending entry,
`m_pendingRemoveSlave`, the 30 s staleness of a pack, the last readings that
`publishLatestStatus` repeats after an MQTT reconnection, the Esc key, which closes the add
dialog whatever it shows, restarts of the gateway and partial writes to the socket; a
result shown by the overlay counts as gone.

## 3. Runs

| Run | Shows | Instance |
|---|---|---|
| `config_sync` | the registration cache is coherent for any peer | 2 queue slots (filled and overflowing), 2 versions, 1 retry, all acknowledgements |
| `register_link` | with both topics accepted the gate means "saved", nothing goes back, what is saved is learned | 1 command on the IPC thread beside the connection's registration, 1 fault, 2 retries |
| `register_link_topic` | violation: with the code's topics the gateway never learns | same, no fault |
| `offline_queue` | what the cache keeps, what it sends twice, its flags, and that what is stored behind an alarm is flushed | a status change and an alarm; table and batches of 1 row, in-memory queue of 1; one outage or restart |
| `port_manager` | the slots survive the restore beside commands, polls and relay writes, and stopping ends | 2 slots, 2 ports, 1 device, main and IPC thread, 2 connections, 1 failed write |
| `pc_registry` | tables, memory and sync requests of Pc_data under all interleavings | 1 device, 1 port, 2 samples, queue of 1, 3 messages or requests, 1 sync, 1 restart |
| `command_life` | the command chain implements `CommandContract`; relay states, log and notice of late answers | 2 commands, 2 channels, 1 lost message or local command, pipe of 1 |
| `command_life_relays` | violation: Pc_ui does not show channels above 1 | the same |
| `alarm_life` | limits arrive as entered; a temperature out of range is reported, an excursion once; clearing spares active alarms, the list heals | every form with 2 limits per field; a sensor with or without limits, of which 3 readings are taken or limits set; 1 alarm, 3 events, 2 requests, 1 break |
| `pc_ui` | removed devices stay hidden, values do not go back | 1 device, 2 samples, 1 operation, 1 break, pipe of 1 |
| `pc_ui_live` | a held value is shown | the same with 1 sample |
| `gateway_ui` | the gateway's screen lets go of its operator and comes to agree with board and devices | 1 board of 1 channel, reported after 2 failed reads, 2 operations, 1 fault |

**Why the bounds are enough.** Every limit of the code is reached: the pending
queue and the in-memory queue fill and refuse, the table sweeps, a row fails
`MAX_SENDS` times, a record is retried past its timeout, and an acknowledgement of
each earlier number can arrive after it. Numbers only matter by equality and order,
and two versions and two numbers besides the retry's already give equal, older and
newer. `MaxSeq`, `MaxVersion`, `MaxEdition`, `MaxFaults` bound counters the code
leaves unbounded; `config_version` is 32 bits wide in the code and its wrap-around
is out of the instances' reach.

Two connections per run let a slot be connected twice, two slots compete for a port
and the restore meet a command; three were tried once without another result.

For Pc_data and the screens one device is enough for the races between threads, since
no method relates two devices (a snapshot's devices are independent rows); two samples
give an older and a newer one, two commands one that overtakes or overwrites another,
and a pipe of one frame makes every sender wait. Three events on one alarm are raise,
raise again and recover around the two requests; on the sensor they are an excursion, its
end and the next one, or readings around thresholds that are set, and an alarm of the
humidity in a poll in which the temperature raises one. Two limits per field give lower,
equal and higher.

`offline_queue` has no sample, the kind of message the policy may leave out, which keeps the
one run of safety and liveness small; the theorems hold of any kinds. In `gateway_ui` one
fault is shared by the kinds of fault, and a failed read is one only when it is reported or
comes after that: the first ones, which change nothing but the count, are free.

**Deadlock.** `PortManager` stops after `std::terminate`, which overlapping connects
can cause. `RegisterLink` may stop when commands, faults and retries are used
up, since those are bounded; the configurations of both say `CHECK_DEADLOCK FALSE`, and so do
those of `pc_registry`, `command_life`, `alarm_life` and `gateway_ui`, whose behaviours
end when the bounded messages and operations are used up. The other models never stop (the tick and the poll keep running), and deadlock is
checked.

**Fairness.** Weak fairness of every thread's steps, of the broker and Pc_data and
of the clock: each runs a loop without a condition on the others. Commands,
connections, faults and new messages have none. `PollFlush` has strong fairness: it
is enabled in each round of `mqtt_poll`, and its 200 ms timer is due again and
again, so that a round that skips it cannot repeat for ever. A polling thread of
`PortManager` has strong fairness for the same reason: it waits for `io_lock` holding
`lock`, so that no relay write can overtake it again and again. In `CommandLife` only
Pc_data's threads and Pc_ui's event loop are fair: nothing is assumed of the network or
the gateway. In `PcUi`, `AlarmLife` and `GatewayUi` the threads run and the reconnect,
watchdog and timeout timers fire; nothing is assumed of who gets the room in the pipe.

**Violations.** Both quote the document they contradict in `findings`.
`SavedIsLearned` holds once the topic filter accepts what rule 5 allows: the run
`register_link` checks the rest of the protocol under that reading, in the same module.
`PcUiShowsReading` fails in `command_life_relays` at the first command that switches a
channel above 1. Other disagreements are in section 6.

**Type invariants.** `TypeOK` of `ConfigSync` is checked and proved. The other modules
state theirs to document the state, and all are proved as stated; their runs are spent
on the properties above.

**One command thread.** `FlagsFollowConfig` is checked with one command thread. If
the IPC thread and the MQTT callback execute `set_offline_cache_config` and
`flush_offline_cache` together, the flush restores the flag it read before, and the
flags in force differ from the saved ones until the next command. No document
promises otherwise, so that it is listed as a hazard. The theorem has the same hypothesis.

## 4. Proofs

Every safety property the runs check is proved for every value of the constants: any number
of devices, ports, commands, threads, readings and messages, any size of a queue, table or
pipe, any limits, any number of faults. The assumptions are the `ASSUME`s of the
modules: bounds are natural numbers, sizes are positive where the code's are, names are
kept apart (`NoPort` is no port, "poll" no command thread). One theorem has a hypothesis of
its own: `FlagsAreSaved` holds of one command thread.

Each proof has one inductive invariant (`IInv`, `LinkInv`), which says of what is under way
what the property says of its result, and a lemma for each operator and action.

| Module | Theorems | What the invariant adds, and why |
|---|---|---|
| `RegisterLinkProofs`, first section (`ConfigSync`) | `TypeCorrect`, `NothingIsStranded`, `KeysStayUnique`, `NoForeignVersion`, `SuccessIsHonest`, `GateCloses`, `RecordsAreKept` | Keys are unique after a retry only because no record has a number above `sync_seq`; "success" stays honest only because nothing waits while the active place is empty; a new version closes the gate only because no higher one was taken for acknowledged. |
| `RegisterLinkProofs` | `LinkTypeCorrect`, `CacheInLink`, `GateIsHonest`, `VersionsAdvance` | `Ordered`: acknowledged version <= acknowledgements on their way <= what Pc_data saved <= snapshots on their way <= `config_version`; and no record exists before the first version, because a payload with version 0 would be acknowledged as the present one. |
| `OfflineQueueProofs` | `TypeCorrect`, `CriticalKept`, `SentAtMostOnce`, `FlagsAreSaved` | `QueuedIsSafe`: the row a flush is about to remove is in the in-memory queue or beyond it; `Once`: a row still to be sent was not sent, unless flushes overlapped; `Counted`: a row is counted down once per flush that loaded it. |
| `PortManagerProofs` | `TypeCorrect`, `BusIsThere`, `ThreadsAreOwned`, `PortsAreApart`, `FileHasDevices` | Follows a command through its locked sections: what it has stopped, joined and cleared (`Stopped`), that others have left its slot alone since (`SlotsApart`, `PortsApart`), and that a connection's number is its own (`Numbers`). |
| `PcRegistryProofs` | `TypeCorrect`, `NoOrphanRows`, `TombstonesHide`, `OneAnswer`, `MemoryIsNewest`, `TombstonesHold` | Every stage from the telemetry queue to the writer holds samples in the order they arrived (`Pipeline`), and what is behind the memory was shown (`NothingNewerBehind`), which needs that a device with a tombstone shows nothing. |
| `CommandLifeProofs` | `TypeCorrect`, `SuccessIsTrue`, `LogFollows`, `SensorReadingShown`, `OpenKept`, `Refines` | Where a command can be (`Places`), that it reaches the gateway once, in order and before anybody answered it (`Waiting`, `Gateway`), that no answer on its way lies (`Answers`), that a late 'sent' is of a command nobody has answered (`Rows`), and that a relay command carries what the open ones before it want (`Wanted`). |
| `AlarmLifeProofs` | `TypeCorrect`, `ClearingSparesActive`, `TemperatureAlwaysReported`, `OneAlarmEach`, `ThresholdsAlwaysArrive`, `EveryLimitArrives` | `Room`: every alarm on its way was sent and no row was made twice, so that the numbers suffice; `Unacked`: an active row is never acknowledged, so that deleting the acknowledged rows spares it. `SInv`, of the sensor: a point that was reported is in alarm (`last`), a point in alarm is one that is tested, and a temperature in alarm was reported; of the humidity the last part is not true. |
| `PcUiProofs` | `TypeCorrect`, `RemovedAreHidden`, `ValuesAdvance` | Removed devices have neither a node nor data before the mirror is rebuilt, so that rebuilding it cannot show them; a removal or addition on its way names a device. |
| `GatewayUiProofs` | `TypeCorrect`, `NumbersKeepCommands`, `NobodyIsForgotten` | Every number in use is below the screen's next one and was given out for one command (`Numbers`), wherever it is (`Marked`), so that an acknowledgement that ends a pending command, and with it its timer, also ends what the screen shows for that command; and what the screen shows as under way is pending (`Attended`). |

`Refines` is the refinement of `CommandContract`: `Init` implies its `Init`, and a step of
`CommandLife` is a step of the contract or leaves `outcome` and the count of executions
alone. `CacheInLink` says that the peer `ConfigSync` assumes (it names only numbers and
versions that were issued) is what Pc_data and the gateway's threads are, so that the
theorems of the first section hold inside the protocol.

`NobodyIsForgotten` is about two properties stated in `GatewayUiProofs`. `TimersRun`: while the
overlay shows an operation, and while the screen waits for an added slave, a command is
pending whose expiry takes down the overlay, or ends the dialog. `DialogWaits`: a dialog that
shows an addition goes on waiting for the same command until it is told or the port is
reported disconnected. After that the dialog has no timer: section 6. With the fairness of
the timers this is why `OperatorIsAnswered` holds; that step is TLC's.

`SensorReadingShown` is `PcUiShowsReading` for a sensor or a meter, for any values: there the
claim the run refutes for relays is true.

`EveryLimitArrives` follows the limits of a form through the encodings between it and the
sensor: the command of either screen, Pc_data's `add_device`, the gateway's file and its
reading at a restart, and the snapshot to Pc_data's table. It needs no validation
of the form: limits of any order arrive.

Only model-checked is what says "eventually" (`SavedIsLearned`, `PendingIsFlushed`,
`StopEnds`, `EventuallyTold`, `SnapshotHeals`, `LatestIsShown`, `OperatorIsAnswered`,
`ScreenFollowsBoard`, `ScreenListsDevices`): liveness under fairness is beyond TLAPS.

## 5. Not modelled

- The mqttclient and Paho libraries, the broker, Qt and SQLite: from their use only.
- Pages and charts that only draw, history queries, the Python mock, Modbus I/O, the
  heartbeat, LED and `get_config` commands.
- Texts, names, units and timestamps, except where a property compares their order.
- Several gateways, several ports of a gateway outside `PortManager`.
- `publishLatestStatus`, which repeats the last readings after an MQTT reconnection
  (`mqtt_wrapper.c:440`), in `GatewayUi`; the Esc key on the add dialog.
- Torn reads of a sensor's thresholds, which are set and tested without a common lock. An
  alarm published after thresholds are set for a reading tested before them counts as
  published before.
- Partial writes to the gateway's socket (`ipc_server.c:134`), which would merge frames.
- Wrap-around of 32-bit counters; the `static` counter of `telemetry_pack_single_for_slot`,
  which several polling threads increment.
- Other data races on plain integers (`g_connected` is read without a lock): reads and
  writes of an aligned `int` are taken as atomic.

## 6. Known disagreements

Rules the documents state and the code does not keep, met while modelling. Each is
visible in the model; the properties above are stated so that they hold beside it.

- **Snapshots go back** (rule 13, `README.md:651`). `data_config_sync.c:273` exports outside
  the lock, and a retry stamps the present version on an old payload (line 245): Pc_data,
  which does not compare versions, may save an older configuration over a newer one and
  delete devices. In `RegisterLink`, `pc_editions` then goes back while `pc_version` does not.
- **A lost registration is not retried** (`README.md:319`). The positive acknowledgement of
  a queued record clears `g_sync.retryable` (line 394), which belongs to the active one.
- **Outages are not noticed** (rule 21, `README.md:659`). `g_connected` is never reset
  (`mqtt_wrapper.c:431`); messages of a later outage are dropped. In `OfflineQueue` they
  enter `lost` by `PollPop`.
- **Alarms may overtake older ones** (rule 21). A direct send does not wait for the table
  (`OfflinePublishQueue.cpp:62`).
- **A disconnected slot loses its devices** (comment at `port_manager.cpp:1371`): the next
  write for the other slot drops them from the file.
- **A deleted device may be shown again** (rule 15, `README.md:653`): 30 s after the removal
  the tombstone is gone, and `m_deviceRegistry` still has the device, so that late
  telemetry is accepted in memory. The tables stay clean (`RowsBelongToActive`).
- **Offline and stale are not shown** (rule 17, `README.md:655`): `markOfflineDevices` and
  `markStaleGateways` change the tables, and the snapshots sent afterwards come from memory.
- **Success may be another command's** (rule 10, `README.md:648`): the global `cmd_id` lets
  the acknowledgement of a command of the local screen close one of Pc_ui; `SuccessIsOwn`
  excludes exactly the commands in `mixed`.
- **Threshold alarms of the gateway are not stored** (rule 19, `README.md:657`): their payload
  names no gateway, which `parseAlarmEventPayload` demands; and a value back in
  range is not reported at all (`temperature_humidity_sensor.cpp:92`).
- **Thresholds entered in Pc_ui arrive disabled** (rule 18, `README.md:656`): add_device
  repeats the thresholds under `payload` without `threshold_enabled`
  (`IpcMessageHandler.cpp:877`), and the gateway, which then reads `payload` alone
  (`data_command.c:764`), leaves them off. `ThresholdsArrive` states that the limits arrive.
- **A humidity excursion may go unreported** (rule 19): a poll in which the temperature raises
  an alarm does not look at the humidity (`temperature_humidity_sensor.cpp:117`), so that
  one that ended and began again around it is taken for the old one. `TemperatureIsReported`
  is therefore about the temperature alone; of the humidity only `OneAlarmPerExcursion` is
  checked.
- **A snapshot stores disabled thresholds as enabled** (rule 18): `parseConfigSnapshot` reads
  the points' `enable_alarm` alone (`MqttMessageHandler.cpp:325`), while `threshold_config`
  sends it combined with `threshold_enabled` (`port_manager.cpp:483`).
- **Relay channels above 1 are always off in Pc_ui** (`DeviceData.hpp:60`): the gateway's pack
  lists `relay.ch1` alone as a point, and the parser reads `relayStates` only when there is
  none (`TelemetryPackParser.cpp:369`). The run `command_life_relays` shows it. As `set_relay`
  writes all channels from what is shown, a command for one channel switches the others off.
- **The gateway's screen switches no relay** (section 2, `GatewayUi`): every button of its relay
  page is answered with a failure (`widget.cpp:464`).
- **The add dialog may be left adding.** When the port is reported disconnected
  (`widget.cpp:1189`) the screen forgets the command it waits for without telling the dialog,
  which stays disabled. `OperatorIsAnswered` speaks of the dialog only while the port is
  connected and the screen waits for a command; the instance reaches the case.
- **`port_manager.cpp` may not compile**: lines 618-622 use names (`slot`, `connected`) that no
  declaration in reach introduces. `GetRuntimeState` takes the function for what its
  caller and the fields around it make of it.
- **After `clear_all_data` devices stay listed** (rule 24, `README.md:662`) in Pc_ui's
  `DeviceManager`.

## 7. Plan

What is left is models: `get_config` outside `ConfigSync`, and several ports in `GatewayUi`.
