----------------------------- MODULE AlarmLife -----------------------------
(***************************************************************************)
(* The life of an alarm: the polling thread of Linux_data tests a reading  *)
(* and publishes the alarm, or a gateway reports it; Pc_data's callback    *)
(* thread for MQTT stores it in alarm_event and sends it to Pc_ui, where   *)
(* AlarmManager shows it; Pc_ui reads the table, acknowledges and clears   *)
(* alarms through Pc_data's IPC thread.  The table and the pipe are used by*)
(* two threads of Pc_data that share no lock across a handler, so each     *)
(* handler is cut at the database call and at the send.                    *)
(*                                                                         *)
(* One device is modelled: a TemperatureHumiditySensor of Linux_data, or a *)
(* device of a gateway with the newer protocol.  An alarm is its alarm_id, *)
(* which holds the alarm's type when buildStableAlarmId makes it.  The     *)
(* table is a function on row numbers, its key (AUTOINCREMENT), of which   *)
(* only the order matters; it is taken to be the order of start_time_ms    *)
(* too.                                                                    *)
(***************************************************************************)
EXTENDS IpcPipe, FiniteSetsExt, Thresholds

CONSTANTS
    Alarms,        \* alarm ids
    Sensors,       \* the thresholds the sensor starts with and is given
    UpMax,         \* MQTT messages in flight
    MaxEvents,     \* readings, thresholds set, alarms of other gateways and removals, together
    MaxRequests,   \* requests of the operator
    MaxBreaks      \* breaks of the pipe

ASSUME AlarmAssumption ==
    /\ Sensors \subseteq SensorsWith(PollLimits)
    /\ UpMax \in Nat \ {0} /\ MaxEvents \in Nat /\ MaxRequests \in Nat /\ MaxBreaks \in Nat

VARIABLES
    newer,     \* the gateway is one with the newer protocol, and not Linux_data
    sensor,    \* the thresholds of the gateway's TemperatureHumiditySensor
    last,      \* its last_temperature_alarm_ and last_humidity_alarm_
    polled,    \* the reading pollDevice is about to test
    old,       \* the thresholds setDeviceThreshold puts back if the file is not written
    tested,    \* the reading tested last with these thresholds
    told,      \* the points with an alarm since they were last in range or given thresholds
    up,        \* MQTT messages to Pc_data
    rows,      \* the alarm_event table
    mq,        \* the handler the MQTT callback thread is in
    ip,        \* the handler the IPC thread is in
    pipe,      \* the pipe to Pc_ui
    ui,        \* m_alarms of AlarmManager: the state shown per alarm
    events, requests, breaks   \* bounds

bounds == <<events, requests, breaks>>
sensorVars == <<sensor, last, polled, old, tested, told>>
gateway == <<newer, sensorVars>>
vars == <<gateway, up, rows, mq, ip, pipe, ui, bounds>>

NoAlarm == "no_alarm"
RowStates == {"active", "acknowledged", "recovered"}
Row == [id : Alarms, st : RowStates, acked : BOOLEAN]
Entry == [id : Alarms, st : RowStates]

(* Tables of rows of a kind.  A list sent to Pc_ui keeps the row numbers   *)
(* and is read from the highest one down (ORDER BY ... DESC).              *)
Tables(kind) == UNION {[numbers -> kind] : numbers \in SUBSET (1 .. MaxEvents)}

Request == [req : {"get_alarm_events", "ack_alarm", "clear_recovered_alarms",
                   "clear_acknowledged_alarms", "clear_all_data"},
            id : Alarms \cup {NoAlarm}]
MqIdle == [op |-> "idle", id |-> NoAlarm, st |-> "active"]
NoRows == <<>>
IpIdle == [op |-> "idle", list |-> NoRows]

(* A reading, or none.                                                     *)
NoReading == <<>>
Polls == [Points -> Readings]
NoThresholds == [has |-> FALSE, config |-> ZeroConfig]
Quiet == [p \in Points |-> FALSE]

TypeOK ==
    /\ newer \in BOOLEAN
    /\ sensor \in SensorsWith(PollLimits) /\ last \in [Points -> BOOLEAN]
    /\ polled \in Polls \cup {NoReading} /\ tested \in Polls \cup {NoReading}
    /\ old \in SUBSET ConfigsWith(PollLimits) /\ told \in SUBSET Points
    /\ up \in Seq([kind : {"alarm_event", "emergency", "removed"},
                   id : Alarms \cup Points \cup {NoAlarm},
                   st : RowStates, gateway : BOOLEAN]) /\ Len(up) <= UpMax
    /\ rows \in Tables(Row)
    /\ mq \in [op : {"idle", "save", "send", "delete", "deleted", "kept"},
               id : Alarms \cup {NoAlarm}, st : RowStates]
    /\ ip \in [op : {"idle", "query", "send", "cleared", "not_cleared"}, list : Tables(Entry)]
    /\ pipe \in Pipe([type : {"alarm_event", "alarm_events_snapshot", "removed", "not_removed",
                              "cleared", "not_cleared"}, list : Tables(Entry)], Request)
    /\ Len(pipe.toUi) <= PipeMax
    /\ ui \in [Alarms -> RowStates \cup {"none"}]
    /\ events \in 0 .. MaxEvents /\ requests \in 0 .. MaxRequests /\ breaks \in 0 .. MaxBreaks

NothingShown == [a \in Alarms |-> "none"]

Init ==
    /\ newer \in BOOLEAN
    /\ sensor \in IF newer THEN {NoThresholds} ELSE Sensors
    /\ last = Quiet
    /\ polled = NoReading /\ old = {} /\ tested = NoReading /\ told = {}
    /\ up = <<>> /\ rows = NoRows
    /\ mq = MqIdle /\ ip = IpIdle
    /\ pipe = Broken /\ ui = NothingShown
    /\ events = 0 /\ requests = 0 /\ breaks = 0

-----------------------------------------------------------------------------
(* Linux_data: the sensor                                                  *)

Event == events < MaxEvents /\ events' = events + 1
pcVars == <<rows, mq, ip, pipe, ui, requests, breaks>>

(* The device is read, and the success recorded under the port manager's   *)
(* lock, which setDeviceThreshold keeps while it writes the file.          *)
PollDevice(r) ==
    /\ ~newer /\ polled = NoReading /\ old = {} /\ Event
    /\ polled' = r
    /\ UNCHANGED <<newer, sensor, last, old, tested, told, up, pcVars>>

(* Linux_data's own payload has no gateway id; it names the point.         *)
Emergency(p) == [kind |-> "emergency", id |-> p, st |-> "active", gateway |-> FALSE]

PublishThresholdAlarm(p) ==
    IF p = "none" THEN UNCHANGED up
    ELSE Len(up) < UpMax /\ up' = Append(up, Emergency(p))

OutOfRangeNow(p, r) == OutOfRange(sensor.config.point[p], r[p])

(* The rest of pollDevice, without the lock.                               *)
TestReading ==
    LET test == CheckThreshold(sensor, polled, last)
    IN  /\ polled /= NoReading
        /\ last' = test.last /\ PublishThresholdAlarm(test.alarm)
        /\ polled' = NoReading /\ tested' = polled
        /\ told' = {p \in Points : (p \in told \/ p = test.alarm) /\ OutOfRangeNow(p, polled)}
        /\ UNCHANGED <<newer, sensor, old, events, pcVars>>

SetThresholdConfig(c) ==
    /\ sensor' = [has |-> TRUE, config |-> c] /\ last' = Quiet
    /\ tested' = NoReading /\ told' = {}

(* setDeviceThreshold up to writeConfigLocked, and after it: thresholds    *)
(* that could not be saved are taken back, and none become zero.           *)
BeginSetThreshold(c) ==
    /\ ~newer /\ old = {} /\ Event
    /\ SetThresholdConfig(c)
    /\ old' = {IF sensor.has THEN sensor.config ELSE ZeroConfig}
    /\ UNCHANGED <<newer, polled, up, pcVars>>

EndSetThreshold ==
    /\ old /= {} /\ old' = {}
    /\ \/ UNCHANGED <<sensor, last, tested, told>>
       \/ \E c \in old : SetThresholdConfig(c)
    /\ UNCHANGED <<newer, polled, up, events, pcVars>>

-----------------------------------------------------------------------------
(* Other senders                                                           *)

Send(m) ==
    /\ Event /\ Len(up) < UpMax /\ up' = Append(up, m)
    /\ UNCHANGED <<gateway, pcVars>>

(* Gateways with the newer protocol send alarm_event with their id; the    *)
(* acknowledgement of a remove_device command comes the same way.  That of *)
(* Linux_data is left out: its alarms leave no rows to delete              *)
(* (ParseAlarmEventPayload).                                               *)
AlarmEvents == [kind : {"alarm_event"}, id : Alarms, st : {"active", "recovered"}, gateway : {TRUE}]
Removed == [kind |-> "removed", id |-> NoAlarm, st |-> "active", gateway |-> TRUE]

-----------------------------------------------------------------------------
(* The alarm_event table: each method is one critical section              *)

OpenRows(rs, a) == {i \in DOMAIN rs : rs[i].id = a /\ rs[i].st \in {"active", "acknowledged"}}

(* INSERT: a number above those of all rows.                               *)
NewNumber(rs) == 1 + Max({0} \cup DOMAIN rs)
Inserted(rs, row) == [i \in DOMAIN rs \cup {NewNumber(rs)} |-> IF i \in DOMAIN rs THEN rs[i] ELSE row]

(* DELETE: the rows that are kept.                                         *)
Kept(rs, numbers) == [i \in numbers |-> rs[i]]

(* Mutant of SaveAlarmEvent: an acknowledged row takes in a new alarm and  *)
(* stays acknowledged.                                                     *)
MutSaveAlarmEvent(rs, a, st) ==
    IF OpenRows(rs, a) /= {}
    THEN [i \in DOMAIN rs |-> IF i \in OpenRows(rs, a) THEN [rs[i] EXCEPT !.st = st] ELSE rs[i]]
    ELSE Inserted(rs, [id |-> a, st |-> st, acked |-> FALSE])

(* Open rows of the alarm take the new state; without one a row is added,  *)
(* a recovery too.                                                         *)
SaveAlarmEvent(rs, a, st) ==
    LET row == [id |-> a, st |-> st, acked |-> FALSE]
    IN  IF OpenRows(rs, a) /= {}
        THEN [i \in DOMAIN rs |-> IF i \in OpenRows(rs, a) THEN row ELSE rs[i]]
        ELSE Inserted(rs, row)

(* Every row of the alarm, a recovered one too.                            *)
AcknowledgeAlarm(rs, a) ==
    [i \in DOMAIN rs |-> IF rs[i].id = a THEN [rs[i] EXCEPT !.st = "acknowledged", !.acked = TRUE]
                                         ELSE rs[i]]

ClearRecoveredAlarms(rs) == Kept(rs, {i \in DOMAIN rs : rs[i].st /= "recovered"})
ClearAcknowledgedAlarms(rs) ==
    Kept(rs, {i \in DOMAIN rs : rs[i].st /= "acknowledged" /\ ~rs[i].acked})

QueryAlarmEvents(rs) == [i \in DOMAIN rs |-> [id |-> rs[i].id, st |-> rs[i].st]]

-----------------------------------------------------------------------------
(* Pc_data's MQTT callback thread                                          *)

(* Either form of the payload needs the gateway id; the one in the topic   *)
(* is looked at only afterwards.                                           *)
ParseAlarmEventPayload(m) == m.gateway

(* A remove_device acknowledgement is passed on to Pc_ui before the rows   *)
(* of the device are deleted.                                              *)
MqReceive ==
    LET m == Head(up)
    IN  /\ mq.op = "idle" /\ up /= <<>>
        /\ up' = Tail(up)
        /\ \/ /\ m.kind /= "removed"
              /\ mq' = IF ParseAlarmEventPayload(m) THEN [op |-> "save", id |-> m.id, st |-> m.st]
                                                    ELSE MqIdle
              /\ UNCHANGED pipe
           \/ /\ m.kind = "removed" /\ CanSend(pipe)
              /\ pipe' = ServerSend(pipe, [type |-> "removed", list |-> NoRows])
              /\ mq' = [MqIdle EXCEPT !.op = "delete"]
        /\ UNCHANGED <<gateway, rows, ip, ui, bounds>>

MqSave ==
    /\ mq.op = "save"
    /\ \/ rows' = SaveAlarmEvent(rows, mq.id, mq.st) /\ mq' = [mq EXCEPT !.op = "send"]
       \/ UNCHANGED rows /\ mq' = MqIdle
    /\ UNCHANGED <<gateway, up, ip, pipe, ui, bounds>>

MqSend ==
    /\ mq.op = "send" /\ CanSend(pipe)
    /\ pipe' = ServerSend(pipe, [type |-> "alarm_event", list |-> <<[id |-> mq.id, st |-> mq.st]>>])
    /\ mq' = MqIdle
    /\ UNCHANGED <<gateway, up, rows, ip, ui, bounds>>

(* deleteDeviceData takes the alarm rows of the device along.              *)
MqDelete ==
    /\ mq.op = "delete"
    /\ \/ rows' = NoRows /\ mq' = [mq EXCEPT !.op = "deleted"]
       \/ UNCHANGED rows /\ mq' = [mq EXCEPT !.op = "kept"]
    /\ UNCHANGED <<gateway, up, ip, pipe, ui, bounds>>

(* command_log_update, with the outcome.                                   *)
MqLogUpdate ==
    /\ mq.op \in {"deleted", "kept"} /\ CanSend(pipe)
    /\ pipe' = ServerSend(pipe, [type |-> IF mq.op = "deleted" THEN "removed" ELSE "not_removed",
                                 list |-> NoRows])
    /\ mq' = MqIdle
    /\ UNCHANGED <<gateway, up, rows, ip, ui, bounds>>

-----------------------------------------------------------------------------
(* Pc_data's IPC thread                                                    *)

(* What a request does to the table; the statement may fail, and the       *)
(* snapshot that follows is sent all the same.                             *)
Stored(r) ==
    CASE r.req = "ack_alarm"                 -> {rows, AcknowledgeAlarm(rows, r.id)}
      [] r.req = "clear_recovered_alarms"    -> {rows, ClearRecoveredAlarms(rows)}
      [] r.req = "clear_acknowledged_alarms" -> {rows, ClearAcknowledgedAlarms(rows)}
      [] OTHER                               -> {rows}

IpReceive ==
    LET r == Head(pipe.toSvc)
    IN  /\ ip.op = "idle" /\ pipe.toSvc /= <<>>
        /\ pipe' = ServerRead(pipe)
        /\ \/ r.req /= "clear_all_data" /\ rows' \in Stored(r) /\ ip' = [IpIdle EXCEPT !.op = "query"]
           \/ r.req = "clear_all_data" /\ rows' = NoRows /\ ip' = [IpIdle EXCEPT !.op = "cleared"]
           \/ r.req = "clear_all_data" /\ UNCHANGED rows /\ ip' = [IpIdle EXCEPT !.op = "not_cleared"]
        /\ UNCHANGED <<gateway, up, mq, ui, bounds>>

IpQuery ==
    /\ ip.op = "query"
    /\ ip' = [op |-> "send", list |-> QueryAlarmEvents(rows)]
    /\ UNCHANGED <<gateway, up, rows, mq, pipe, ui, bounds>>

IpSend ==
    /\ ip.op \in {"send", "cleared", "not_cleared"} /\ CanSend(pipe)
    /\ pipe' = ServerSend(pipe, [type |-> IF ip.op = "send" THEN "alarm_events_snapshot" ELSE ip.op,
                                 list |-> ip.list])
    /\ ip' = IpIdle
    /\ UNCHANGED <<gateway, up, rows, mq, ui, bounds>>

-----------------------------------------------------------------------------
(* Pc_ui                                                                   *)

GetAlarmEvents == [req |-> "get_alarm_events", id |-> NoAlarm]

(* A later entry of the list replaces an earlier one of the same alarm:    *)
(* the row with the lowest number is shown.                                *)
OnAlarmSnapshot(list) ==
    [a \in Alarms |-> LET at == {i \in DOMAIN list : list[i].id = a}
                      IN  IF at = {} THEN "none" ELSE list[Min(at)].st]

OnAlarmMessage(e) == [ui EXCEPT ![e.id] = e.st]

(* MainWindow::handleIpcMessage; a removal or a clearing is followed by a  *)
(* request of all snapshots.                                               *)
UiReceive ==
    LET m == Head(pipe.toUi)
    IN  /\ pipe.toUi /= <<>>
        /\ ui' = CASE m.type = "alarm_event"           -> OnAlarmMessage(m.list[1])
                   [] m.type = "alarm_events_snapshot" -> OnAlarmSnapshot(m.list)
                   [] m.type \in {"not_removed", "not_cleared"} -> ui
                   [] OTHER                            -> NothingShown
        /\ pipe' = IF m.type \in {"alarm_event", "alarm_events_snapshot"} THEN ClientRead(pipe)
                   ELSE ClientSend(ClientRead(pipe), GetAlarmEvents)
        /\ UNCHANGED <<gateway, up, rows, mq, ip, bounds>>

(* AlarmLogPage acknowledges an alarm it shows as active, and SystemSetting*)
(* clears everything.                                                      *)
UiRequest(r) ==
    /\ pipe.up /\ requests < MaxRequests /\ requests' = requests + 1
    /\ r.req = "ack_alarm" => r.id /= NoAlarm /\ ui[r.id] = "active"
    /\ r.req /= "ack_alarm" => r.id = NoAlarm
    /\ pipe' = ClientSend(pipe, r)
    /\ UNCHANGED <<gateway, up, rows, mq, ip, ui, events, breaks>>

(* Mutant of UiConnect: nothing is requested upon the connection.          *)
MutUiConnect ==
    /\ ~pipe.up /\ ip.op = "idle"
    /\ pipe' = Opened
    /\ UNCHANGED <<gateway, up, rows, mq, ip, ui, bounds>>

(* The 2 s timer of Pc_ui; the server accepts once its thread has returned *)
(* from the handler of the last client.  The list is kept meanwhile.       *)
UiConnect ==
    /\ ~pipe.up /\ ip.op = "idle"
    /\ pipe' = ClientSend(Opened, GetAlarmEvents)
    /\ UNCHANGED <<gateway, up, rows, mq, ip, ui, bounds>>

PipeBreaks ==
    /\ pipe.up /\ breaks < MaxBreaks /\ breaks' = breaks + 1
    /\ pipe' = Broken
    /\ UNCHANGED <<gateway, up, rows, mq, ip, ui, events, requests>>

-----------------------------------------------------------------------------
MqttThread == MqReceive \/ MqSave \/ MqSend \/ MqDelete \/ MqLogUpdate
IpcThread  == IpReceive \/ IpQuery \/ IpSend

Next ==
    \/ \E r \in Polls : PollDevice(r)
    \/ TestReading
    \/ \E s \in Sensors : BeginSetThreshold(s.config)
    \/ EndSetThreshold
    \/ \E m \in AlarmEvents : newer /\ Send(m)
    \/ newer /\ Send(Removed)
    \/ MqttThread \/ IpcThread
    \/ UiReceive \/ UiConnect \/ PipeBreaks
    \/ \E r \in Request : UiRequest(r)

(* Threads run and the reconnect timer fires; nobody is bound to send,     *)
(* request or break anything.                                              *)
Fairness ==
    /\ WF_vars(MqttThread) /\ WF_vars(IpcThread)
    /\ WF_vars(UiReceive) /\ WF_vars(UiConnect)

Spec == Init /\ [][Next]_vars /\ Fairness

-----------------------------------------------------------------------------
(* Properties                                                              *)

(* Clearing acknowledged or recovered alarms never deletes an active one,  *)
(* although an alarm that was acknowledged may have been raised again, or  *)
(* recovered and been acknowledged, before the request is served           *)
(* (PcDatabase::clearAcknowledgedAlarms, clearRecoveredAlarms): rows of    *)
(* active alarms go only with their device or with all data.               *)
ActiveNotCleared ==
    [][/\ DOMAIN rows \ DOMAIN rows' /= {}
       /\ UNCHANGED mq /\ ip'.op /= "cleared"
       => \A i \in DOMAIN rows : rows[i].st = "active" => i \in DOMAIN rows' /\ rows'[i] = rows[i]]_vars

(* Once no event is under way, what Pc_ui shows becomes what a snapshot of *)
(* the table shows, if the pipe is down or a request is queued: whatever   *)
(* was lost with the pipe, overtaken by an older snapshot or shown for a   *)
(* device that is gone (MainWindow::initIpc, requestAlarmEvents).          *)
NoEvents == events = MaxEvents /\ mq.op = "idle"
            /\ \A i \in DOMAIN up : up[i].kind = "emergency"
SnapshotHeals ==
    NoEvents /\ (~pipe.up \/ pipe.toSvc /= <<>>) ~> ui = OnAlarmSnapshot(QueryAlarmEvents(rows))

(* Once nothing is under way, the limits an operator entered are the ones  *)
(* the sensor tests and the file holds, and the rows of point_config are   *)
(* the limits tested, whichever message brought them last (parse_sensor_   *)
(* threshold_config, exportConfigSnapshotJson, publishThresholdConfig).    *)
(* add_device from Pc_ui brings its limits disabled.                       *)
ThresholdsArrive == up = <<>> /\ mq.op = "idle" => LimitsArrive

(* A point is out of range at the last reading tested.                     *)
Exceeds(p) ==
    /\ sensor.has /\ sensor.config.threshold_enabled /\ sensor.config.point[p].enable_alarm
    /\ tested /= NoReading /\ OutOfRangeNow(p, tested)

(* Linux_data judges whether a value is out of range and reports it        *)
(* (README.md:657): a temperature out of range has been reported, also     *)
(* when thresholds are set between a reading and its test, and when new    *)
(* thresholds could not be saved and the old ones come back                *)
(* (TemperatureHumiditySensor::checkThreshold, setDeviceThreshold).        *)
TemperatureIsReported == Exceeds("temperature") => "temperature" \in told

(* An alarm is published for a value that is out of range, and only one    *)
(* until the value is read in range again or thresholds are set, however   *)
(* often it is read (last_temperature_alarm_, last_humidity_alarm_).       *)
OneAlarmPerExcursion ==
    [][\A p \in Points : up' = Append(up, Emergency(p)) => p \notin told /\ Exceeds(p)']_vars

=============================================================================
