-------------------------------- MODULE PcUi --------------------------------
(***************************************************************************)
(* Pc_ui's picture of the devices, fed by Pc_data over the pipe: pushed    *)
(* and pulled snapshots, removals and additions, breaks of the pipe, and   *)
(* the watchdog.  In Pc_data three threads send: the IPC thread (ip), the  *)
(* MQTT callback thread on the outcome of a command (mq), and one that     *)
(* pushes snapshots (push: the latest_points publisher, and the            *)
(* notifications of the callback thread and the main loop).  A snapshot is *)
(* read from memory in one step and sent in a later one, so two of them    *)
(* may overtake each other.  Of Pc_data's memory only what the snapshots   *)
(* show is kept (PcRegistry has the rest).                                 *)
(***************************************************************************)
EXTENDS PcUiState, IpcPipe

CONSTANTS
    Bad,         \* the samples that report the device offline
    Statuses,    \* what a registration says of a device
    MaxOps,      \* registrations, removals, additions and requests of the operator
    MaxBreaks    \* breaks and silences of the pipe

ASSUME PcUiAssumption ==
    /\ Bad \subseteq 1 .. MaxSample /\ Statuses \subseteq {"online", "offline", "unknown"}
    /\ MaxOps \in Nat /\ MaxBreaks \in Nat

VARIABLES
    samples,   \* telemetry samples received by Pc_data
    aged,      \* samples up to aged.stale are older than 30 s, to aged.gone than 90 s
    reg,       \* m_deviceRegistry
    snap,      \* m_snapshot: the newest sample per device
    dirty,     \* m_latestPointsDirty
    thread,    \* per thread of Pc_data: the sends it still has to do, and the one begun
    pipe, ui,
    ops, breaks   \* bounds

dataVars == <<samples, aged>>
svcVars == <<reg, snap, dirty>>
bounds == <<ops, breaks>>
vars == <<dataVars, svcVars, thread, pipe, ui, bounds>>

Old == [k \in 0 .. MaxSample |-> IF k <= aged.gone THEN "offline"
                                ELSE IF k <= aged.stale THEN "stale" ELSE "fresh"]

Threads == {"ipc", "mqtt", "publisher"}

(* Frames to Pc_ui.  "forget" is a job of the callback thread, not a frame. *)
Types == {"latest_points", "devices_snapshot", "pending_snapshot", "removed", "added", "not_done",
          "master_removed", "cleared", "forget", "none"}
Requests == {"full_snapshot", "delete_master_data", "clear_all_data"}
NoPoints == [d \in Devices |-> 0]
NoReg == [d \in Devices |-> NoNode]
Messages == [type : Types, pts : [Devices -> 0 .. MaxSample], reg : [Devices -> Node],
             of : SUBSET Devices]
About(type, ds) == [type |-> type, pts |-> NoPoints, reg |-> NoReg, of |-> ds]
Plain(type) == About(type, {})
NoMsg == Plain("none")
Snapshots == <<Plain("latest_points"), Plain("devices_snapshot")>>
Idle == [todo |-> <<>>, msg |-> NoMsg]

TypeOK ==
    /\ samples \in 0 .. MaxSample
    /\ aged \in [stale : 0 .. samples, gone : 0 .. samples]
    /\ reg \in [Devices -> Node] /\ snap \in [Devices -> 0 .. samples] /\ dirty \in BOOLEAN
    /\ thread \in [Threads -> [todo : Seq(Messages), msg : Messages]]
    /\ pipe \in Pipe(Messages, Requests) /\ Len(pipe.toUi) <= PipeMax
    /\ ui \in UiType
    /\ ops \in 0 .. MaxOps /\ breaks \in 0 .. MaxBreaks

Registered(status, k) == [status |-> status, online |-> status = "online", n |-> k]

(* main fills the registry from the database before the pipe opens.        *)
Init ==
    /\ samples = 0 /\ aged = [stale |-> 0, gone |-> 0]
    /\ reg \in [Devices -> {NoNode} \cup {Registered(st, 0) : st \in Statuses}]
    /\ snap = NoPoints /\ dirty = FALSE
    /\ thread = [t \in Threads |-> Idle]
    /\ pipe = Broken /\ ui = EmptyUi
    /\ ops = 0 /\ breaks = 0

Bounded == ops < MaxOps /\ ops' = ops + 1

(* An idle thread begins its sends; most are skipped without a client,     *)
(* when sending would do nothing.                                          *)
Begins(t, jobs) ==
    /\ thread[t] = Idle
    /\ thread' = [thread EXCEPT ![t].todo = jobs]

-----------------------------------------------------------------------------
(* What the callback thread receives                                       *)

(* A registration carries a status and the time it was sent as last_seen.  *)
Register(d, status) ==
    /\ Bounded
    /\ reg' = [reg EXCEPT ![d] = Registered(status, samples)]
    /\ Begins("mqtt", <<Plain("devices_snapshot"), Plain("latest_points")>>)
    /\ UNCHANGED <<dataVars, snap, dirty, pipe, ui, breaks>>

(* handleTelemetryPoints, then markLatestPointsDirty.                      *)
Telemetry(d) ==
    /\ samples < MaxSample /\ Known(reg[d]) /\ thread["mqtt"] = Idle
    /\ samples' = samples + 1
    /\ snap' = [snap EXCEPT ![d] = samples']
    /\ dirty' = TRUE
    /\ UNCHANGED <<aged, reg, thread, pipe, ui, bounds>>

(* The acknowledgement of remove_device goes to Pc_ui before Pc_data       *)
(* forgets the device, the snapshots and the log update after.             *)
RemoveAck(d) ==
    /\ Bounded
    /\ Begins("mqtt", <<About("removed", {d}), About("forget", {d})>> \o Snapshots
                      \o <<About("removed", {d})>>)
    /\ UNCHANGED <<dataVars, svcVars, pipe, ui, breaks>>

(* The first snapshot lists the device although it has not registered yet. *)
AddAck(d) ==
    /\ Bounded
    /\ Begins("mqtt", <<About("added", {d}), About("pending_snapshot", {d}),
                        Plain("devices_snapshot"), Plain("latest_points"), About("added", {d})>>)
    /\ UNCHANGED <<dataVars, svcVars, pipe, ui, breaks>>

(* 30 s, and 60 s more, without a sample.                                  *)
TimePasses ==
    /\ \/ aged.stale < samples /\ aged' = [aged EXCEPT !.stale = samples]
       \/ aged.gone < aged.stale /\ aged.stale = samples /\ aged' = [aged EXCEPT !.gone = samples]
    /\ UNCHANGED <<samples, svcVars, thread, pipe, ui, bounds>>

-----------------------------------------------------------------------------
(* Threads of Pc_data that send                                            *)

SendLatestPoints(m)    == [m EXCEPT !.pts = snap]
SendDevicesSnapshot(m) == [m EXCEPT !.reg = reg]
SendDevicesSnapshotWithPendingDevice(m) ==
    [m EXCEPT !.type = "devices_snapshot", !.of = {},
              !.reg = [d \in Devices |-> IF d \in m.of /\ ~Known(reg[d])
                                         THEN Registered("unknown", 0) ELSE reg[d]]]

(* The content of a frame is read from memory.                             *)
Build(t) ==
    LET job == Head(thread[t].todo)
    IN  /\ thread[t].msg = NoMsg /\ thread[t].todo /= <<>> /\ job.type /= "forget"
        /\ thread' = [thread EXCEPT ![t] =
              [todo |-> Tail(@.todo),
               msg  |-> CASE job.type = "latest_points"    -> SendLatestPoints(job)
                          [] job.type = "devices_snapshot" -> SendDevicesSnapshot(job)
                          [] job.type = "pending_snapshot" -> SendDevicesSnapshotWithPendingDevice(job)
                          [] OTHER                         -> job]]
        /\ UNCHANGED <<dataVars, svcVars, pipe, ui, bounds>>

(* The publisher marks the points dirty again when the send failed.        *)
Send(t) ==
    /\ thread[t].msg /= NoMsg /\ CanSend(pipe)
    /\ pipe' = ServerSend(pipe, thread[t].msg)
    /\ thread' = [thread EXCEPT ![t].msg = NoMsg]
    /\ dirty' = (dirty \/ (t = "publisher" /\ ~pipe.up))
    /\ UNCHANGED <<dataVars, reg, snap, ui, bounds>>

(* Nothing is forgotten when the rows could not be deleted.  The device    *)
(* stays in the registry in any case.                                      *)
MqForget ==
    LET job == Head(thread["mqtt"].todo)
    IN  /\ thread["mqtt"].msg = NoMsg /\ thread["mqtt"].todo /= <<>> /\ job.type = "forget"
        /\ \/ /\ snap' = [d \in Devices |-> IF d \in job.of THEN 0 ELSE snap[d]]
              /\ thread' = [thread EXCEPT !["mqtt"].todo = Tail(@)]
           \/ /\ thread' = [thread EXCEPT !["mqtt"].todo = <<Plain("not_done")>>]
              /\ UNCHANGED snap
        /\ UNCHANGED <<dataVars, reg, dirty, pipe, ui, bounds>>

LatestPublisher ==
    /\ dirty /\ dirty' = FALSE
    /\ Begins("publisher", IF pipe.up THEN <<Plain("latest_points")>> ELSE <<>>)
    /\ UNCHANGED <<dataVars, reg, snap, pipe, ui, bounds>>

(* The IPC thread takes a request, changes the memory, and answers.        *)
(* delete_master_data clears the memory even when the database fails,      *)
(* clear_all_data does not.                                                *)
IpReceive ==
    /\ pipe.toSvc /= <<>> /\ pipe' = ServerRead(pipe)
    /\ \/ /\ Head(pipe.toSvc) = "full_snapshot"
          /\ Begins("ipc", Snapshots)
          /\ UNCHANGED <<snap, reg>>
       \/ /\ Head(pipe.toSvc) = "delete_master_data"
          /\ snap' = NoPoints /\ UNCHANGED reg
          /\ \E outcome \in {"master_removed", "not_done"} :
                Begins("ipc", <<Plain(outcome)>> \o Snapshots)
       \/ /\ Head(pipe.toSvc) = "clear_all_data"
          /\ \/ snap' = NoPoints /\ reg' = NoReg /\ Begins("ipc", <<Plain("cleared")>> \o Snapshots)
             \/ UNCHANGED <<snap, reg>> /\ Begins("ipc", <<Plain("not_done")>> \o Snapshots)
    /\ UNCHANGED <<dataVars, dirty, ui, bounds>>

-----------------------------------------------------------------------------
(* Pc_ui                                                                   *)

(* The requests of one full snapshot are answered in turn: one message.    *)
RequestFullSnapshot(p) == ClientSend(p, "full_snapshot")

Removed(u, ds) == LET d == CHOOSE x \in ds : TRUE IN RemoveDeviceData(u, d)
Added(u, ds)   == LET d == CHOOSE x \in ds : TRUE IN ForgetRemovedDevice(u, d)

(* MainWindow::handleIpcMessage.                                           *)
UiReceive ==
    LET m == Head(pipe.toUi)
    IN  /\ pipe.toUi /= <<>>
        /\ ui' = CASE m.type = "latest_points"    -> OnLatestPointsMessage(ui, m.pts, Bad, Old)
                   [] m.type = "devices_snapshot" -> OnDevicesSnapshotMessage(ui, m.reg)
                   [] m.type = "removed"          -> Removed(ui, m.of)
                   [] m.type = "added"            -> Added(ui, m.of)
                   [] m.type = "master_removed"   -> RemoveMasterData(ui)
                   [] m.type = "cleared"          -> ClearRuntimeData(ui)
                   [] OTHER                       -> ui
        /\ pipe' = IF m.type \in {"latest_points", "devices_snapshot"} THEN ClientRead(pipe)
                   ELSE RequestFullSnapshot(ClientRead(pipe))
        /\ UNCHANGED <<dataVars, svcVars, thread, bounds>>

(* The 1 s timer; the request before has been served by then.              *)
UiPull ==
    /\ pipe.up /\ pipe.toSvc = <<>> /\ thread["ipc"] = Idle
    /\ pipe' = RequestFullSnapshot(pipe)
    /\ UNCHANGED <<dataVars, svcVars, thread, ui, bounds>>

(* delete_master_data is sent for a port without devices only.             *)
UiRequest(r) ==
    /\ pipe.up /\ Bounded
    /\ r = "delete_master_data" => \A d \in Devices : ~Known(ui.dm[d])
    /\ pipe' = ClientSend(pipe, r)
    /\ UNCHANGED <<dataVars, svcVars, thread, ui, breaks>>

(* initIpc's watchdog, every second.                                       *)
UiWatchdog ==
    LET refreshed == RefreshOfflineStates(ui, Old)
    IN  /\ ui' = IF pipe.up THEN refreshed ELSE MarkAllDevicesOffline(refreshed)
        /\ UNCHANGED <<dataVars, svcVars, thread, pipe, bounds>>

(* 45 s without a message are taken for a service that is gone.            *)
UiSilence ==
    /\ pipe.up /\ pipe.toUi = <<>> /\ breaks < MaxBreaks /\ breaks' = breaks + 1
    /\ ui' = MarkAllDevicesOffline(RefreshOfflineStates(ui, Old))
    /\ UNCHANGED <<dataVars, svcVars, thread, pipe, ops>>

PipeBreaks ==
    /\ pipe.up /\ breaks < MaxBreaks /\ breaks' = breaks + 1
    /\ pipe' = Broken
    /\ ui' = MarkAllDevicesOffline(ui)
    /\ UNCHANGED <<dataVars, svcVars, thread, ops>>

(* The 2 s timer.  The server's callback sends the snapshots at once.      *)
UiConnect ==
    /\ ~pipe.up /\ pipe' = Opened
    /\ Begins("ipc", <<Plain("devices_snapshot"), Plain("latest_points")>>)
    /\ UNCHANGED <<dataVars, svcVars, ui, bounds>>

-----------------------------------------------------------------------------
Service ==
    \/ \E d \in Devices, st \in Statuses : Register(d, st)
    \/ \E d \in Devices : Telemetry(d) \/ RemoveAck(d) \/ AddAck(d)

IpcThread == IpReceive \/ Build("ipc") \/ Send("ipc")
MqttThread == MqForget \/ Build("mqtt") \/ Send("mqtt")
Publisher == LatestPublisher \/ Build("publisher") \/ Send("publisher")

Next ==
    \/ Service \/ TimePasses
    \/ IpcThread \/ MqttThread \/ Publisher
    \/ UiReceive \/ UiPull \/ UiWatchdog \/ UiSilence \/ UiConnect \/ PipeBreaks
    \/ \E r \in {"delete_master_data", "clear_all_data"} : UiRequest(r)

(* Threads run, Qt's event loop turns and its timers fire.  Nothing is     *)
(* assumed of who gets the room in the pipe.                               *)
Fairness ==
    /\ WF_vars(IpcThread) /\ WF_vars(MqttThread) /\ WF_vars(Publisher)
    /\ WF_vars(UiReceive) /\ WF_vars(UiPull) /\ WF_vars(UiWatchdog) /\ WF_vars(UiConnect)

Spec == Init /\ [][Next]_vars /\ Fairness

-----------------------------------------------------------------------------
(* Properties                                                              *)

(* A removed device is nowhere in Pc_ui until it is added again: not by a  *)
(* snapshot that was read before the removal and sent after it, nor by the *)
(* registry of Pc_data, which still lists it (DataManager::                *)
(* removeDeviceData, isDeletedDevice).                                     *)
RemovedStaysHidden ==
    \A d \in ui.tomb : ui.dm[d] = NoNode /\ ui.rt[d] = NoData /\ ui.mirror[d] = NoState

(* The values of a device never go back to an older sample, although       *)
(* snapshots of several threads overtake each other on the way             *)
(* (DataManager::upsertRealtimeData).                                      *)
ValuesDoNotGoBack ==
    [][\A d \in Devices : ui.rt[d].points /\ ui'.rt[d].points =>
                              ui'.rt[d].node.n >= ui.rt[d].node.n]_vars

(* A value that Pc_data holds for a device that is not removed gets to the *)
(* screen, and the device is then no longer shown as cut off, whatever was *)
(* lost with the pipe (latestPublisherLoop, MainWindow::initIpc).          *)
Held(d, k) == pipe.up /\ snap[d] = k /\ d \notin ui.tomb
LatestIsShown ==
    \A d \in Devices : \A k \in 1 .. MaxSample :
        Held(d, k) ~> \/ ~Held(d, k)
                      \/ ui.mirror[d].data.node.n = k /\ ui.mirror[d].life /= "service_offline"

=============================================================================
