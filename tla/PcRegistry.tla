----------------------------- MODULE PcRegistry -----------------------------
(***************************************************************************)
(* Pc_data's registry of devices and their newest values: the MQTT         *)
(* callback thread, the telemetry worker, the database writer, the IPC     *)
(* thread and the main loop, over the memory of PcDataService and the      *)
(* tables of PcDatabase.  The two are locked separately, so a handler that *)
(* uses both is cut where it lets go of one lock; op names the step it has *)
(* reached.  Any message of the gateway and any request of Pc_ui may come  *)
(* at any time; a database call may fail.  What is published or sent in    *)
(* answer is not state here (RegisterLink, CommandLife and PcUi have it).  *)
(***************************************************************************)
EXTENDS PcDataService, Sequences

CONSTANTS
    QueueMax,     \* kMaxTelemetryQueueSize
    MaxOps,       \* messages of the gateway but telemetry, and requests of Pc_ui
    MaxRestart    \* restarts of Pc_data

ASSUME RegistryAssumption == QueueMax \in Nat \ {0} /\ MaxOps \in Nat /\ MaxRestart \in Nat

VARIABLES
    db,         \* the tables
    svc,        \* the memory
    queue,      \* m_telemetryQueue: packs, each a sample of some devices
    worker,     \* the pack the telemetry worker holds, and its step
    pendingDb,  \* m_pendingDbPoints: the newest sample per device, 0 none
    writer,     \* the points the database writer has taken
    mq,         \* the handler the MQTT callback thread is in
    ip,         \* the handler the IPC thread is in
    samples,    \* packs received
    results,    \* sync results sent to Pc_ui, by number of the request
    ops,      \* bound
    restarts    \* bound

vars == <<db, svc, queue, worker, pendingDb, writer, mq, ip, samples, results,
          ops, restarts>>

-----------------------------------------------------------------------------
NoPoints == [d \in Devices |-> 0]
Points(f) == [d \in {e \in Devices : f[e] /= 0} |-> f[d]]
Valid(f)  == [d \in {e \in Devices : f[e] /= 0} |-> [n |-> f[d], st |-> "online"]]

MqOps == {"idle", "device_check", "device_save", "device_remember", "port_remember",
          "gateway_remember", "status_remember", "snapshot_save", "snapshot_remove",
          "snapshot_replace", "sync_complete", "remove_delete", "remove_forget",
          "add_reactivate", "add_forget"}
IpOps == {"idle", "delete_memory", "master_memory", "clear_memory", "sync_publish", "sync_failed"}

(* What a handler has read and not yet used.                               *)
MqIdle == [op |-> "idle", ds |-> {}, old |-> {}, ps |-> {}, full |-> FALSE, seq |-> 0]
IpIdle == [op |-> "idle", ds |-> {}, ps |-> {}, seq |-> 0]

TypeOK ==
    /\ db \in DbType
    /\ svc \in SvcType
    /\ queue \in Seq([n : 1 .. MaxSample, ds : SUBSET Devices]) /\ Len(queue) <= QueueMax
    /\ worker \in [op : {"idle", "check", "apply", "store"}, n : 0 .. MaxSample,
                   ds : SUBSET Devices]
    /\ pendingDb \in [Devices -> 0 .. MaxSample]
    /\ writer \in [Devices -> 0 .. MaxSample]
    /\ mq \in [op : MqOps, ds : SUBSET Devices, old : SUBSET Devices,
               ps : SUBSET Ports, full : BOOLEAN, seq : 0 .. MaxSync]
    /\ ip \in [op : IpOps, ds : SUBSET Devices, ps : SUBSET Ports, seq : 0 .. MaxSync]
    /\ samples \in 0 .. MaxSample
    /\ results \in [1 .. MaxSync -> 0 .. 2]
    /\ ops \in 0 .. MaxOps
    /\ restarts \in 0 .. MaxRestart

WorkerIdle == [op |-> "idle", n |-> 0, ds |-> {}]

(* main fills the memory from the tables before any thread runs.           *)
Seeded(t) ==
    LET gateway == IF QueryGatewayStatuses(t) = "none" THEN EmptySvc
                   ELSE UpdateGatewayStatus(EmptySvc, QueryGatewayStatuses(t))
    IN  HandleTelemetryPoints(
            RememberDeviceRegistries(RememberGatewayPorts(gateway, QueryGatewayPorts(t)),
                                     QueryDevices(t)),
            Points(QueryLatestPoints(t)))

(* The tables are empty or hold what an earlier run registered.            *)
Init ==
    /\ db \in {EmptyDb} \cup
             {UpsertDevices(UpsertGatewayPorts(UpsertGatewayStatus(EmptyDb), Ports, "connected"),
                            ds, "online", TRUE) : ds \in SUBSET Devices}
    /\ svc = Seeded(db)
    /\ queue = <<>> /\ worker = WorkerIdle
    /\ pendingDb = NoPoints /\ writer = NoPoints
    /\ mq = MqIdle /\ ip = IpIdle
    /\ samples = 0
    /\ results = [s \in 1 .. MaxSync |-> 0]
    /\ ops = 0 /\ restarts = 0

-----------------------------------------------------------------------------
(* Telemetry: from the MQTT callback through two threads to the tables     *)

EnqueueTelemetry(ds) ==
    /\ mq.op = "idle" /\ samples < MaxSample
    /\ queue' = Append(IF Len(queue) >= QueueMax THEN Tail(queue) ELSE queue,
                       [n |-> samples + 1, ds |-> ds])
    /\ samples' = samples + 1
    /\ UNCHANGED <<db, svc, worker, pendingDb, writer, mq, ip, results, ops, restarts>>

WorkerTake ==
    /\ worker.op = "idle" /\ queue /= <<>>
    /\ worker' = [op |-> "check", n |-> Head(queue).n, ds |-> Head(queue).ds]
    /\ queue' = Tail(queue)
    /\ UNCHANGED <<db, svc, pendingDb, writer, mq, ip, samples, results, ops, restarts>>

(* Unknown and removed devices are taken out of the pack; a pack that does *)
(* not parse, or whose devices have another type, may go altogether.       *)
WorkerCheck ==
    LET known == {d \in worker.ds :
                    /\ GatewayRegistered(svc) /\ PortRegistered(svc, PortOf[d])
                    /\ ~IsRemovedDevice(svc, d) /\ DeviceRegistered(svc, d)}
    IN  /\ worker.op = "check"
        /\ \/ known /= {} /\ worker' = [worker EXCEPT !.op = "apply", !.ds = known]
           \/ worker' = WorkerIdle
        /\ UNCHANGED <<db, svc, queue, pendingDb, writer, mq, ip, samples, results, ops, restarts>>

WorkerApply ==
    /\ worker.op = "apply"
    /\ svc' = HandleTelemetryPoints(svc, [d \in worker.ds |-> worker.n])
    /\ worker' = [worker EXCEPT !.op = "store"]
    /\ UNCHANGED <<db, queue, pendingDb, writer, mq, ip, samples, results, ops, restarts>>

EnqueueTelemetryStorage ==
    /\ worker.op = "store"
    /\ pendingDb' = [d \in Devices |-> IF d \in worker.ds THEN worker.n ELSE pendingDb[d]]
    /\ worker' = WorkerIdle
    /\ UNCHANGED <<db, svc, queue, writer, mq, ip, samples, results, ops, restarts>>

WriterTake ==
    /\ writer = NoPoints /\ pendingDb /= NoPoints
    /\ writer' = pendingDb /\ pendingDb' = NoPoints
    /\ UNCHANGED <<db, svc, queue, worker, mq, ip, samples, results, ops, restarts>>

(* Points whose transaction fails are gone.                                *)
WriterSave ==
    /\ writer /= NoPoints
    /\ db' \in {db, SaveTelemetryPoints(db, Valid(writer))}
    /\ writer' = NoPoints
    /\ UNCHANGED <<svc, queue, worker, pendingDb, mq, ip, samples, results, ops, restarts>>

-----------------------------------------------------------------------------
(* Registrations and states from the gateway, on the MQTT callback thread  *)

MqUnchanged == UNCHANGED <<queue, worker, pendingDb, writer, ip, samples, results, restarts>>

MqBegin == mq.op = "idle" /\ ops < MaxOps /\ ops' = ops + 1

DeviceRegister(d) ==
    /\ MqBegin /\ ~IsRemovedDevice(svc, d)
    /\ mq' = [MqIdle EXCEPT !.op = "device_check", !.ds = {d}]
    /\ UNCHANGED <<db, svc>> /\ MqUnchanged

DeviceCheck ==
    /\ mq.op = "device_check"
    /\ mq' = IF \E d \in mq.ds : DeviceDeleted(db, d) THEN MqIdle
             ELSE [mq EXCEPT !.op = "device_save"]
    /\ UNCHANGED <<db, svc, ops>> /\ MqUnchanged

(* upsertDevice looks for the tombstone again; it also fails when its      *)
(* transaction does.                                                       *)
DeviceSave ==
    /\ mq.op = "device_save"
    /\ \/ \E d \in mq.ds :
             /\ db' = UpsertDevice(db, d, "online", TRUE, FALSE)
             /\ DeviceExists(db', d)
             /\ mq' = [mq EXCEPT !.op = "device_remember"]
       \/ mq' = MqIdle /\ UNCHANGED db
    /\ UNCHANGED <<svc, ops>> /\ MqUnchanged

DeviceRemember ==
    /\ mq.op = "device_remember"
    /\ svc' = UpdateDeviceRegistry(svc, mq.ds)
    /\ mq' = MqIdle
    /\ UNCHANGED <<db, ops>> /\ MqUnchanged

(* port_register and port_status store the port first.                     *)
PortRegister(p, st) ==
    /\ MqBegin
    /\ db' = UpsertGatewayPort(db, p, st)
    /\ mq' = [MqIdle EXCEPT !.op = "port_remember", !.ps = {p}]
    /\ UNCHANGED svc /\ MqUnchanged

PortRemember ==
    /\ mq.op = "port_remember"
    /\ svc' = UpdateGatewayPorts(svc, mq.ps)
    /\ mq' = MqIdle
    /\ UNCHANGED <<db, ops>> /\ MqUnchanged

(* stored are the ports whose row could be written.                        *)
GatewayRegister(ps, stored) ==
    /\ MqBegin
    /\ db' = UpsertGatewayPorts(UpsertGatewayStatus(db), stored, "connected")
    /\ mq' = IF stored = ps THEN [MqIdle EXCEPT !.op = "gateway_remember", !.ps = ps]
                            ELSE MqIdle
    /\ UNCHANGED svc /\ MqUnchanged

GatewayRemember ==
    /\ mq.op = "gateway_remember"
    /\ svc' = UpdateGatewayStatus(
                  RememberGatewayPorts(RememberGatewayRegistry(svc), mq.ps), "online")
    /\ mq' = MqIdle
    /\ UNCHANGED <<db, ops>> /\ MqUnchanged

GatewayHeartbeat ==
    /\ MqBegin
    /\ db' = UpdateGatewayHeartbeat(db)
    /\ mq' = [MqIdle EXCEPT !.op = "status_remember"]
    /\ UNCHANGED svc /\ MqUnchanged

StatusRemember ==
    /\ mq.op = "status_remember"
    /\ svc' = UpdateGatewayStatus(svc, "online")
    /\ mq' = MqIdle
    /\ UNCHANGED <<db, ops>> /\ MqUnchanged

ThresholdConfig(d) ==
    /\ MqBegin /\ DeviceExists(db, d)
    /\ db' = SavePointConfigs(db, {d})
    /\ UNCHANGED <<svc, mq>> /\ MqUnchanged

-----------------------------------------------------------------------------
(* config_snapshot.  Its number may be that of a pending sync, whose       *)
(* devices alone are then taken from it.                                   *)

ConfigSnapshot(ds, full, s) ==
    LET sync == FindSyncPending(svc, s)
    IN  /\ MqBegin
        /\ mq' = [op   |-> "snapshot_save",
                  ds   |-> IF sync THEN ds \cap svc.sync[s] ELSE ds,
                  old  |-> IF sync THEN svc.sync[s] ELSE IF full THEN QueryDevices(db) ELSE {},
                  ps   |-> Ports,
                  full |-> full /\ ~sync,
                  seq  |-> IF sync THEN s ELSE 0]
        /\ UNCHANGED <<db, svc>> /\ MqUnchanged

SnapshotSaved(bad) ==
    IF mq.seq /= 0
    THEN ReplaceSelectedDeviceConfig(db, mq.old, mq.ps, "connected", mq.ds, mq.ds,
                                     "online", TRUE, bad)
    ELSE UpsertGatewayConfigSnapshot(db, mq.ps, "connected", mq.ds, mq.ds,
                                     "online", TRUE, mq.full, bad)

(* bad are the devices whose transaction fails; the rest is stored all the *)
(* same, and the memory is left as it was.                                 *)
SnapshotSave ==
    /\ mq.op = "snapshot_save"
    /\ \E bad \in SUBSET Devices :
          /\ db' = SnapshotSaved(bad)
          /\ mq' = IF bad = {} THEN [mq EXCEPT !.op = "snapshot_remove"]
                   ELSE IF mq.seq /= 0 THEN [mq EXCEPT !.op = "sync_complete"]
                   ELSE MqIdle
    /\ UNCHANGED <<svc, ops>> /\ MqUnchanged

SnapshotRemove ==
    /\ mq.op = "snapshot_remove"
    /\ svc' = IF mq.full THEN RemoveDevicesData(svc, mq.old \ mq.ds)
              ELSE IF mq.seq /= 0 THEN ForgetRemovedDevices(svc, mq.ds)
              ELSE svc
    /\ mq' = [mq EXCEPT !.op = "snapshot_replace"]
    /\ UNCHANGED <<db, ops>> /\ MqUnchanged

SnapshotReplace ==
    /\ mq.op = "snapshot_replace"
    /\ svc' = ReplaceGatewayRegistry(svc, mq.ps, mq.ds, mq.full)
    /\ mq' = IF mq.seq /= 0 THEN [mq EXCEPT !.op = "sync_complete"] ELSE MqIdle
    /\ UNCHANGED <<db, ops>> /\ MqUnchanged

(* Mutant of Completed: the result is sent though the entry was gone.      *)
MutCompletedBlind(s) ==
    /\ svc' = CompleteSyncConfig(svc, s)
    /\ results' = [results EXCEPT ![s] = @ + 1]

(* Whoever takes the pending entry away sends the result.                  *)
Completed(s) ==
    IF FindSyncPending(svc, s)
    THEN svc' = CompleteSyncConfig(svc, s) /\ results' = [results EXCEPT ![s] = @ + 1]
    ELSE UNCHANGED <<svc, results>>

SyncComplete ==
    /\ mq.op = "sync_complete"
    /\ Completed(mq.seq)
    /\ mq' = MqIdle
    /\ UNCHANGED <<db, queue, worker, pendingDb, writer, ip, samples, ops, restarts>>

-----------------------------------------------------------------------------
(* Final acknowledgements of add_device and remove_device                  *)

RemoveAck(d) ==
    /\ MqBegin
    /\ mq' = [MqIdle EXCEPT !.op = "remove_delete", !.ds = {d}]
    /\ UNCHANGED <<db, svc>> /\ MqUnchanged

RemoveDelete ==
    /\ mq.op = "remove_delete"
    /\ \/ /\ \E d \in mq.ds : db' = DeleteDeviceData(db, d)
          /\ mq' = [mq EXCEPT !.op = "remove_forget"]
       \/ mq' = MqIdle /\ UNCHANGED db
    /\ UNCHANGED <<svc, ops>> /\ MqUnchanged

RemoveForget ==
    /\ mq.op = "remove_forget"
    /\ svc' = RemoveDevicesData(svc, mq.ds)
    /\ mq' = MqIdle
    /\ UNCHANGED <<db, ops>> /\ MqUnchanged

AddAck(d) ==
    /\ MqBegin
    /\ mq' = [MqIdle EXCEPT !.op = "add_reactivate", !.ds = {d}]
    /\ UNCHANGED <<db, svc>> /\ MqUnchanged

(* The result of the statement is not looked at.                           *)
AddReactivate ==
    /\ mq.op = "add_reactivate"
    /\ db' \in {db} \cup {ReactivateDeletedDevice(db, d) : d \in mq.ds}
    /\ mq' = [mq EXCEPT !.op = "add_forget"]
    /\ UNCHANGED <<svc, ops>> /\ MqUnchanged

AddForget ==
    /\ mq.op = "add_forget"
    /\ svc' = ForgetRemovedDevices(svc, mq.ds)
    /\ mq' = MqIdle
    /\ UNCHANGED <<db, ops>> /\ MqUnchanged

-----------------------------------------------------------------------------
(* Requests of Pc_ui, on the IPC thread                                    *)

IpUnchanged == UNCHANGED <<queue, worker, pendingDb, writer, mq, samples, restarts>>

IpBegin == ip.op = "idle" /\ ops < MaxOps /\ ops' = ops + 1

DeleteDevice(d) ==
    /\ IpBegin
    /\ db' = DeleteDeviceData(db, d)
    /\ ip' = [IpIdle EXCEPT !.op = "delete_memory", !.ds = {d}]
    /\ UNCHANGED <<svc, results>> /\ IpUnchanged

DeleteMemory ==
    /\ ip.op = "delete_memory"
    /\ svc' = RemoveDevicesData(svc, ip.ds)
    /\ ip' = IpIdle
    /\ UNCHANGED <<db, results, ops>> /\ IpUnchanged

(* The memory is wiped even when the tables were not.                      *)
DeleteMaster(p) ==
    /\ IpBegin
    /\ db' \in {db, DeleteMasterData(db, p)}
    /\ ip' = [IpIdle EXCEPT !.op = "master_memory", !.ps = {p}]
    /\ UNCHANGED <<svc, results>> /\ IpUnchanged

MasterMemory ==
    /\ ip.op = "master_memory"
    /\ \E p \in ip.ps : svc' = RemoveMasterData(svc, p)
    /\ ip' = IpIdle
    /\ UNCHANGED <<db, results, ops>> /\ IpUnchanged

ClearAllData ==
    /\ IpBegin
    /\ db' = ClearRuntimeData(db)
    /\ ip' = [IpIdle EXCEPT !.op = "clear_memory"]
    /\ UNCHANGED <<svc, results>> /\ IpUnchanged

ClearMemory ==
    /\ ip.op = "clear_memory"
    /\ svc' = Clear(svc)
    /\ ip' = IpIdle
    /\ UNCHANGED <<db, results, ops>> /\ IpUnchanged

SyncConfigRequest(sel) ==
    /\ IpBegin /\ svc.nextSync <= MaxSync
    /\ svc' = BeginSyncConfigRequest(svc, sel)
    /\ ip' = [IpIdle EXCEPT !.op = "sync_publish", !.seq = svc.nextSync]
    /\ UNCHANGED <<db, results>> /\ IpUnchanged

SyncPublish ==
    /\ ip.op = "sync_publish"
    /\ ip' \in {IpIdle, [ip EXCEPT !.op = "sync_failed"]}
    /\ UNCHANGED <<db, svc, results, ops>> /\ IpUnchanged

SyncFailed ==
    /\ ip.op = "sync_failed"
    /\ Completed(ip.seq)
    /\ ip' = IpIdle
    /\ UNCHANGED <<db, ops>> /\ IpUnchanged

-----------------------------------------------------------------------------
(* The main loop, the passing of 30 s, and a restart                       *)

MainUnchanged == UNCHANGED <<queue, worker, pendingDb, writer, mq, ip, samples, ops, restarts>>

DevicesGoOffline(late) ==
    /\ db' = MarkOfflineDevices(db, late) /\ db' /= db
    /\ UNCHANGED <<svc, results>> /\ MainUnchanged

GatewayGoesStale ==
    /\ db' = MarkStaleGateways(db) /\ db' /= db
    /\ UNCHANGED <<svc, results>> /\ MainUnchanged

(* collectSyncConfigTimeouts completes each entry it found under a lock of *)
(* its own; one that has gone meanwhile is skipped.                        *)
SyncTimeout(s) ==
    /\ FindSyncPending(svc, s)
    /\ Completed(s)
    /\ UNCHANGED db /\ MainUnchanged

TombstonesExpire ==
    /\ \E ds \in SUBSET svc.removed, ps \in SUBSET svc.masters :
          ds \cup ps /= {} /\ svc' = Expired(svc, ds, ps)
    /\ UNCHANGED <<db, results>> /\ MainUnchanged

(* The threads and the memory go, the tables stay.                         *)
Restart ==
    /\ restarts < MaxRestart
    /\ svc' = Seeded(db)
    /\ queue' = <<>> /\ worker' = WorkerIdle
    /\ pendingDb' = NoPoints /\ writer' = NoPoints
    /\ mq' = MqIdle /\ ip' = IpIdle
    /\ results' = [s \in 1 .. MaxSync |-> 0]
    /\ restarts' = restarts + 1
    /\ UNCHANGED <<db, samples, ops>>

-----------------------------------------------------------------------------
TelemetryStep ==
    \/ \E ds \in (SUBSET Devices) \ {{}} : EnqueueTelemetry(ds)
    \/ WorkerTake \/ WorkerCheck \/ WorkerApply \/ EnqueueTelemetryStorage
    \/ WriterTake \/ WriterSave

MqttStep ==
    \/ \E d \in Devices : DeviceRegister(d) \/ ThresholdConfig(d) \/ RemoveAck(d) \/ AddAck(d)
    \/ DeviceCheck \/ DeviceSave \/ DeviceRemember
    \/ \E p \in Ports, st \in {"connected", "disconnected"} : PortRegister(p, st)
    \/ PortRemember
    \/ \E ps \in SUBSET Ports : \E stored \in SUBSET ps : GatewayRegister(ps, stored)
    \/ GatewayRemember \/ GatewayHeartbeat \/ StatusRemember
    \/ \E ds \in SUBSET Devices, full \in BOOLEAN, s \in 0 .. MaxSync : ConfigSnapshot(ds, full, s)
    \/ SnapshotSave \/ SnapshotRemove \/ SnapshotReplace \/ SyncComplete
    \/ RemoveDelete \/ RemoveForget \/ AddReactivate \/ AddForget

IpcStep ==
    \/ \E d \in Devices : DeleteDevice(d)
    \/ \E p \in Ports : DeleteMaster(p)
    \/ DeleteMemory \/ MasterMemory \/ ClearAllData \/ ClearMemory
    \/ \E sel \in (SUBSET Devices) \ {{}} : SyncConfigRequest(sel)
    \/ SyncPublish \/ SyncFailed

MainStep ==
    \/ \E late \in (SUBSET Devices) \ {{}} : DevicesGoOffline(late)
    \/ GatewayGoesStale
    \/ \E s \in 1 .. MaxSync : SyncTimeout(s)
    \/ TombstonesExpire
    \/ Restart

Next == TelemetryStep \/ MqttStep \/ IpcStep \/ MainStep

Spec == Init /\ [][Next]_vars

-----------------------------------------------------------------------------
(* Properties                                                              *)

(* A device that is unknown or deleted has no status, value or             *)
(* configuration row, although the writer thread may still hold points of  *)
(* it and a registration of it may be half done when it is deleted         *)
(* (PcDatabase::deleteDeviceData, saveTelemetryPoints).                    *)
RowsBelongToActive ==
    \A d \in Devices :
        db.device[d] /= "active" =>
            db.status[d] = "none" /\ db.latest[d] = 0 /\ d \notin db.config

(* While the 30 s tombstone of a device or of its port stands, Pc_ui is    *)
(* shown no value of the device, whichever check the telemetry worker had  *)
(* already passed when it was removed (PcDataService::removeDeviceData,    *)
(* handleTelemetryPoints).                                                 *)
RemovedNotShown ==
    \A d \in Devices :
        d \in svc.removed \/ PortOf[d] \in svc.masters => svc.snapshot[d] = 0

(* A device deleted in the tables comes back only through the final        *)
(* acknowledgement of an add_device for it: not by a registration that was *)
(* checked before the deletion, a snapshot, telemetry or a restart         *)
(* (README.md rule 15).                                                    *)
OnlyAddRestores ==
    [][\A d \in Devices :
          db.device[d] = "deleted" /\ db'.device[d] = "active" =>
              mq.op = "add_reactivate" /\ d \in mq.ds]_vars

(* Pc_ui is never shown a value older than the one in latest_point: a      *)
(* sample reaches the memory before the tables, whatever the queues drop   *)
(* and merge on the way and whatever is deleted, cleared or restarted      *)
(* meanwhile (handleTelemetryMessage, dbWriterLoop).                       *)
ShownIsNewest ==
    \A d \in Devices : svc.snapshot[d] /= 0 => db.latest[d] <= svc.snapshot[d]

(* A sync request is answered exactly once, whichever of the snapshot, the *)
(* failed publish and the 5 s timeout comes first                          *)
(* (PcDataService::completeSyncConfig, collectSyncConfigTimeouts).         *)
SyncAnsweredOnce ==
    \A s \in 1 .. MaxSync :
        s < svc.nextSync =>
            results[s] = IF FindSyncPending(svc, s) THEN 0 ELSE 1

=============================================================================
