----------------------------- MODULE PcDatabase -----------------------------
(***************************************************************************)
(* The tables of Pc_data's SQLite file that describe devices, as a record  *)
(* db, and the methods of PcDatabase as operators that return the new      *)
(* record.  One gateway is modelled: the tables of different gateways      *)
(* never meet.  Names, types and timestamps of a row are left out; of a    *)
(* latest_point row the number of the sample is kept, which is the order   *)
(* in which the samples reached Pc_data.  A method holds m_mutex for its   *)
(* whole body, so each one is a single step of the calling thread, and one *)
(* whose transaction is rolled back returns db itself.                     *)
(***************************************************************************)
EXTENDS Naturals, FiniteSets

CONSTANTS
    Devices,    \* devices of the gateway
    Ports,      \* its ports
    PortOf,     \* the port each device hangs on
    MaxSample   \* telemetry samples of a behaviour

ASSUME DbAssumption == PortOf \in [Devices -> Ports] /\ MaxSample \in Nat

(* A row of device is missing, active or a tombstone (deleted=1).          *)
DbType ==
    [device  : [Devices -> {"none", "active", "deleted"}],
     status  : [Devices -> {"none", "unknown", "online", "offline", "error"}],
     seen    : [Devices -> BOOLEAN],          \* last_seen_ms > 0
     latest  : [Devices -> 0 .. MaxSample],   \* 0: no latest_point row
     config  : SUBSET Devices,                \* devices with point_config rows
     port    : [Ports -> {"none", "connected", "disconnected"}],
     gateway : {"none", "online", "stale"}]

EmptyDb ==
    [device  |-> [d \in Devices |-> "none"],
     status  |-> [d \in Devices |-> "none"],
     seen    |-> [d \in Devices |-> FALSE],
     latest  |-> [d \in Devices |-> 0],
     config  |-> {},
     port    |-> [p \in Ports |-> "none"],
     gateway |-> "none"]

-----------------------------------------------------------------------------
(* Queries                                                                 *)

DeviceExists(db, d)  == db.device[d] = "active"
DeviceDeleted(db, d) == db.device[d] = "deleted"

QueryDevices(db)      == {d \in Devices : DeviceExists(db, d)}
QueryGatewayPorts(db) == {p \in Ports : db.port[p] /= "none"}
QueryLatestPoints(db) == db.latest
QueryGatewayStatuses(db) == db.gateway

IsGatewayPortConnected(db, p) == db.port[p] = "connected"

-----------------------------------------------------------------------------
(* Rows of one device                                                      *)

(* INSERT ... ON CONFLICT DO UPDATE: last_seen_ms never goes back.         *)
UpsertDeviceStatus(db, d, st, isSeen) ==
    [db EXCEPT !.status[d] = st, !.seen[d] = @ \/ isSeen]

(* Mutant of UpsertDevice: a tombstone is lifted.                          *)
MutUpsertDeviceReactivates(db, d, st, isSeen, allowDeletedReactivate) ==
    UpsertDeviceStatus([db EXCEPT !.device[d] = "active"], d, st, isSeen)

(* The tombstone is respected unless the caller may reactivate.            *)
UpsertDevice(db, d, st, isSeen, allowDeletedReactivate) ==
    IF DeviceDeleted(db, d) /\ ~allowDeletedReactivate
    THEN db
    ELSE UpsertDeviceStatus([db EXCEPT !.device[d] = "active"], d, st, isSeen)

MarkDeviceDeleted(db, d) ==
    [db EXCEPT !.device[d] = IF @ = "none" THEN "none" ELSE "deleted"]

ReactivateDeletedDevice(db, d) ==
    [db EXCEPT !.device[d] = IF @ = "none" THEN "none" ELSE "active"]

DeleteRowsByDevice(db, ds) ==
    [db EXCEPT !.status = [d \in Devices |-> IF d \in ds THEN "none" ELSE @[d]],
               !.seen   = [d \in Devices |-> d \notin ds /\ @[d]],
               !.latest = [d \in Devices |-> IF d \in ds THEN 0 ELSE @[d]],
               !.config = @ \ ds]

DeleteDeviceData(db, d) == DeleteRowsByDevice(MarkDeviceDeleted(db, d), {d})

(* Every active device of the port becomes a tombstone, and every row of   *)
(* the port but its gateway_port row goes.                                 *)
DeleteMasterData(db, p) ==
    LET onPort == {d \in Devices : PortOf[d] = p}
    IN  DeleteRowsByDevice(
            [db EXCEPT !.device = [d \in Devices |->
                IF d \in onPort /\ @[d] = "active" THEN "deleted" ELSE @[d]]],
            onPort)

-----------------------------------------------------------------------------
(* Telemetry and point configuration.  pts maps devices to the sample and  *)
(* the status the sample shows.                                            *)

UpdateDeviceOnlineFromTelemetry(db, d, st) ==
    IF DeviceExists(db, d) THEN UpsertDeviceStatus(db, d, st, TRUE) ELSE db

SaveLatestPoint(db, d, n) == [db EXCEPT !.latest[d] = n]

(* Mutant of SaveTelemetryPoints: deviceExists is not asked.               *)
MutSaveAnyPoints(db, pts) ==
    [db EXCEPT !.latest = [d \in Devices |-> IF d \in DOMAIN pts THEN pts[d].n ELSE @[d]]]

(* One transaction.  Points of a device that is unknown or deleted are     *)
(* skipped; the old rows of the others are replaced.                       *)
SaveTelemetryPoints(db, pts) ==
    LET accepted == {d \in DOMAIN pts : DeviceExists(db, d)}
    IN  [db EXCEPT
           !.latest = [d \in Devices |->
                         IF d \in accepted THEN SaveLatestPoint(db, d, pts[d].n).latest[d]
                                           ELSE @[d]],
           !.status = [d \in Devices |->
                         IF d \in accepted
                         THEN UpdateDeviceOnlineFromTelemetry(db, d, pts[d].st).status[d]
                         ELSE @[d]],
           !.seen   = [d \in Devices |-> d \in accepted \/ @[d]]]

SavePointConfig(db, d) == [db EXCEPT !.config = @ \cup {d}]

SavePointConfigs(db, ds) ==
    [db EXCEPT !.config =
        @ \cup UNION {SavePointConfig(db, d).config \ @ : d \in {e \in ds : DeviceExists(db, e)}}]

-----------------------------------------------------------------------------
(* Gateway and ports                                                       *)

UpsertGatewayStatus(db)    == [db EXCEPT !.gateway = "online"]
UpdateGatewayHeartbeat(db) == [db EXCEPT !.gateway = "online"]
UpsertGatewayPort(db, p, st) == [db EXCEPT !.port[p] = st]

UpsertGatewayPorts(db, ps, st) ==
    [db EXCEPT !.port = [p \in Ports |-> IF p \in ps THEN UpsertGatewayPort(db, p, st).port[p]
                                                    ELSE @[p]]]

(* Timeouts of the main loop; late are the devices not seen for 30 s.      *)
MarkOfflineDevices(db, late) ==
    [db EXCEPT !.status = [d \in Devices |->
        IF d \in late /\ DeviceExists(db, d) /\ db.seen[d] /\ @[d] \notin {"none", "offline"}
        THEN "offline" ELSE @[d]]]

MarkStaleGateways(db) == [db EXCEPT !.gateway = IF @ = "online" THEN "stale" ELSE @]

-----------------------------------------------------------------------------
(* Configuration snapshots: devs are the devices of the snapshot, cfgs the *)
(* ones that carry a threshold configuration, st and isSeen the status and *)
(* last_seen the parser derives from the port.                             *)

UpsertDevices(db, devs, st, isSeen) ==
    LET new == {d \in devs : ~DeviceDeleted(db, d)}
    IN  [db EXCEPT !.device = [d \in Devices |-> IF d \in new THEN "active" ELSE @[d]],
                   !.status = [d \in Devices |-> IF d \in new THEN st ELSE @[d]],
                   !.seen   = [d \in Devices |-> @[d] \/ (d \in new /\ isSeen)]]

(* No transaction around the whole: bad are the devices whose own          *)
(* transaction fails; the rest is stored and the method reports failure.   *)
UpsertGatewayConfigSnapshot(db, ps, pst, devs, cfgs, st, isSeen, fullSnapshot, bad) ==
    LET gone    == IF fullSnapshot THEN (QueryDevices(db) \ devs) \ bad ELSE {}
        removed == DeleteRowsByDevice(
                     [db EXCEPT !.device = [d \in Devices |-> IF d \in gone THEN "deleted"
                                                                            ELSE @[d]]], gone)
        ported  == UpsertGatewayPorts(removed, ps, pst)
    IN  SavePointConfigs(UpsertDevices(ported, devs \ bad, st, isSeen), cfgs \ bad)

(* The answer to a sync request: status and configuration rows of the      *)
(* selected devices are replaced, latest_point rows stay.                  *)
ReplaceSelectedDeviceConfig(db, selected, ps, pst, devs, cfgs, st, isSeen, bad) ==
    LET wiped  == [DeleteRowsByDevice(db, selected) EXCEPT !.latest = db.latest]
        ported == UpsertGatewayPorts(wiped, ps, pst)
    IN  SavePointConfigs(UpsertDevices(ported, devs \ bad, st, isSeen), cfgs \ bad)

(* clear_all_data empties the runtime tables, not device or point_config.  *)
ClearRuntimeData(db) == [db EXCEPT !.latest = [d \in Devices |-> 0]]

=============================================================================
