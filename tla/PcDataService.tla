--------------------------- MODULE PcDataService ---------------------------
(***************************************************************************)
(* The memory of Pc_data (class PcDataService) as a record svc, and its    *)
(* methods as operators that return the new record.  Every method holds    *)
(* m_mutex for its whole body, so each is one step of the calling thread.  *)
(* A tombstone of m_removedDevices or m_removedMasters lives 30 s; every   *)
(* method that looks at one prunes the expired ones first, so that its     *)
(* disappearance can be a step of its own (Expired).                       *)
(* m_pointConfigs is left out: the points of a sample are the default ones *)
(* of the device's type, which need no configuration.  The pending         *)
(* commands are in CommandLife.                                            *)
(***************************************************************************)
EXTENDS PcDatabase

CONSTANT MaxSync    \* configuration syncs of a behaviour

ASSUME SyncAssumption == MaxSync \in Nat

SvcType ==
    [registry : SUBSET Devices,             \* m_deviceRegistry
     types    : SUBSET Devices,             \* m_registeredDeviceTypes
     ports    : SUBSET Ports,               \* m_registeredPorts
     gwPorts  : SUBSET Ports,               \* m_gatewayPorts
     known    : BOOLEAN,                    \* m_registeredGateways
     gwStatus : {"none", "online", "stale"},\* m_gatewayStatuses
     removed  : SUBSET Devices,             \* m_removedDevices
     masters  : SUBSET Ports,               \* m_removedMasters
     snapshot : [Devices -> 0 .. MaxSample],\* m_snapshot, 0: no points
     nextSync : 1 .. MaxSync + 1,           \* m_nextSyncSeq
     sync     : [1 .. MaxSync -> SUBSET Devices]] \* m_syncPendingBySeq

EmptySvc ==
    [registry |-> {}, types |-> {}, ports |-> {}, gwPorts |-> {},
     known |-> FALSE, gwStatus |-> "none", removed |-> {}, masters |-> {},
     snapshot |-> [d \in Devices |-> 0],
     nextSync |-> 1, sync |-> [s \in 1 .. MaxSync |-> {}]]

-----------------------------------------------------------------------------
(* Queries                                                                 *)

IsRemovedDevice(svc, d) == d \in svc.removed
IsRemovedMaster(svc, p) == p \in svc.masters

GatewayRegistered(svc) == svc.known \/ svc.registry /= {} \/ svc.gwPorts /= {}
PortRegistered(svc, p) == p \in svc.ports \cup svc.gwPorts
DeviceRegistered(svc, d) == d \in svc.types \cup svc.registry

FindSyncPending(svc, s) == s \in 1 .. MaxSync /\ svc.sync[s] /= {}

-----------------------------------------------------------------------------
(* Telemetry                                                               *)

(* Mutants of HandleTelemetryPoints: tombstones are not looked at; the     *)
(* first sample is kept.                                                   *)
MutHandleAnyPoints(svc, pts) ==
    [svc EXCEPT !.snapshot = [d \in Devices |-> IF d \in DOMAIN pts THEN pts[d] ELSE @[d]]]

MutHandleFirstPoints(svc, pts) ==
    LET fresh == {d \in DOMAIN pts : ~IsRemovedDevice(svc, d) /\ ~IsRemovedMaster(svc, PortOf[d])
                                        /\ svc.snapshot[d] = 0}
    IN  [svc EXCEPT !.snapshot = [d \in Devices |-> IF d \in fresh THEN pts[d] ELSE @[d]]]

(* Points of a device or port with a tombstone are skipped; the points a   *)
(* device had are replaced.                                                *)
HandleTelemetryPoints(svc, pts) ==
    LET accepted == {d \in DOMAIN pts :
                        ~IsRemovedDevice(svc, d) /\ ~IsRemovedMaster(svc, PortOf[d])}
    IN  [svc EXCEPT !.snapshot = [d \in Devices |-> IF d \in accepted THEN pts[d] ELSE @[d]]]

-----------------------------------------------------------------------------
(* Registry                                                                *)

UpdateDeviceRegistry(svc, ds) ==
    [svc EXCEPT !.registry = @ \cup ds,
                !.types    = @ \cup ds,
                !.ports    = @ \cup {PortOf[d] : d \in ds},
                !.known    = @ \/ ds /= {}]

RememberDeviceRegistries(svc, ds) == UpdateDeviceRegistry(svc, ds)

UpdateGatewayPorts(svc, ps) ==
    [svc EXCEPT !.gwPorts = @ \cup ps, !.ports = @ \cup ps, !.known = @ \/ ps /= {}]

RememberGatewayPorts(svc, ps) == UpdateGatewayPorts(svc, ps)

RememberGatewayRegistry(svc) == [svc EXCEPT !.known = TRUE]

UpdateGatewayStatus(svc, st) == [svc EXCEPT !.gwStatus = st, !.known = TRUE]

(* A full snapshot first forgets all it knew of the gateway.               *)
ReplaceGatewayRegistry(svc, ps, ds, fullSnapshot) ==
    LET base == IF fullSnapshot
                THEN [svc EXCEPT !.ports = {}, !.types = {}, !.registry = {}, !.gwPorts = {}]
                ELSE svc
    IN  [base EXCEPT !.known    = TRUE,
                     !.ports    = @ \cup ps \cup {PortOf[d] : d \in ds},
                     !.gwPorts  = @ \cup ps,
                     !.types    = @ \cup ds,
                     !.registry = @ \cup ds]

-----------------------------------------------------------------------------
(* Removal.  The device stays in m_deviceRegistry.                         *)

RemoveDeviceData(svc, d) ==
    [svc EXCEPT !.snapshot[d] = 0, !.types = @ \ {d}, !.removed = @ \cup {d}]

RemoveDevicesData(svc, ds) ==
    [svc EXCEPT !.snapshot = [d \in Devices |-> IF d \in ds
                                                THEN RemoveDeviceData(svc, d).snapshot[d]
                                                ELSE @[d]],
                !.types   = @ \ ds,
                !.removed = @ \cup ds]

(* Only the devices that have points get a tombstone of their own.         *)
RemoveMasterData(svc, p) ==
    LET onPort == {d \in Devices : PortOf[d] = p}
        shown  == {d \in onPort : svc.snapshot[d] /= 0}
    IN  [svc EXCEPT !.snapshot = [d \in Devices |-> IF d \in onPort THEN 0 ELSE @[d]],
                    !.removed  = @ \cup shown,
                    !.types    = @ \ onPort,
                    !.ports    = @ \ {p},
                    !.masters  = @ \cup {p}]

(* The tombstone of the device's port goes as well.                        *)
ForgetRemovedDevices(svc, ds) ==
    [svc EXCEPT !.removed = @ \ ds, !.masters = @ \ {PortOf[d] : d \in ds}]

Expired(svc, ds, ps) == [svc EXCEPT !.removed = @ \ ds, !.masters = @ \ ps]

(* The numbers of the syncs go on, and the pending syncs stay.             *)
Clear(svc) == [EmptySvc EXCEPT !.nextSync = svc.nextSync, !.sync = svc.sync]

-----------------------------------------------------------------------------
(* Configuration syncs; the request has one gateway, so its result is      *)
(* complete when the only pending entry goes.                              *)

BeginSyncConfigRequest(svc, sel) ==
    [svc EXCEPT !.nextSync = @ + 1, !.sync[svc.nextSync] = sel]

CompleteSyncConfig(svc, s) == [svc EXCEPT !.sync[s] = {}]

=============================================================================
