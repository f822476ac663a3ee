-------------------------- MODULE PcRegistryProofs --------------------------
(***************************************************************************)
(* The safety of Pc_data's registry, for every number of devices, ports,   *)
(* samples and syncs, every length of the queue and every bound.  The      *)
(* argument has three layers:                                              *)
(*   - what a method of PcDatabase or PcDataService does to the tables or  *)
(*     to the memory, one lemma a method: most are "calm" (no tombstone is *)
(*     lifted, no value appears, no row is orphaned) or "quiet" (no value  *)
(*     is shown, no sync is touched);                                      *)
(*   - most actions put one calm and one quiet method together, and keep   *)
(*     the invariant for that reason alone (Housekeeping);                 *)
(*   - the rest, the telemetry pipeline, the syncs and the start, is       *)
(*     looked at action by action.                                         *)
(* That nothing shown is older than what is stored is not inductive: it    *)
(* needs that every stage of the pipeline holds samples in the order they  *)
(* arrived (Pipeline), and that what is behind the memory has been shown   *)
(* (NothingNewerBehind), which in turn needs that a device with a          *)
(* tombstone shows nothing.                                                *)
(***************************************************************************)
EXTENDS PcRegistry, TLAPS

-----------------------------------------------------------------------------
(* The tables.  Sound tables have the type of tables and no row of a       *)
(* device that is not active.                                              *)
RowsBelong(t) ==
    \A d \in Devices :
        t.device[d] /= "active" =>
            t.status[d] = "none" /\ t.latest[d] = 0 /\ d \notin t.config

Sound(t) == t \in DbType /\ RowsBelong(t)

(* From t to u no tombstone is lifted and no value appears.                *)
TombstonesStay(t, u) == \A d \in Devices : t.device[d] = "deleted" => u.device[d] = "deleted"
NoNewValue(t, u)     == \A d \in Devices : u.latest[d] \in {0, t.latest[d]}

Calm(t, u) == Sound(u) /\ TombstonesStay(t, u) /\ NoNewValue(t, u)

DeviceRows == [Devices -> {"none", "active", "deleted"}]
StatusRows == [Devices -> {"none", "unknown", "online", "offline", "error"}]
PortRows   == [Ports -> {"none", "connected", "disconnected"}]
Samples    == [Devices -> 0 .. MaxSample]

(* upsertDevice respects a tombstone and stores no value.                  *)
LEMMA UpsertDeviceCalm ==
    ASSUME NEW t, Sound(t), NEW d \in Devices, NEW u,
           u = UpsertDevice(t, d, "online", TRUE, FALSE)
    PROVE  Calm(t, u)
<1>1. CASE DeviceDeleted(t, d)
  BY <1>1 DEF UpsertDevice, Calm, TombstonesStay, NoNewValue, Sound
<1>2. CASE ~DeviceDeleted(t, d)
  <2> DEFINE v == [t.device EXCEPT ![d] = "active"]
             s == [t.status EXCEPT ![d] = "online"]
             n == [t.seen EXCEPT ![d] = TRUE]
  <2>1. u = [t EXCEPT !.device = v, !.status = s, !.seen = n]
    BY <1>2 DEF UpsertDevice, UpsertDeviceStatus, Sound, DbType
  <2>2. v \in DeviceRows /\ s \in StatusRows /\ n \in [Devices -> BOOLEAN]
    BY DEF Sound, DbType, DeviceRows, StatusRows
  <2>3. u \in DbType /\ u.device = v /\ u.status = s /\ u.latest = t.latest /\ u.config = t.config
    <3>1. t \in DbType
      BY DEF Sound
    <3> HIDE DEF v, s, n
    <3> QED BY ZenonT(60), <2>1, <2>2, <3>1 DEF DbType, DeviceRows, StatusRows
  <2>4. \A e \in Devices : /\ v[e] = IF e = d THEN "active" ELSE t.device[e]
                           /\ s[e] = IF e = d THEN "online" ELSE t.status[e]
    BY DEF Sound, DbType
  <2> HIDE DEF v, s
  <2> QED
    BY <1>2, <2>3, <2>4
    DEF Calm, TombstonesStay, NoNewValue, Sound, RowsBelong, DeviceDeleted
<1> QED BY <1>1, <1>2

(* clearRuntimeData only takes values away.                                *)
LEMMA ClearRuntimeDataCalm ==
    ASSUME NEW t, Sound(t), NEW u, u = ClearRuntimeData(t)
    PROVE  Calm(t, u)
BY DbAssumption DEF Calm, TombstonesStay, NoNewValue, Sound, RowsBelong, DbType, ClearRuntimeData

(* markOfflineDevices writes the status of active devices only.            *)
LEMMA MarkOfflineCalm ==
    ASSUME NEW t, Sound(t), NEW ds, NEW u, u = MarkOfflineDevices(t, ds)
    PROVE  Calm(t, u)
BY DEF Calm, TombstonesStay, NoNewValue, Sound, RowsBelong, DbType, MarkOfflineDevices, DeviceExists

(* The gateway_status row says nothing of a device.                        *)
LEMMA GatewayCalm ==
    ASSUME NEW t, Sound(t), NEW u,
           u \in {UpsertGatewayStatus(t), UpdateGatewayHeartbeat(t), MarkStaleGateways(t)}
    PROVE  Calm(t, u)
BY DEF Calm, TombstonesStay, NoNewValue, Sound, RowsBelong, DbType, UpsertGatewayStatus,
       UpdateGatewayHeartbeat, MarkStaleGateways

(* Nor does a gateway_port row, ...                                        *)
LEMMA PortCalm ==
    ASSUME NEW t, Sound(t), NEW p \in Ports, NEW st \in {"connected", "disconnected"},
           NEW u, u = UpsertGatewayPort(t, p, st)
    PROVE  Calm(t, u)
BY DEF Calm, TombstonesStay, NoNewValue, Sound, RowsBelong, DbType, UpsertGatewayPort

(* ... nor all of them.                                                    *)
LEMMA PortsCalm ==
    ASSUME NEW t, Sound(t), NEW ps, NEW st \in {"connected", "disconnected"},
           NEW u, u = UpsertGatewayPorts(t, ps, st)
    PROVE  Calm(t, u) /\ u.device = t.device
BY DEF Calm, TombstonesStay, NoNewValue, Sound, RowsBelong, DbType, UpsertGatewayPorts,
       UpsertGatewayPort

(* savePointConfig is asked for active devices only.                       *)
LEMMA ConfigsCalm ==
    ASSUME NEW t, Sound(t), NEW ds \in SUBSET Devices, NEW u, u = SavePointConfigs(t, ds)
    PROVE  Calm(t, u) /\ u.device = t.device
BY DEF Calm, TombstonesStay, NoNewValue, Sound, RowsBelong, DbType, SavePointConfigs,
       SavePointConfig, DeviceExists

(* reactivateDeletedDevice brings back the one device and no row of it.    *)
LEMMA ReactivateSound ==
    ASSUME NEW t, Sound(t), NEW d \in Devices, NEW u, u = ReactivateDeletedDevice(t, d)
    PROVE  Sound(u) /\ NoNewValue(t, u) /\ \A e \in Devices \ {d} : u.device[e] = t.device[e]
BY DEF NoNewValue, Sound, RowsBelong, DbType, ReactivateDeletedDevice

(* u is t without the rows of ds.                                          *)
RowsDeleted(t, u, ds) ==
    /\ u \in DbType
    /\ u.device = t.device /\ u.config = t.config \ ds
    /\ \A d \in Devices : /\ u.status[d] = IF d \in ds THEN "none" ELSE t.status[d]
                         /\ u.latest[d] = IF d \in ds THEN 0 ELSE t.latest[d]

(* The statements of deleteRowsByDevice.                                   *)
LEMMA DeleteRowsFields ==
    ASSUME NEW t \in DbType, NEW ds, NEW u, u = DeleteRowsByDevice(t, ds)
    PROVE  RowsDeleted(t, u, ds)
<1> DEFINE s == [d \in Devices |-> IF d \in ds THEN "none" ELSE t.status[d]]
           n == [d \in Devices |-> d \notin ds /\ t.seen[d]]
           l == [d \in Devices |-> IF d \in ds THEN 0 ELSE t.latest[d]]
           c == t.config \ ds
<1>1. u = [t EXCEPT !.status = s, !.seen = n, !.latest = l, !.config = c]
  BY DEF DeleteRowsByDevice, DbType
<1>2. s \in StatusRows /\ l \in Samples /\ c \in SUBSET Devices
  BY DbAssumption DEF DbType, StatusRows, Samples
<1>3. n \in [Devices -> BOOLEAN]
  BY DEF DbType
<1>4. /\ u \in DbType
      /\ u.device = t.device /\ u.status = s /\ u.latest = l /\ u.config = c
  <2> HIDE DEF s, n, l, c
  <2> QED BY ZenonT(60), <1>1, <1>2, <1>3 DEF DbType, StatusRows, Samples
<1> QED BY <1>4 DEF RowsDeleted

(* deleteDeviceData leaves no row of the device.                           *)
LEMMA DeleteDeviceDataCalm ==
    ASSUME NEW t, Sound(t), NEW d \in Devices, NEW u, u = DeleteDeviceData(t, d)
    PROVE  Calm(t, u)
<1> DEFINE m == MarkDeviceDeleted(t, d)
<1>1. /\ m \in DbType /\ m.status = t.status /\ m.latest = t.latest /\ m.config = t.config
      /\ m.device[d] /= "active" /\ (t.device[d] = "deleted" => m.device[d] = "deleted")
      /\ \A e \in Devices \ {d} : m.device[e] = t.device[e]
  BY DEF MarkDeviceDeleted, Sound, DbType
<1>2. u = DeleteRowsByDevice(m, {d})
  BY DEF DeleteDeviceData
<1> HIDE DEF m
<1>3. RowsDeleted(m, u, {d})
  BY <1>1, <1>2, DeleteRowsFields
<1> QED
  BY <1>1, <1>3 DEF Calm, TombstonesStay, NoNewValue, Sound, RowsBelong, RowsDeleted

(* deleteMasterData leaves no row of a device of the port.                 *)
LEMMA DeleteMasterDataCalm ==
    ASSUME NEW t, Sound(t), NEW p, NEW u, u = DeleteMasterData(t, p)
    PROVE  Calm(t, u)
<1> DEFINE on == {d \in Devices : PortOf[d] = p}
           m  == [t EXCEPT !.device = [d \in Devices |->
                     IF d \in on /\ t.device[d] = "active" THEN "deleted" ELSE t.device[d]]]
<1>1. /\ m \in DbType /\ m.status = t.status /\ m.latest = t.latest /\ m.config = t.config
      /\ \A e \in Devices : m.device[e] = IF e \in on /\ t.device[e] = "active" THEN "deleted"
                                         ELSE t.device[e]
  BY DEF Sound, DbType
<1>2. u = DeleteRowsByDevice(m, on)
  BY DEF DeleteMasterData
<1> HIDE DEF m, on
<1>3. RowsDeleted(m, u, on)
  BY <1>1, <1>2, DeleteRowsFields
<1> QED
  BY <1>1, <1>3 DEF Calm, TombstonesStay, NoNewValue, Sound, RowsBelong, RowsDeleted

(* The devices of a snapshot: those with a tombstone are left out.         *)
LEMMA UpsertDevicesCalm ==
    ASSUME NEW t, Sound(t), NEW ds, NEW u, u = UpsertDevices(t, ds, "online", TRUE)
    PROVE  Calm(t, u)
<1> DEFINE new == {d \in ds : ~DeviceDeleted(t, d)}
           v == [d \in Devices |-> IF d \in new THEN "active" ELSE t.device[d]]
           s == [d \in Devices |-> IF d \in new THEN "online" ELSE t.status[d]]
           n == [d \in Devices |-> t.seen[d] \/ (d \in new /\ TRUE)]
<1>1. u = [t EXCEPT !.device = v, !.status = s, !.seen = n]
  BY DEF UpsertDevices, Sound, DbType
<1>2. v \in DeviceRows /\ s \in StatusRows
  BY DEF Sound, DbType, DeviceRows, StatusRows
<1>3. n \in [Devices -> BOOLEAN]
  BY DEF Sound, DbType
<1>4. u \in DbType /\ u.device = v /\ u.status = s /\ u.latest = t.latest /\ u.config = t.config
  <2>1. t \in DbType
    BY DEF Sound
  <2> HIDE DEF v, s, n
  <2> QED BY ZenonT(60), <1>1, <1>2, <1>3, <2>1 DEF DbType, DeviceRows, StatusRows
<1> QED BY ZenonT(60), <1>4 DEF Calm, TombstonesStay, NoNewValue, Sound, RowsBelong, DeviceDeleted

(* Methods may follow one another.                                         *)
LEMMA CalmTrans ==
    ASSUME NEW t, NEW u, NEW v, Calm(t, u), Calm(u, v)
    PROVE  Calm(t, v)
BY DEF Calm, TombstonesStay, NoNewValue

(* upsertGatewayConfigSnapshot, with the transactions of bad failing.      *)
LEMMA SnapshotCalm ==
    ASSUME NEW t, Sound(t), NEW devs \in SUBSET Devices, NEW cfgs \in SUBSET Devices, NEW ps,
           NEW full \in BOOLEAN, NEW bad, NEW u,
           u = UpsertGatewayConfigSnapshot(t, ps, "connected", devs, cfgs, "online", TRUE, full, bad)
    PROVE  Calm(t, u)
<1> DEFINE gone == IF full THEN (QueryDevices(t) \ devs) \ bad ELSE {}
           m    == [t EXCEPT !.device = [d \in Devices |-> IF d \in gone THEN "deleted"
                                                                         ELSE t.device[d]]]
           r    == DeleteRowsByDevice(m, gone)
           p    == UpsertGatewayPorts(r, ps, "connected")
           q    == UpsertDevices(p, devs \ bad, "online", TRUE)
<1>1. u = SavePointConfigs(q, cfgs \ bad)
  BY DEF UpsertGatewayConfigSnapshot
<1>2. /\ m \in DbType /\ m.status = t.status /\ m.latest = t.latest /\ m.config = t.config
      /\ \A d \in Devices : m.device[d] = IF d \in gone THEN "deleted" ELSE t.device[d]
  BY DEF Sound, DbType
<1> HIDE DEF m, gone
<1>3. RowsDeleted(m, r, gone)
  BY <1>2, DeleteRowsFields
<1> HIDE DEF r
<1>4. Calm(t, r)
  BY <1>2, <1>3 DEF Calm, TombstonesStay, NoNewValue, Sound, RowsBelong, RowsDeleted
<1>5. Calm(r, p)
  BY <1>4, PortsCalm DEF Calm
<1> HIDE DEF p
<1>6. Calm(p, q)
  BY <1>5, UpsertDevicesCalm DEF Calm
<1> HIDE DEF q
<1>7. Calm(q, u)
  BY <1>1, <1>6, ConfigsCalm DEF Calm
<1> QED BY <1>4, <1>5, <1>6, <1>7, CalmTrans

(* replaceSelectedDeviceConfig, which keeps the values it has.             *)
LEMMA ReplaceSelectedCalm ==
    ASSUME NEW t, Sound(t), NEW sel, NEW devs \in SUBSET Devices, NEW cfgs \in SUBSET Devices,
           NEW ps, NEW bad, NEW u,
           u = ReplaceSelectedDeviceConfig(t, sel, ps, "connected", devs, cfgs, "online", TRUE, bad)
    PROVE  Calm(t, u)
<1> DEFINE r == DeleteRowsByDevice(t, sel)
           w == [r EXCEPT !.latest = t.latest]
           p == UpsertGatewayPorts(w, ps, "connected")
           q == UpsertDevices(p, devs \ bad, "online", TRUE)
<1>1. u = SavePointConfigs(q, cfgs \ bad)
  BY DEF ReplaceSelectedDeviceConfig
<1>2. RowsDeleted(t, r, sel)
  BY DeleteRowsFields DEF Sound
<1> HIDE DEF r
<1>3. /\ w \in DbType /\ w.device = r.device /\ w.config = r.config
      /\ w.status = r.status /\ w.latest = t.latest
  BY <1>2 DEF Sound, DbType, RowsDeleted
<1> HIDE DEF w
<1>4. Calm(t, w)
  BY <1>2, <1>3 DEF Calm, TombstonesStay, NoNewValue, Sound, RowsBelong, RowsDeleted
<1>5. Calm(w, p)
  BY <1>4, PortsCalm DEF Calm
<1> HIDE DEF p
<1>6. Calm(p, q)
  BY <1>5, UpsertDevicesCalm DEF Calm
<1> HIDE DEF q
<1>7. Calm(q, u)
  BY <1>1, <1>6, ConfigsCalm DEF Calm
<1> QED BY <1>4, <1>5, <1>6, <1>7, CalmTrans

(* saveTelemetryPoints stores samples of active devices only.              *)
LEMMA SaveTelemetrySound ==
    ASSUME NEW t, Sound(t), NEW w \in Samples, NEW u, u = SaveTelemetryPoints(t, Valid(w))
    PROVE  /\ Sound(u) /\ u.device = t.device
           /\ \A d \in Devices : u.latest[d] \in {t.latest[d], w[d]}
<1> DEFINE acc == {d \in {e \in Devices : w[e] /= 0} : t.device[d] = "active"}
           l == [d \in Devices |-> IF d \in acc THEN w[d] ELSE t.latest[d]]
           s == [d \in Devices |-> IF d \in acc THEN "online" ELSE t.status[d]]
           n == [d \in Devices |-> d \in acc \/ t.seen[d]]
<1>1. t \in DbType
  BY DEF Sound
<1>2. acc = {d \in DOMAIN Valid(w) : DeviceExists(t, d)}
  BY DEF Valid, DeviceExists
<1>3. \A d \in acc : SaveLatestPoint(t, d, Valid(w)[d].n).latest[d] = w[d]
  BY <1>1 DEF SaveLatestPoint, Valid, DbType
<1>4. \A d \in acc : UpdateDeviceOnlineFromTelemetry(t, d, Valid(w)[d].st).status[d] = "online"
  BY <1>1 DEF UpdateDeviceOnlineFromTelemetry, UpsertDeviceStatus, DeviceExists, Valid, DbType
<1>5. u = [t EXCEPT !.latest = l, !.status = s, !.seen = n]
  BY <1>1, <1>2, <1>3, <1>4 DEF SaveTelemetryPoints
<1>6. l \in Samples /\ s \in StatusRows
  BY <1>1 DEF DbType, Samples, StatusRows
<1>7. n \in [Devices -> BOOLEAN]
  BY <1>1 DEF DbType
<1>8. u \in DbType /\ u.device = t.device /\ u.status = s /\ u.latest = l /\ u.config = t.config
  <2> HIDE DEF l, s, n
  <2> QED BY <1>1, <1>5, <1>6, <1>7 DEF DbType, Samples, StatusRows
<1> QED BY <1>8 DEF Sound, RowsBelong

-----------------------------------------------------------------------------
(* The memory.  In a tidy memory no device with a tombstone has a value.   *)
NotShown(v) ==
    \A d \in Devices : d \in v.removed \/ PortOf[d] \in v.masters => v.snapshot[d] = 0

Tidy(v) == v \in SvcType /\ NotShown(v)

(* From v to w no value appears and the syncs are left alone.              *)
Quiet(v, w) ==
    /\ Tidy(w)
    /\ \A d \in Devices : w.snapshot[d] \in {0, v.snapshot[d]}
    /\ w.nextSync = v.nextSync /\ w.sync = v.sync

(* updateDeviceRegistry adds devices and shows nothing.                    *)
LEMMA DeviceRegistryQuiet ==
    ASSUME NEW v, Tidy(v), NEW ds \in SUBSET Devices, NEW w, w = UpdateDeviceRegistry(v, ds)
    PROVE  Quiet(v, w)
<1> DEFINE r == v.registry \cup ds
           y == v.types \cup ds
           o == v.ports \cup {PortOf[d] : d \in ds}
           k == v.known \/ ds /= {}
<1>1. v \in SvcType
  BY DEF Tidy
<1>2. w = [v EXCEPT !.registry = r, !.types = y, !.ports = o, !.known = k]
  BY <1>1 DEF UpdateDeviceRegistry, SvcType
<1>3. r \in SUBSET Devices /\ y \in SUBSET Devices /\ k \in BOOLEAN
  BY <1>1 DEF SvcType
<1>4. o \in SUBSET Ports
  BY <1>1, DbAssumption DEF SvcType
<1>5. /\ w \in SvcType /\ w.removed = v.removed /\ w.masters = v.masters
      /\ w.snapshot = v.snapshot /\ w.nextSync = v.nextSync /\ w.sync = v.sync
  <2> HIDE DEF r, y, o, k
  <2> QED BY <1>1, <1>2, <1>3, <1>4 DEF SvcType
<1> QED BY <1>5 DEF Quiet, Tidy, NotShown

(* updateGatewayPorts adds ports and shows nothing.                        *)
LEMMA GatewayPortsQuiet ==
    ASSUME NEW v, Tidy(v), NEW ps \in SUBSET Ports, NEW w, w = UpdateGatewayPorts(v, ps)
    PROVE  Quiet(v, w)
BY DEF Quiet, Tidy, NotShown, SvcType, UpdateGatewayPorts

(* updateGatewayStatus and rememberGatewayRegistry note the gateway.       *)
LEMMA GatewayStatusQuiet ==
    ASSUME NEW v, Tidy(v), NEW st \in {"none", "online", "stale"}, NEW w,
           w \in {UpdateGatewayStatus(v, st), RememberGatewayRegistry(v)}
    PROVE  Quiet(v, w)
BY ZenonT(60) DEF Quiet, Tidy, NotShown, SvcType, UpdateGatewayStatus, RememberGatewayRegistry

(* replaceGatewayRegistry forgets and adds devices; tombstones stay.       *)
LEMMA ReplaceRegistryQuiet ==
    ASSUME NEW v, Tidy(v), NEW ps \in SUBSET Ports, NEW ds \in SUBSET Devices, NEW full \in BOOLEAN,
           NEW w, w = ReplaceGatewayRegistry(v, ps, ds, full)
    PROVE  Quiet(v, w)
<1> DEFINE b == IF full
                THEN [v EXCEPT !.ports = {}, !.types = {}, !.registry = {}, !.gwPorts = {}]
                ELSE v
           o == b.ports \cup ps \cup {PortOf[d] : d \in ds}
           g == b.gwPorts \cup ps
           y == b.types \cup ds
           r == b.registry \cup ds
<1>1. v \in SvcType
  BY DEF Tidy
<1>2. /\ b \in SvcType /\ b.removed = v.removed /\ b.masters = v.masters
      /\ b.snapshot = v.snapshot /\ b.nextSync = v.nextSync /\ b.sync = v.sync
  BY <1>1 DEF SvcType
<1>3. w = [b EXCEPT !.known = TRUE, !.ports = o, !.gwPorts = g, !.types = y, !.registry = r]
  <2>1. w = [b EXCEPT !.known = TRUE, !.ports = @ \cup ps \cup {PortOf[d] : d \in ds},
                      !.gwPorts = @ \cup ps, !.types = @ \cup ds, !.registry = @ \cup ds]
    BY DEF ReplaceGatewayRegistry
  <2> HIDE DEF b
  <2> QED BY <1>2, <2>1 DEF SvcType
<1> HIDE DEF b
<1>4. r \in SUBSET Devices /\ y \in SUBSET Devices /\ g \in SUBSET Ports
  BY <1>2 DEF SvcType
<1>5. o \in SUBSET Ports
  BY <1>2, DbAssumption DEF SvcType
<1>6. /\ w \in SvcType /\ w.removed = b.removed /\ w.masters = b.masters
      /\ w.snapshot = b.snapshot /\ w.nextSync = b.nextSync /\ w.sync = b.sync
  <2> HIDE DEF r, y, o, g
  <2> QED BY <1>2, <1>3, <1>4, <1>5 DEF SvcType
<1> QED BY <1>2, <1>6 DEF Quiet, Tidy, NotShown

(* removeDeviceData hides the value and sets the tombstone together.       *)
LEMMA RemoveDevicesQuiet ==
    ASSUME NEW v, Tidy(v), NEW ds \in SUBSET Devices, NEW w, w = RemoveDevicesData(v, ds)
    PROVE  Quiet(v, w)
<1> DEFINE n == [d \in Devices |-> IF d \in ds THEN 0 ELSE v.snapshot[d]]
           y == v.types \ ds
           m == v.removed \cup ds
<1>1. v \in SvcType
  BY DEF Tidy
<1>2. \A d \in Devices : RemoveDeviceData(v, d).snapshot[d] = 0
  BY <1>1 DEF RemoveDeviceData, SvcType
<1>3. w = [v EXCEPT !.snapshot = n, !.types = y, !.removed = m]
  BY <1>1, <1>2 DEF RemoveDevicesData, SvcType
<1>4. n \in Samples /\ y \in SUBSET Devices /\ m \in SUBSET Devices
  BY <1>1, DbAssumption DEF SvcType, Samples
<1>5. /\ w \in SvcType /\ w.removed = m /\ w.masters = v.masters
      /\ w.snapshot = n /\ w.nextSync = v.nextSync /\ w.sync = v.sync
  <2> HIDE DEF n, y, m
  <2> QED BY <1>1, <1>3, <1>4 DEF SvcType, Samples
<1> QED BY <1>5 DEF Quiet, Tidy, NotShown

(* removeMasterData hides every value of the port with its tombstone.      *)
LEMMA RemoveMasterQuiet ==
    ASSUME NEW v, Tidy(v), NEW p \in Ports, NEW w, w = RemoveMasterData(v, p)
    PROVE  Quiet(v, w)
<1> DEFINE on == {d \in Devices : PortOf[d] = p}
           n == [d \in Devices |-> IF d \in on THEN 0 ELSE v.snapshot[d]]
           m == v.removed \cup {d \in on : v.snapshot[d] /= 0}
           y == v.types \ on
           o == v.ports \ {p}
           a == v.masters \cup {p}
<1>1. v \in SvcType
  BY DEF Tidy
<1>2. w = [v EXCEPT !.snapshot = n, !.removed = m, !.types = y, !.ports = o, !.masters = a]
  BY <1>1 DEF RemoveMasterData, SvcType
<1>3. /\ n \in Samples /\ y \in SUBSET Devices /\ m \in SUBSET Devices
      /\ o \in SUBSET Ports /\ a \in SUBSET Ports
  BY <1>1, DbAssumption DEF SvcType, Samples
<1>4. /\ w \in SvcType /\ w.removed = m /\ w.masters = a
      /\ w.snapshot = n /\ w.nextSync = v.nextSync /\ w.sync = v.sync
  <2> HIDE DEF n, m, y, o, a
  <2> QED BY <1>1, <1>2, <1>3 DEF SvcType, Samples
<1> QED BY <1>4 DEF Quiet, Tidy, NotShown

(* Lifting tombstones shows nothing by itself, ...                         *)
LEMMA ForgetRemovedQuiet ==
    ASSUME NEW v, Tidy(v), NEW ds, NEW w, w = ForgetRemovedDevices(v, ds)
    PROVE  Quiet(v, w)
BY DEF Quiet, Tidy, NotShown, SvcType, ForgetRemovedDevices

(* ... nor does their end after 30 s.                                      *)
LEMMA ExpiredQuiet ==
    ASSUME NEW v, Tidy(v), NEW ds, NEW ps, NEW w, w = Expired(v, ds, ps)
    PROVE  Quiet(v, w)
BY DEF Quiet, Tidy, NotShown, SvcType, Expired

(* clear empties all but the syncs.                                        *)
LEMMA ClearQuiet ==
    ASSUME NEW v, Tidy(v), NEW w, w = Clear(v)
    PROVE  Quiet(v, w)
<1>1. v.nextSync \in 1 .. MaxSync + 1 /\ v.sync \in [1 .. MaxSync -> SUBSET Devices]
  BY DEF Tidy, SvcType
<1>2. w = [registry |-> {}, types |-> {}, ports |-> {}, gwPorts |-> {},
           known |-> FALSE, gwStatus |-> "none", removed |-> {}, masters |-> {},
           snapshot |-> [d \in Devices |-> 0], nextSync |-> v.nextSync, sync |-> v.sync]
  BY DEF Clear, EmptySvc
<1>3. w \in SvcType
  BY <1>1, <1>2, DbAssumption DEF SvcType
<1> QED BY <1>2, <1>3 DEF Quiet, Tidy, NotShown

(* Methods may follow one another.                                         *)
LEMMA QuietTrans ==
    ASSUME NEW v, NEW w, NEW x, Quiet(v, w), Quiet(w, x)
    PROVE  Quiet(v, x)
BY DEF Quiet

(* handleTelemetryPoints passes over devices and ports with tombstones.    *)
LEMMA HandlePoints ==
    ASSUME NEW v, Tidy(v), NEW S \in SUBSET Devices, NEW pts \in [S -> 0 .. MaxSample],
           NEW w, w = HandleTelemetryPoints(v, pts)
    PROVE  /\ Tidy(w)
           /\ w.nextSync = v.nextSync /\ w.sync = v.sync
           /\ w.removed = v.removed /\ w.masters = v.masters
           /\ \A d \in Devices :
                 w.snapshot[d] = IF d \in S /\ d \notin v.removed /\ PortOf[d] \notin v.masters
                                 THEN pts[d] ELSE v.snapshot[d]
<1> DEFINE n == [d \in Devices |->
                   IF d \in S /\ d \notin v.removed /\ PortOf[d] \notin v.masters
                   THEN pts[d] ELSE v.snapshot[d]]
<1>1. v \in SvcType
  BY DEF Tidy
<1>2. w = [v EXCEPT !.snapshot = n]
  BY <1>1 DEF HandleTelemetryPoints, IsRemovedDevice, IsRemovedMaster, SvcType
<1>3. n \in Samples
  BY <1>1 DEF SvcType, Samples
<1>4. /\ w \in SvcType /\ w.removed = v.removed /\ w.masters = v.masters
      /\ w.snapshot = n /\ w.nextSync = v.nextSync /\ w.sync = v.sync
  <2> HIDE DEF n
  <2> QED BY <1>1, <1>2, <1>3 DEF SvcType, Samples
<1> QED BY <1>4 DEF Tidy, NotShown

(* The memory before main fills it.                                        *)
LEMMA EmptyTidy == Tidy(EmptySvc)
BY DbAssumption, SyncAssumption DEF Tidy, NotShown, SvcType, EmptySvc

(* main shows the stored values and no other.                              *)
LEMMA SeededTidy ==
    ASSUME NEW t, Sound(t), NEW w, w = Seeded(t)
    PROVE  /\ Tidy(w)
           /\ \A d \in Devices : w.snapshot[d] \in {0, t.latest[d]}
           /\ w.nextSync = 1 /\ w.sync = [s \in 1 .. MaxSync |-> {}]
<1> DEFINE g == IF QueryGatewayStatuses(t) = "none" THEN EmptySvc
                ELSE UpdateGatewayStatus(EmptySvc, QueryGatewayStatuses(t))
           o == UpdateGatewayPorts(g, QueryGatewayPorts(t))
           r == UpdateDeviceRegistry(o, QueryDevices(t))
           f == t.latest
           S == {e \in Devices : f[e] /= 0}
<1>1. t \in DbType
  BY DEF Sound
<1>2. Quiet(EmptySvc, EmptySvc)
  BY EmptyTidy DEF Quiet
<1>3. Quiet(EmptySvc, g)
  <2>1. QueryGatewayStatuses(t) \in {"none", "online", "stale"}
    BY <1>1 DEF QueryGatewayStatuses, DbType
  <2> QED BY <1>2, <2>1, EmptyTidy, GatewayStatusQuiet
<1>4. w = HandleTelemetryPoints(r, Points(f))
  BY DEF Seeded, RememberDeviceRegistries, RememberGatewayPorts, QueryLatestPoints
<1> HIDE DEF g
<1>5. Quiet(g, o)
  <2>1. QueryGatewayPorts(t) \in SUBSET Ports
    BY DEF QueryGatewayPorts
  <2> QED BY <1>3, <2>1, GatewayPortsQuiet DEF Quiet
<1> HIDE DEF o
<1>6. Quiet(o, r)
  <2>1. QueryDevices(t) \in SUBSET Devices
    BY DEF QueryDevices
  <2> QED BY <1>5, <2>1, DeviceRegistryQuiet DEF Quiet
<1> HIDE DEF r
<1>7. Quiet(EmptySvc, r)
  BY <1>3, <1>5, <1>6, QuietTrans
<1>8. \A d \in Devices : r.snapshot[d] = 0
  BY <1>7 DEF Quiet, EmptySvc
<1>9. Points(f) \in [S -> 0 .. MaxSample] /\ \A d \in S : Points(f)[d] = f[d]
  BY <1>1 DEF Points, DbType
<1> DEFINE pts == Points(f)
<1> HIDE DEF pts
<1>10. /\ Tidy(w) /\ w.nextSync = r.nextSync /\ w.sync = r.sync
       /\ \A d \in Devices :
             w.snapshot[d] = IF d \in S /\ d \notin r.removed /\ PortOf[d] \notin r.masters
                             THEN pts[d] ELSE r.snapshot[d]
  <2>1. Tidy(r) /\ S \in SUBSET Devices /\ pts \in [S -> 0 .. MaxSample]
        /\ w = HandleTelemetryPoints(r, pts)
    BY <1>4, <1>6, <1>9 DEF Quiet, pts
  <2> HIDE DEF S
  <2> QED BY <2>1, HandlePoints
<1>11. \A d \in S : pts[d] = f[d]
  BY <1>9 DEF pts
<1>12. w.nextSync = 1 /\ w.sync = [s \in 1 .. MaxSync |-> {}]
  BY <1>7, <1>10 DEF Quiet, EmptySvc
<1> QED BY <1>8, <1>10, <1>11, <1>12

(* The tables Init starts from.                                            *)
LEMMA InitialTables ==
    ASSUME NEW ds \in SUBSET Devices, NEW t,
           t \in {EmptyDb, UpsertDevices(UpsertGatewayPorts(UpsertGatewayStatus(EmptyDb), Ports,
                                                           "connected"), ds, "online", TRUE)}
    PROVE  Sound(t) /\ \A d \in Devices : t.latest[d] = 0
<1> DEFINE a == UpsertGatewayStatus(EmptyDb)
           b == UpsertGatewayPorts(a, Ports, "connected")
           c == UpsertDevices(b, ds, "online", TRUE)
<1>1. Sound(EmptyDb) /\ \A d \in Devices : EmptyDb.latest[d] = 0
  BY DbAssumption DEF Sound, RowsBelong, DbType, EmptyDb
<1>2. Calm(EmptyDb, a)
  BY <1>1, GatewayCalm
<1> HIDE DEF a
<1>3. Calm(a, b)
  BY <1>2, PortsCalm DEF Calm
<1> HIDE DEF b
<1>4. Calm(b, c)
  BY <1>3, UpsertDevicesCalm DEF Calm
<1>5. CASE t = EmptyDb
  BY <1>1, <1>5
<1>6. CASE t = c
  <2> HIDE DEF c
  <2> QED BY <1>1, <1>2, <1>3, <1>4, <1>6, CalmTrans DEF Calm, NoNewValue
<1> QED BY <1>5, <1>6 DEF a, b

-----------------------------------------------------------------------------
(* The inductive invariant                                                 *)

(* A number not given out yet has neither a pending entry nor a result.    *)
FutureSyncs ==
    \A s \in 1 .. MaxSync : s >= svc.nextSync => svc.sync[s] = {} /\ results[s] = 0

(* The stages of the pipeline hold samples in the order they arrived: what *)
(* is stored or shown is older than what waits, and no newer than what the *)
(* worker holds.                                                           *)
Behind(x) ==
    /\ x <= samples
    /\ \A i \in 1 .. Len(queue) : x < queue[i].n
    /\ worker.op /= "idle" => x <= worker.n

Pipeline ==
    /\ \A i, j \in 1 .. Len(queue) : i < j => queue[i].n < queue[j].n
    /\ \A i \in 1 .. Len(queue) : queue[i].n <= samples
    /\ worker.op /= "idle" => /\ worker.n <= samples
                              /\ \A i \in 1 .. Len(queue) : worker.n < queue[i].n
    /\ \A d \in Devices : /\ Behind(db.latest[d]) /\ Behind(svc.snapshot[d])
                         /\ Behind(pendingDb[d]) /\ Behind(writer[d])

(* No stage behind the memory holds a sample newer than the one shown.     *)
NothingNewerBehind ==
    \A d \in Devices :
        svc.snapshot[d] /= 0 =>
            /\ pendingDb[d] <= svc.snapshot[d] /\ writer[d] <= svc.snapshot[d]
            /\ worker.op = "store" /\ d \in worker.ds => worker.n <= svc.snapshot[d]

IInv ==
    /\ TypeOK /\ RowsBelongToActive /\ RemovedNotShown
    /\ SyncAnsweredOnce /\ FutureSyncs
    /\ Pipeline /\ NothingNewerBehind /\ ShownIsNewest

-----------------------------------------------------------------------------
(* Most actions are housekeeping: they store no sample, show none, and     *)
(* touch neither the pipeline nor the syncs.                               *)
MqType == [op : MqOps, ds : SUBSET Devices, old : SUBSET Devices,
           ps : SUBSET Ports, full : BOOLEAN, seq : 0 .. MaxSync]
IpType == [op : IpOps, ds : SUBSET Devices, ps : SUBSET Ports, seq : 0 .. MaxSync]

HandlersOK == mq \in MqType /\ ip \in IpType /\ ops \in 0 .. MaxOps

(* What a handler of the callback thread starts with.                      *)
LEMMA MqRecord ==
    ASSUME NEW o \in MqOps, NEW ds \in SUBSET Devices, NEW ps \in SUBSET Ports, NEW m,
           m \in {MqIdle, [MqIdle EXCEPT !.op = o], [MqIdle EXCEPT !.op = o, !.ds = ds],
                  [MqIdle EXCEPT !.op = o, !.ps = ps]}
    PROVE  m \in MqType
<1>1. "idle" \in MqOps
  BY DEF MqOps
<1>2. MqIdle \in MqType
  BY <1>1, SyncAssumption DEF MqType, MqIdle
<1>3. CASE m = [MqIdle EXCEPT !.op = o]
  BY <1>2, <1>3 DEF MqType
<1>4. CASE m = [MqIdle EXCEPT !.op = o, !.ds = ds]
  BY <1>2, <1>4 DEF MqType
<1>5. CASE m = [MqIdle EXCEPT !.op = o, !.ps = ps]
  BY <1>2, <1>5 DEF MqType
<1> QED BY <1>2, <1>3, <1>4, <1>5

(* Its later steps keep what it has read.                                  *)
LEMMA MqNext ==
    ASSUME NEW o \in MqOps, NEW n \in MqType, NEW m, m \in {MqIdle, [n EXCEPT !.op = o]}
    PROVE  m \in MqType
<1>1. MqIdle \in MqType
  BY MqRecord DEF MqOps
<1> QED BY <1>1 DEF MqType

(* Requests are counted up to MaxOps.                                      *)
LEMMA BeginOps ==
    ASSUME HandlersOK, MqBegin \/ IpBegin
    PROVE  ops' \in 0 .. MaxOps
BY RegistryAssumption DEF HandlersOK, MqBegin, IpBegin

Housekeeping ==
    /\ Sound(db') /\ NoNewValue(db, db')
    /\ \A d \in Devices : db.device[d] = "deleted" /\ db'.device[d] = "active" =>
                             mq.op = "add_reactivate" /\ d \in mq.ds
    /\ Quiet(svc, svc')
    /\ HandlersOK'
    /\ UNCHANGED <<queue, worker, pendingDb, writer, samples, results, restarts>>

(* What the invariant says of the tables, the memory and the handlers.     *)
LEMMA InvParts ==
    ASSUME IInv
    PROVE  Sound(db) /\ Tidy(svc) /\ HandlersOK /\ Calm(db, db) /\ Quiet(svc, svc)
BY DEF IInv, TypeOK, RowsBelongToActive, RemovedNotShown, Sound, RowsBelong, Tidy, NotShown,
       HandlersOK, MqType, IpType, Calm, TombstonesStay, NoNewValue, Quiet

(* A calm method under one lock and a quiet one under the other.           *)
LEMMA CalmHousekeeping ==
    ASSUME Calm(db, db'), Quiet(svc, svc'), HandlersOK',
           UNCHANGED <<queue, worker, pendingDb, writer, samples, results, restarts>>
    PROVE  Housekeeping
BY DEF Calm, TombstonesStay, Housekeeping

(* The handlers of the gateway's registrations and states.                 *)
LEMMA RegistrationSteps ==
    ASSUME IInv,
           \/ \E d \in Devices : DeviceRegister(d) \/ ThresholdConfig(d)
           \/ DeviceCheck \/ DeviceSave \/ DeviceRemember
           \/ \E p \in Ports, st \in {"connected", "disconnected"} : PortRegister(p, st)
           \/ PortRemember
           \/ \E ps \in SUBSET Ports : \E stored \in SUBSET ps : GatewayRegister(ps, stored)
           \/ GatewayRemember \/ GatewayHeartbeat \/ StatusRemember
    PROVE  Housekeeping
<1>0. Sound(db) /\ Tidy(svc) /\ HandlersOK /\ Calm(db, db) /\ Quiet(svc, svc)
  BY InvParts
<1>1. ASSUME NEW d \in Devices, DeviceRegister(d) PROVE Housekeeping
  <2>1. HandlersOK'
    <3>1. mq' \in MqType
      BY <1>0, <1>1, MqRecord DEF DeviceRegister, HandlersOK, MqOps
    <3>2. ops' \in 0 .. MaxOps
      BY <1>0, <1>1, BeginOps DEF DeviceRegister
    <3> QED BY <1>0, <1>1, <3>1, <3>2 DEF DeviceRegister, MqUnchanged, HandlersOK
  <2> QED BY <1>0, <1>1, <2>1, CalmHousekeeping DEF DeviceRegister, MqUnchanged
<1>2. ASSUME NEW d \in Devices, ThresholdConfig(d) PROVE Housekeeping
  <2>1. HandlersOK'
    <3>1. mq' \in MqType
      BY <1>0, <1>2 DEF ThresholdConfig, HandlersOK
    <3>2. ops' \in 0 .. MaxOps
      BY <1>0, <1>2, BeginOps DEF ThresholdConfig
    <3> QED BY <1>0, <1>2, <3>1, <3>2 DEF ThresholdConfig, MqUnchanged, HandlersOK
  <2>2. Calm(db, db')
    BY <1>0, <1>2, ConfigsCalm DEF ThresholdConfig
  <2> QED BY <1>0, <1>2, <2>1, <2>2, CalmHousekeeping DEF ThresholdConfig, MqUnchanged
<1>3. CASE DeviceCheck
  <2>1. HandlersOK'
    <3>1. mq' \in MqType
      BY <1>0, <1>3, MqNext DEF DeviceCheck, HandlersOK, MqOps
    <3> QED BY <1>0, <1>3, <3>1 DEF DeviceCheck, MqUnchanged, HandlersOK
  <2> QED BY <1>0, <1>3, <2>1, CalmHousekeeping DEF DeviceCheck, MqUnchanged
<1>4. CASE DeviceSave
  <2>1. HandlersOK'
    <3>1. mq' \in MqType
      BY ZenonT(60), <1>0, <1>4, MqNext DEF DeviceSave, HandlersOK, MqOps
    <3> QED BY <1>0, <1>4, <3>1 DEF DeviceSave, MqUnchanged, HandlersOK
  <2>2. Calm(db, db')
    BY <1>0, <1>4, UpsertDeviceCalm DEF DeviceSave, HandlersOK, MqType
  <2> QED BY <1>0, <1>4, <2>1, <2>2, CalmHousekeeping DEF DeviceSave, MqUnchanged
<1>5. CASE DeviceRemember
  <2>1. HandlersOK'
    <3>1. mq' \in MqType
      BY <1>0, <1>5, MqNext DEF DeviceRemember, HandlersOK, MqOps
    <3> QED BY <1>0, <1>5, <3>1 DEF DeviceRemember, MqUnchanged, HandlersOK
  <2>2. Quiet(svc, svc')
    BY <1>0, <1>5, DeviceRegistryQuiet DEF DeviceRemember, HandlersOK, MqType
  <2> QED BY <1>0, <1>5, <2>1, <2>2, CalmHousekeeping DEF DeviceRemember, MqUnchanged
<1>6. ASSUME NEW p \in Ports, NEW st \in {"connected", "disconnected"}, PortRegister(p, st)
      PROVE  Housekeeping
  <2>1. HandlersOK'
    <3>1. mq' \in MqType
      BY <1>0, <1>6, MqRecord DEF PortRegister, HandlersOK, MqOps
    <3>2. ops' \in 0 .. MaxOps
      BY <1>0, <1>6, BeginOps DEF PortRegister
    <3> QED BY <1>0, <1>6, <3>1, <3>2 DEF PortRegister, MqUnchanged, HandlersOK
  <2>2. Calm(db, db')
    BY <1>0, <1>6, PortCalm DEF PortRegister
  <2> QED BY <1>0, <1>6, <2>1, <2>2, CalmHousekeeping DEF PortRegister, MqUnchanged
<1>7. CASE PortRemember
  <2>1. HandlersOK'
    <3>1. mq' \in MqType
      BY <1>0, <1>7, MqNext DEF PortRemember, HandlersOK, MqOps
    <3> QED BY <1>0, <1>7, <3>1 DEF PortRemember, MqUnchanged, HandlersOK
  <2>2. Quiet(svc, svc')
    BY <1>0, <1>7, GatewayPortsQuiet DEF PortRemember, HandlersOK, MqType
  <2> QED BY <1>0, <1>7, <2>1, <2>2, CalmHousekeeping DEF PortRemember, MqUnchanged
<1>8. ASSUME NEW ps \in SUBSET Ports, NEW stored \in SUBSET ps, GatewayRegister(ps, stored)
      PROVE  Housekeeping
  <2>1. HandlersOK'
    <3>1. mq' \in MqType
      BY <1>0, <1>8, MqRecord DEF GatewayRegister, HandlersOK, MqOps
    <3>2. ops' \in 0 .. MaxOps
      BY <1>0, <1>8, BeginOps DEF GatewayRegister
    <3> QED BY <1>0, <1>8, <3>1, <3>2 DEF GatewayRegister, MqUnchanged, HandlersOK
  <2>2. Calm(db, db')
    <3> DEFINE a == UpsertGatewayStatus(db)
    <3>1. db' = UpsertGatewayPorts(a, stored, "connected")
      BY <1>8 DEF GatewayRegister
    <3>2. Calm(db, a)
      BY <1>0, GatewayCalm
    <3> HIDE DEF a
    <3>3. Calm(a, db')
      BY <3>1, <3>2, PortsCalm DEF Calm
    <3> QED BY <3>2, <3>3, CalmTrans
  <2> QED BY <1>0, <1>8, <2>1, <2>2, CalmHousekeeping DEF GatewayRegister, MqUnchanged
<1>9. CASE GatewayRemember
  <2>1. HandlersOK'
    <3>1. mq' \in MqType
      BY <1>0, <1>9, MqNext DEF GatewayRemember, HandlersOK, MqOps
    <3> QED BY <1>0, <1>9, <3>1 DEF GatewayRemember, MqUnchanged, HandlersOK
  <2>2. Quiet(svc, svc')
    <3> DEFINE a == RememberGatewayRegistry(svc)
               b == UpdateGatewayPorts(a, mq.ps)
    <3>1. svc' = UpdateGatewayStatus(b, "online") /\ mq.ps \in SUBSET Ports
      BY <1>0, <1>9 DEF GatewayRemember, RememberGatewayPorts, HandlersOK, MqType
    <3>2. Quiet(svc, a)
      BY <1>0, GatewayStatusQuiet
    <3> HIDE DEF a
    <3>3. Quiet(a, b)
      BY <3>1, <3>2, GatewayPortsQuiet DEF Quiet
    <3> HIDE DEF b
    <3>4. Quiet(b, svc')
      BY <3>1, <3>3, GatewayStatusQuiet DEF Quiet
    <3> QED BY <3>2, <3>3, <3>4, QuietTrans
  <2> QED BY <1>0, <1>9, <2>1, <2>2, CalmHousekeeping DEF GatewayRemember, MqUnchanged
<1>10. CASE GatewayHeartbeat
  <2>1. HandlersOK'
    <3>1. mq' \in MqType
      BY <1>0, <1>10, MqRecord DEF GatewayHeartbeat, HandlersOK, MqOps
    <3>2. ops' \in 0 .. MaxOps
      BY <1>0, <1>10, BeginOps DEF GatewayHeartbeat
    <3> QED BY <1>0, <1>10, <3>1, <3>2 DEF GatewayHeartbeat, MqUnchanged, HandlersOK
  <2>2. Calm(db, db')
    BY <1>0, <1>10, GatewayCalm DEF GatewayHeartbeat
  <2> QED BY <1>0, <1>10, <2>1, <2>2, CalmHousekeeping DEF GatewayHeartbeat, MqUnchanged
<1>11. CASE StatusRemember
  <2>1. HandlersOK'
    <3>1. mq' \in MqType
      BY <1>0, <1>11, MqNext DEF StatusRemember, HandlersOK, MqOps
    <3> QED BY <1>0, <1>11, <3>1 DEF StatusRemember, MqUnchanged, HandlersOK
  <2>2. Quiet(svc, svc')
    BY <1>0, <1>11, GatewayStatusQuiet DEF StatusRemember
  <2> QED BY <1>0, <1>11, <2>1, <2>2, CalmHousekeeping DEF StatusRemember, MqUnchanged
<1> QED BY <1>1, <1>2, <1>3, <1>4, <1>5, <1>6, <1>7, <1>8, <1>9, <1>10, <1>11

(* What a handler of the IPC thread starts with.                           *)
LEMMA IpRecord ==
    ASSUME NEW o \in IpOps, NEW ds \in SUBSET Devices, NEW ps \in SUBSET Ports, NEW m,
           m \in {IpIdle, [IpIdle EXCEPT !.op = o], [IpIdle EXCEPT !.op = o, !.ds = ds],
                  [IpIdle EXCEPT !.op = o, !.ps = ps]}
    PROVE  m \in IpType
<1>1. "idle" \in IpOps
  BY DEF IpOps
<1>2. IpIdle \in IpType
  BY <1>1, SyncAssumption DEF IpType, IpIdle
<1>3. CASE m = [IpIdle EXCEPT !.op = o]
  BY <1>2, <1>3 DEF IpType
<1>4. CASE m = [IpIdle EXCEPT !.op = o, !.ds = ds]
  BY <1>2, <1>4 DEF IpType
<1>5. CASE m = [IpIdle EXCEPT !.op = o, !.ps = ps]
  BY <1>2, <1>5 DEF IpType
<1> QED BY <1>2, <1>3, <1>4, <1>5

(* Its later steps keep what it has read.                                  *)
LEMMA IpNext ==
    ASSUME NEW o \in IpOps, NEW n \in IpType, NEW m, m \in {IpIdle, [n EXCEPT !.op = o]}
    PROVE  m \in IpType
<1>1. IpIdle \in IpType
  BY IpRecord DEF IpOps
<1> QED BY <1>1 DEF IpType

(* The handlers of configuration snapshots and of the final                *)
(* acknowledgements of add_device and remove_device.                       *)
LEMMA SnapshotAndAckSteps ==
    ASSUME IInv,
           \/ \E ds \in SUBSET Devices, full \in BOOLEAN, s \in 0 .. MaxSync :
                 ConfigSnapshot(ds, full, s)
           \/ SnapshotSave \/ SnapshotRemove \/ SnapshotReplace
           \/ \E d \in Devices : RemoveAck(d) \/ AddAck(d)
           \/ RemoveDelete \/ RemoveForget \/ AddReactivate \/ AddForget
    PROVE  Housekeeping
<1>0. Sound(db) /\ Tidy(svc) /\ HandlersOK /\ Calm(db, db) /\ Quiet(svc, svc)
  BY InvParts
<1>1. ASSUME NEW ds \in SUBSET Devices, NEW full \in BOOLEAN, NEW s \in 0 .. MaxSync,
             ConfigSnapshot(ds, full, s)
      PROVE  Housekeeping
  <2>1. HandlersOK'
    <3> DEFINE sy == FindSyncPending(svc, s)
    <3>1. sy => svc.sync[s] \in SUBSET Devices
      BY <1>0 DEF FindSyncPending, Tidy, SvcType
    <3>2. QueryDevices(db) \in SUBSET Devices
      BY DEF QueryDevices
    <3>3. /\ (IF sy THEN ds \cap svc.sync[s] ELSE ds) \in SUBSET Devices
          /\ (IF sy THEN svc.sync[s] ELSE IF full THEN QueryDevices(db) ELSE {}) \in SUBSET Devices
          /\ (IF sy THEN s ELSE 0) \in 0 .. MaxSync
      BY <3>1, <3>2, SyncAssumption
    <3>4. (full /\ ~sy) \in BOOLEAN /\ "snapshot_save" \in MqOps
      BY DEF MqOps
    <3>5. mq' \in MqType
      <4>1. mq' = [op   |-> "snapshot_save",
                   ds   |-> IF sy THEN ds \cap svc.sync[s] ELSE ds,
                   old  |-> IF sy THEN svc.sync[s] ELSE IF full THEN QueryDevices(db) ELSE {},
                   ps   |-> Ports,
                   full |-> full /\ ~sy,
                   seq  |-> IF sy THEN s ELSE 0]
        BY <1>1 DEF ConfigSnapshot
      <4> HIDE DEF sy
      <4> QED BY <3>3, <3>4, <4>1 DEF MqType
    <3>6. ops' \in 0 .. MaxOps
      BY <1>0, <1>1, BeginOps DEF ConfigSnapshot
    <3> QED BY <1>0, <1>1, <3>5, <3>6 DEF ConfigSnapshot, MqUnchanged, HandlersOK
  <2> QED BY <1>0, <1>1, <2>1, CalmHousekeeping DEF ConfigSnapshot, MqUnchanged
<1>2. CASE SnapshotSave
  <2>1. HandlersOK'
    <3>1. mq' \in MqType
      BY <1>0, <1>2, MqNext DEF SnapshotSave, HandlersOK, MqOps
    <3> QED BY <1>0, <1>2, <3>1 DEF SnapshotSave, MqUnchanged, HandlersOK
  <2>2. Calm(db, db')
    <3>1. PICK bad \in SUBSET Devices : db' = SnapshotSaved(bad)
      BY <1>2 DEF SnapshotSave
    <3>2. mq.ds \in SUBSET Devices /\ mq.full \in BOOLEAN
      BY <1>0 DEF HandlersOK, MqType
    <3>3. CASE mq.seq /= 0
      BY <1>0, <3>1, <3>2, <3>3, ReplaceSelectedCalm DEF SnapshotSaved
    <3>4. CASE mq.seq = 0
      BY <1>0, <3>1, <3>2, <3>4, SnapshotCalm DEF SnapshotSaved
    <3> QED BY <3>3, <3>4
  <2> QED BY <1>0, <1>2, <2>1, <2>2, CalmHousekeeping DEF SnapshotSave, MqUnchanged
<1>3. CASE SnapshotRemove
  <2>1. HandlersOK'
    <3>1. mq' \in MqType
      BY <1>0, <1>3, MqNext DEF SnapshotRemove, HandlersOK, MqOps
    <3> QED BY <1>0, <1>3, <3>1 DEF SnapshotRemove, MqUnchanged, HandlersOK
  <2>3. Quiet(svc, svc')
    <3>1. mq.old \ mq.ds \in SUBSET Devices
      BY <1>0 DEF HandlersOK, MqType
    <3> QED BY <1>0, <1>3, <3>1, RemoveDevicesQuiet, ForgetRemovedQuiet DEF SnapshotRemove
  <2> QED BY <1>0, <1>3, <2>1, <2>3, CalmHousekeeping DEF SnapshotRemove, MqUnchanged
<1>4. CASE SnapshotReplace
  <2>1. HandlersOK'
    <3>1. mq' \in MqType
      BY <1>0, <1>4, MqNext DEF SnapshotReplace, HandlersOK, MqOps
    <3> QED BY <1>0, <1>4, <3>1 DEF SnapshotReplace, MqUnchanged, HandlersOK
  <2>3. Quiet(svc, svc')
    BY <1>0, <1>4, ReplaceRegistryQuiet DEF SnapshotReplace, HandlersOK, MqType
  <2> QED BY <1>0, <1>4, <2>1, <2>3, CalmHousekeeping DEF SnapshotReplace, MqUnchanged
<1>5. ASSUME NEW d \in Devices, RemoveAck(d) PROVE Housekeeping
  <2>1. HandlersOK'
    <3>1. mq' \in MqType
      BY <1>0, <1>5, MqRecord DEF RemoveAck, HandlersOK, MqOps
    <3>2. ops' \in 0 .. MaxOps
      BY <1>0, <1>5, BeginOps DEF RemoveAck
    <3> QED BY <1>0, <1>5, <3>1, <3>2 DEF RemoveAck, MqUnchanged, HandlersOK
  <2> QED BY <1>0, <1>5, <2>1, CalmHousekeeping DEF RemoveAck, MqUnchanged
<1>6. ASSUME NEW d \in Devices, AddAck(d) PROVE Housekeeping
  <2>1. HandlersOK'
    <3>1. mq' \in MqType
      BY <1>0, <1>6, MqRecord DEF AddAck, HandlersOK, MqOps
    <3>2. ops' \in 0 .. MaxOps
      BY <1>0, <1>6, BeginOps DEF AddAck
    <3> QED BY <1>0, <1>6, <3>1, <3>2 DEF AddAck, MqUnchanged, HandlersOK
  <2> QED BY <1>0, <1>6, <2>1, CalmHousekeeping DEF AddAck, MqUnchanged
<1>7. CASE RemoveDelete
  <2>1. HandlersOK'
    <3>1. mq' \in MqType
      BY <1>0, <1>7, MqNext DEF RemoveDelete, HandlersOK, MqOps
    <3> QED BY <1>0, <1>7, <3>1 DEF RemoveDelete, MqUnchanged, HandlersOK
  <2>2. Calm(db, db')
    BY <1>0, <1>7, DeleteDeviceDataCalm DEF RemoveDelete, HandlersOK, MqType
  <2> QED BY <1>0, <1>7, <2>1, <2>2, CalmHousekeeping DEF RemoveDelete, MqUnchanged
<1>8. CASE RemoveForget
  <2>1. HandlersOK'
    <3>1. mq' \in MqType
      BY <1>0, <1>8, MqNext DEF RemoveForget, HandlersOK, MqOps
    <3> QED BY <1>0, <1>8, <3>1 DEF RemoveForget, MqUnchanged, HandlersOK
  <2>3. Quiet(svc, svc')
    BY <1>0, <1>8, RemoveDevicesQuiet DEF RemoveForget, HandlersOK, MqType
  <2> QED BY <1>0, <1>8, <2>1, <2>3, CalmHousekeeping DEF RemoveForget, MqUnchanged
<1>9. CASE AddReactivate
  <2>1. HandlersOK'
    <3>1. mq' \in MqType
      BY <1>0, <1>9, MqNext DEF AddReactivate, HandlersOK, MqOps
    <3> QED BY <1>0, <1>9, <3>1 DEF AddReactivate, MqUnchanged, HandlersOK
  <2>2. CASE db' = db
    BY <1>0, <1>9, <2>1, <2>2, CalmHousekeeping DEF AddReactivate, MqUnchanged
  <2>3. ASSUME NEW d \in mq.ds, db' = ReactivateDeletedDevice(db, d)
        PROVE  Housekeeping
    <3>1. d \in Devices
      BY <1>0 DEF HandlersOK, MqType
    <3>2. Sound(db') /\ NoNewValue(db, db') /\ \A e \in Devices \ {d} : db'.device[e] = db.device[e]
      BY <1>0, <2>3, <3>1, ReactivateSound
    <3> QED BY <1>0, <1>9, <2>1, <3>2 DEF AddReactivate, MqUnchanged, Housekeeping
  <2> QED BY <1>9, <2>2, <2>3 DEF AddReactivate
<1>10. CASE AddForget
  <2>1. HandlersOK'
    <3>1. mq' \in MqType
      BY <1>0, <1>10, MqNext DEF AddForget, HandlersOK, MqOps
    <3> QED BY <1>0, <1>10, <3>1 DEF AddForget, MqUnchanged, HandlersOK
  <2>3. Quiet(svc, svc')
    BY <1>0, <1>10, ForgetRemovedQuiet DEF AddForget
  <2> QED BY <1>0, <1>10, <2>1, <2>3, CalmHousekeeping DEF AddForget, MqUnchanged
<1> QED BY <1>1, <1>2, <1>3, <1>4, <1>5, <1>6, <1>7, <1>8, <1>9, <1>10

(* The requests of Pc_ui but the syncs, and the main loop.                 *)
LEMMA RequestSteps ==
    ASSUME IInv,
           \/ \E d \in Devices : DeleteDevice(d)
           \/ \E p \in Ports : DeleteMaster(p)
           \/ DeleteMemory \/ MasterMemory \/ ClearAllData \/ ClearMemory \/ SyncPublish
           \/ \E late \in (SUBSET Devices) \ {{}} : DevicesGoOffline(late)
           \/ GatewayGoesStale \/ TombstonesExpire
    PROVE  Housekeeping
<1>0. Sound(db) /\ Tidy(svc) /\ HandlersOK /\ Calm(db, db) /\ Quiet(svc, svc)
  BY InvParts
<1>1. ASSUME NEW d \in Devices, DeleteDevice(d) PROVE Housekeeping
  <2>1. HandlersOK'
    <3>1. ip' \in IpType
      BY <1>0, <1>1, IpRecord DEF DeleteDevice, HandlersOK, IpOps
    <3>2. ops' \in 0 .. MaxOps
      BY <1>0, <1>1, BeginOps DEF DeleteDevice
    <3> QED BY <1>0, <1>1, <3>1, <3>2 DEF DeleteDevice, IpUnchanged, HandlersOK
  <2>2. Calm(db, db')
    BY <1>0, <1>1, DeleteDeviceDataCalm DEF DeleteDevice
  <2> QED BY <1>0, <1>1, <2>1, <2>2, CalmHousekeeping DEF DeleteDevice, IpUnchanged
<1>2. ASSUME NEW p \in Ports, DeleteMaster(p) PROVE Housekeeping
  <2>1. HandlersOK'
    <3>1. ip' \in IpType
      BY <1>0, <1>2, IpRecord DEF DeleteMaster, HandlersOK, IpOps
    <3>2. ops' \in 0 .. MaxOps
      BY <1>0, <1>2, BeginOps DEF DeleteMaster
    <3> QED BY <1>0, <1>2, <3>1, <3>2 DEF DeleteMaster, IpUnchanged, HandlersOK
  <2>2. Calm(db, db')
    BY <1>0, <1>2, DeleteMasterDataCalm DEF DeleteMaster
  <2> QED BY <1>0, <1>2, <2>1, <2>2, CalmHousekeeping DEF DeleteMaster, IpUnchanged
<1>3. CASE DeleteMemory
  <2>1. HandlersOK'
    <3>1. ip' \in IpType
      BY <1>0, <1>3, IpNext DEF DeleteMemory, HandlersOK, IpOps
    <3> QED BY <1>0, <1>3, <3>1 DEF DeleteMemory, IpUnchanged, HandlersOK
  <2>3. Quiet(svc, svc')
    BY <1>0, <1>3, RemoveDevicesQuiet DEF DeleteMemory, HandlersOK, IpType
  <2> QED BY <1>0, <1>3, <2>1, <2>3, CalmHousekeeping DEF DeleteMemory, IpUnchanged
<1>4. CASE MasterMemory
  <2>1. HandlersOK'
    <3>1. ip' \in IpType
      BY <1>0, <1>4, IpNext DEF MasterMemory, HandlersOK, IpOps
    <3> QED BY <1>0, <1>4, <3>1 DEF MasterMemory, IpUnchanged, HandlersOK
  <2>3. Quiet(svc, svc')
    BY <1>0, <1>4, RemoveMasterQuiet DEF MasterMemory, HandlersOK, IpType
  <2> QED BY <1>0, <1>4, <2>1, <2>3, CalmHousekeeping DEF MasterMemory, IpUnchanged
<1>5. CASE ClearAllData
  <2>1. HandlersOK'
    <3>1. ip' \in IpType
      BY <1>0, <1>5, IpRecord DEF ClearAllData, HandlersOK, IpOps
    <3>2. ops' \in 0 .. MaxOps
      BY <1>0, <1>5, BeginOps DEF ClearAllData
    <3> QED BY <1>0, <1>5, <3>1, <3>2 DEF ClearAllData, IpUnchanged, HandlersOK
  <2>2. Calm(db, db')
    BY <1>0, <1>5, ClearRuntimeDataCalm DEF ClearAllData
  <2> QED BY <1>0, <1>5, <2>1, <2>2, CalmHousekeeping DEF ClearAllData, IpUnchanged
<1>6. CASE ClearMemory
  <2>1. HandlersOK'
    <3>1. ip' \in IpType
      BY <1>0, <1>6, IpNext DEF ClearMemory, HandlersOK, IpOps
    <3> QED BY <1>0, <1>6, <3>1 DEF ClearMemory, IpUnchanged, HandlersOK
  <2>3. Quiet(svc, svc')
    BY <1>0, <1>6, ClearQuiet DEF ClearMemory
  <2> QED BY <1>0, <1>6, <2>1, <2>3, CalmHousekeeping DEF ClearMemory, IpUnchanged
<1>7. CASE SyncPublish
  <2>1. HandlersOK'
    <3>1. ip' \in IpType
      BY <1>0, <1>7, IpNext DEF SyncPublish, HandlersOK, IpOps
    <3> QED BY <1>0, <1>7, <3>1 DEF SyncPublish, IpUnchanged, HandlersOK
  <2> QED BY <1>0, <1>7, <2>1, CalmHousekeeping DEF SyncPublish, IpUnchanged
<1>8. ASSUME NEW late, DevicesGoOffline(late) PROVE Housekeeping
  <2>1. HandlersOK'
    BY <1>0, <1>8 DEF DevicesGoOffline, MainUnchanged, HandlersOK
  <2>2. Calm(db, db')
    BY <1>0, <1>8, MarkOfflineCalm DEF DevicesGoOffline
  <2> QED BY <1>0, <1>8, <2>1, <2>2, CalmHousekeeping DEF DevicesGoOffline, MainUnchanged
<1>9. CASE GatewayGoesStale
  <2>1. HandlersOK'
    BY <1>0, <1>9 DEF GatewayGoesStale, MainUnchanged, HandlersOK
  <2>2. Calm(db, db')
    BY <1>0, <1>9, GatewayCalm DEF GatewayGoesStale
  <2> QED BY <1>0, <1>9, <2>1, <2>2, CalmHousekeeping DEF GatewayGoesStale, MainUnchanged
<1>10. CASE TombstonesExpire
  <2>1. HandlersOK'
    BY <1>0, <1>10 DEF TombstonesExpire, MainUnchanged, HandlersOK
  <2>3. Quiet(svc, svc')
    BY <1>0, <1>10, ExpiredQuiet DEF TombstonesExpire
  <2> QED BY <1>0, <1>10, <2>1, <2>3, CalmHousekeeping DEF TombstonesExpire, MainUnchanged
<1> QED BY <1>1, <1>2, <1>3, <1>4, <1>5, <1>6, <1>7, <1>8, <1>9, <1>10

-----------------------------------------------------------------------------
(* The invariant is inductive                                              *)

(* What the arithmetic of the pipeline needs of the types.                 *)
Numbers ==
    /\ samples \in Nat /\ worker.n \in Nat
    /\ \A i \in 1 .. Len(queue) : queue[i].n \in Nat \ {0}
    /\ \A d \in Devices : /\ db.latest[d] \in Nat /\ svc.snapshot[d] \in Nat
                         /\ pendingDb[d] \in Nat /\ writer[d] \in Nat

(* The samples in the pipeline are numbers.                                *)
LEMMA AreNumbers == ASSUME TypeOK PROVE Numbers
<1>1. samples \in Nat
  BY DbAssumption DEF TypeOK
<1>2. worker.n \in Nat
  BY DbAssumption DEF TypeOK
<1>3. \A i \in 1 .. Len(queue) : queue[i].n \in Nat \ {0}
  <2>1. queue \in Seq([n : 1 .. MaxSample, ds : SUBSET Devices])
    BY DEF TypeOK
  <2> DEFINE T == [n : 1 .. MaxSample, ds : SUBSET Devices]
  <2>2. \A x \in T : x.n \in Nat \ {0}
    BY DbAssumption
  <2> HIDE DEF T
  <2>3. queue \in Seq(T)
    BY <2>1 DEF T
  <2> QED BY <2>2, <2>3
<1>4. \A d \in Devices : db.latest[d] \in Nat /\ svc.snapshot[d] \in Nat
  BY DbAssumption DEF TypeOK, DbType, SvcType
<1>5. \A d \in Devices : pendingDb[d] \in Nat /\ writer[d] \in Nat
  BY DbAssumption DEF TypeOK
<1> QED BY <1>1, <1>2, <1>3, <1>4, <1>5 DEF Numbers

(* Housekeeping keeps the invariant.                                       *)
LEMMA HousekeepingInv ==
    ASSUME IInv, Housekeeping
    PROVE  IInv'
<1> USE DEF Housekeeping
<1>1. db' \in DbType /\ svc' \in SvcType /\ RowsBelongToActive' /\ RemovedNotShown'
  BY DEF Sound, RowsBelong, Quiet, Tidy, NotShown, RowsBelongToActive, RemovedNotShown
<1>2. TypeOK'
  BY <1>1 DEF IInv, TypeOK, HandlersOK, MqType, IpType
<1>3. SyncAnsweredOnce' /\ FutureSyncs'
  BY DEF IInv, Quiet, SyncAnsweredOnce, FutureSyncs, FindSyncPending
<1>4. Pipeline'
  <2>1. Numbers
    BY AreNumbers DEF IInv
  <2>2. Behind(0)
    BY <2>1 DEF Numbers, Behind
  <2>3. \A d \in Devices : Behind(db.latest[d]) /\ Behind(svc.snapshot[d])
    BY DEF IInv, Pipeline
  <2>4. \A d \in Devices : Behind(db'.latest[d]) /\ Behind(svc'.snapshot[d])
    BY <2>2, <2>3 DEF NoNewValue, Quiet
  <2> QED BY <2>4 DEF IInv, Pipeline, Behind
<1>5. NothingNewerBehind' /\ ShownIsNewest'
  <2>1. \A d \in Devices : svc.snapshot[d] \in Nat
    BY DEF IInv, TypeOK, SvcType
  <2> QED BY <2>1 DEF IInv, NothingNewerBehind, ShownIsNewest, NoNewValue, Quiet
<1> QED BY <1>1, <1>2, <1>3, <1>4, <1>5 DEF IInv

(* handleTelemetryMessage: a new sample is the newest, and a full queue    *)
(* drops its oldest.                                                       *)
LEMMA EnqueueInv ==
    ASSUME IInv, NEW ds \in SUBSET Devices, EnqueueTelemetry(ds)
    PROVE  IInv'
<1> DEFINE q == IF Len(queue) >= QueueMax THEN Tail(queue) ELSE queue
           e == [n |-> samples + 1, ds |-> ds]
           T == [n : 1 .. MaxSample, ds : SUBSET Devices]
<1>1. queue \in Seq(T) /\ Len(queue) <= QueueMax /\ samples \in 0 .. MaxSample /\ Numbers
  BY AreNumbers DEF IInv, TypeOK
<1>2. queue' = Append(q, e) /\ samples' = samples + 1 /\ samples < MaxSample
  BY DEF EnqueueTelemetry
<1>3. e \in T /\ samples' \in 0 .. MaxSample
  BY <1>1, <1>2, DbAssumption
<1>4. q \in Seq(T) /\ Len(q) < QueueMax
  BY <1>1, RegistryAssumption
<1>5. \A i \in 1 .. Len(q) : \E j \in 1 .. Len(queue) : q[i] = queue[j]
  BY <1>1, RegistryAssumption
<1>6. \A i, j \in 1 .. Len(q) : i < j => q[i].n < q[j].n
  BY <1>1, RegistryAssumption DEF IInv, Pipeline
<1> HIDE DEF q, T
<1>7. queue' \in Seq(T) /\ Len(queue') <= QueueMax
  BY <1>2, <1>3, <1>4, RegistryAssumption
<1>8. /\ Len(queue') = Len(q) + 1 /\ queue'[Len(q) + 1] = e
      /\ \A i \in 1 .. Len(q) : queue'[i] = q[i]
  BY <1>2, <1>4
<1>9. TypeOK'
  BY <1>3, <1>7 DEF IInv, TypeOK, EnqueueTelemetry, T
<1>10. Pipeline'
  <2>1. \A i \in 1 .. Len(queue') :
            queue'[i].n = samples + 1 \/ \E j \in 1 .. Len(queue) : queue'[i] = queue[j]
    BY SMTT(30), <1>4, <1>5, <1>8
  <2>2. ASSUME NEW x \in Nat, Behind(x) PROVE Behind(x)'
    BY <1>1, <1>2, <2>1, <2>2 DEF Behind, EnqueueTelemetry, Numbers
  <2>3. \A i, j \in 1 .. Len(queue') : i < j => queue'[i].n < queue'[j].n
    <3> SUFFICES ASSUME NEW i \in 1 .. Len(queue'), NEW j \in 1 .. Len(queue'), i < j
                 PROVE  queue'[i].n < queue'[j].n
      OBVIOUS
    <3>1. i \in 1 .. Len(q) /\ (j \in 1 .. Len(q) \/ j = Len(q) + 1)
      BY <1>4, <1>8
    <3>2. q[i].n <= samples /\ q[i].n \in Nat
      BY <1>1, <1>5, <3>1 DEF IInv, Pipeline, Numbers
    <3>3. CASE j \in 1 .. Len(q)
      BY <1>6, <1>8, <3>1, <3>3
    <3>4. CASE j = Len(q) + 1
      <4>1. queue'[j].n = samples + 1 /\ queue'[i] = q[i]
        BY <1>8, <3>1, <3>4
      <4> QED BY <1>1, <3>2, <4>1
    <3> QED BY <3>1, <3>3, <3>4
  <2>4. \A i \in 1 .. Len(queue') : queue'[i].n <= samples'
    <3>1. \A j \in 1 .. Len(queue) : queue[j].n <= samples /\ queue[j].n \in Nat
      BY <1>1 DEF IInv, Pipeline, Numbers
    <3>2. samples \in Nat /\ samples' = samples + 1
      BY <1>1, <1>2
    <3> QED
      <4> SUFFICES ASSUME NEW i \in 1 .. Len(queue') PROVE queue'[i].n <= samples'
        OBVIOUS
      <4>1. CASE queue'[i].n = samples + 1
        BY <3>2, <4>1
      <4>2. CASE \E j \in 1 .. Len(queue) : queue'[i] = queue[j]
        BY <3>1, <3>2, <4>2
      <4> QED BY <2>1, <4>1, <4>2
  <2>5. worker.op /= "idle" => Behind(worker.n)
    BY <1>1 DEF IInv, Pipeline, Behind, Numbers
  <2>6. worker.op /= "idle" => Behind(worker.n)'
    BY <1>1, <2>2, <2>5 DEF EnqueueTelemetry, Numbers
  <2> QED BY <1>1, <2>2, <2>3, <2>4, <2>6 DEF IInv, Pipeline, Behind, EnqueueTelemetry, Numbers
<1> QED
  BY <1>9, <1>10
  DEF IInv, RowsBelongToActive, RemovedNotShown, SyncAnsweredOnce, FutureSyncs, FindSyncPending,
      NothingNewerBehind, ShownIsNewest, EnqueueTelemetry

(* The worker takes the oldest sample that waits.                          *)
LEMMA WorkerTakeInv ==
    ASSUME IInv, WorkerTake
    PROVE  IInv'
<1> DEFINE T == [n : 1 .. MaxSample, ds : SUBSET Devices]
<1>1. queue \in Seq(T) /\ Len(queue) <= QueueMax /\ Numbers
  BY AreNumbers DEF IInv, TypeOK
<1>2. /\ queue' = Tail(queue) /\ queue /= <<>> /\ worker.op = "idle"
      /\ worker' = [op |-> "check", n |-> queue[1].n, ds |-> queue[1].ds]
  BY DEF WorkerTake
<1>3. queue[1] \in T
  <2> HIDE DEF T
  <2> QED BY <1>1, <1>2
<1>4. /\ queue' \in Seq(T) /\ Len(queue') = Len(queue) - 1 /\ Len(queue) \in Nat
      /\ \A i \in 1 .. Len(queue') : i + 1 \in 1 .. Len(queue) /\ queue'[i] = queue[i + 1]
  <2> HIDE DEF T
  <2> QED BY <1>1, <1>2
<1>5. worker' \in [op : {"idle", "check", "apply", "store"}, n : 0 .. MaxSample, ds : SUBSET Devices]
  BY <1>2, <1>3
<1>6. TypeOK'
  BY <1>1, <1>4, <1>5, RegistryAssumption DEF IInv, TypeOK, WorkerTake
<1>7. 1 \in 1 .. Len(queue)
  BY <1>1, <1>2
<1>8. worker'.n = queue[1].n /\ worker'.op = "check"
  BY <1>2
<1>9. Pipeline'
  <2>1. ASSUME NEW x \in Nat, Behind(x) PROVE Behind(x)'
    BY <1>1, <1>4, <1>7, <1>8, <2>1 DEF Behind, WorkerTake, Numbers
  <2>0. \A i, j \in 1 .. Len(queue) : i < j => queue[i].n < queue[j].n
    BY DEF IInv, Pipeline
  <2>2. \A i \in 1 .. Len(queue') : worker'.n < queue'[i].n
    <3> SUFFICES ASSUME NEW i \in 1 .. Len(queue') PROVE worker'.n < queue'[i].n
      OBVIOUS
    <3>1. i + 1 \in 1 .. Len(queue) /\ 1 < i + 1 /\ queue'[i] = queue[i + 1]
      BY <1>4
    <3> QED BY <1>7, <1>8, <2>0, <3>1
  <2>3. worker'.n <= samples
    BY <1>7, <1>8 DEF IInv, Pipeline
  <2>4. \A i, j \in 1 .. Len(queue') : i < j => queue'[i].n < queue'[j].n
    <3> SUFFICES ASSUME NEW i \in 1 .. Len(queue'), NEW j \in 1 .. Len(queue'), i < j
                 PROVE  queue'[i].n < queue'[j].n
      OBVIOUS
    <3>1. /\ i + 1 \in 1 .. Len(queue) /\ j + 1 \in 1 .. Len(queue) /\ i + 1 < j + 1
          /\ queue'[i] = queue[i + 1] /\ queue'[j] = queue[j + 1]
      BY <1>4
    <3> QED BY <2>0, <3>1
  <2>5. \A i \in 1 .. Len(queue') : queue'[i].n <= samples
    BY <1>4 DEF IInv, Pipeline
  <2> QED BY <1>1, <2>1, <2>2, <2>3, <2>4, <2>5 DEF IInv, Pipeline, WorkerTake, Numbers
<1>10. NothingNewerBehind'
  BY <1>8 DEF IInv, NothingNewerBehind, WorkerTake
<1> QED
  BY <1>6, <1>9, <1>10
  DEF IInv, RowsBelongToActive, RemovedNotShown, SyncAnsweredOnce, FutureSyncs, FindSyncPending,
      ShownIsNewest, WorkerTake

(* It drops the pack or some devices of it.                                *)
LEMMA WorkerCheckInv ==
    ASSUME IInv, WorkerCheck
    PROVE  IInv'
<1> DEFINE W == [op : {"idle", "check", "apply", "store"}, n : 0 .. MaxSample, ds : SUBSET Devices]
<1>2. /\ worker.op = "check" /\ worker' \in W /\ worker'.op \in {"idle", "apply"}
      /\ worker'.op = "idle" \/ worker'.n = worker.n
  <2>1. worker \in W /\ worker.op = "check"
    BY DEF IInv, TypeOK, WorkerCheck
  <2>2. CASE worker' = WorkerIdle
    BY <2>1, <2>2, DbAssumption DEF WorkerIdle
  <2>3. ASSUME NEW known \in SUBSET worker.ds,
               worker' = [worker EXCEPT !.op = "apply", !.ds = known]
        PROVE  worker' \in W /\ worker'.op = "apply" /\ worker'.n = worker.n
    BY <2>1, <2>3
  <2>4. worker' = WorkerIdle \/ \E known \in SUBSET worker.ds :
                                   worker' = [worker EXCEPT !.op = "apply", !.ds = known]
    BY DEF WorkerCheck
  <2> QED BY <2>1, <2>2, <2>3, <2>4
<1> HIDE DEF W
<1>4. TypeOK'
  BY <1>2 DEF IInv, TypeOK, WorkerCheck, W
<1>5. Pipeline'
  BY <1>2 DEF IInv, Pipeline, Behind, WorkerCheck
<1>6. NothingNewerBehind'
  BY <1>2 DEF IInv, NothingNewerBehind, WorkerCheck
<1> QED
  BY <1>4, <1>5, <1>6
  DEF IInv, RowsBelongToActive, RemovedNotShown, SyncAnsweredOnce, FutureSyncs, FindSyncPending,
      ShownIsNewest, WorkerCheck

(* What it shows is newer than what is stored or on its way; a device it   *)
(* passes over shows nothing.                                              *)
LEMMA WorkerApplyInv ==
    ASSUME IInv, WorkerApply
    PROVE  IInv'
<1> DEFINE pts == [d \in worker.ds |-> worker.n]
<1>1. Numbers /\ Tidy(svc)
  BY AreNumbers, InvParts DEF IInv
<1>2. /\ worker.op = "apply" /\ worker.ds \in SUBSET Devices /\ worker.n \in 0 .. MaxSample
      /\ worker' \in [op : {"store"}, n : 0 .. MaxSample, ds : SUBSET Devices]
      /\ worker'.n = worker.n /\ worker'.ds = worker.ds
  BY DEF IInv, TypeOK, WorkerApply
<1>3. svc' = HandleTelemetryPoints(svc, pts) /\ pts \in [worker.ds -> 0 .. MaxSample]
      /\ \A d \in worker.ds : pts[d] = worker.n
  BY <1>2 DEF WorkerApply
<1> HIDE DEF pts
<1>4. /\ Tidy(svc') /\ svc'.nextSync = svc.nextSync /\ svc'.sync = svc.sync
      /\ svc'.removed = svc.removed /\ svc'.masters = svc.masters
      /\ \A d \in Devices :
           svc'.snapshot[d] = IF d \in worker.ds /\ d \notin svc.removed /\ PortOf[d] \notin svc.masters
                              THEN pts[d] ELSE svc.snapshot[d]
  BY <1>1, <1>2, <1>3, HandlePoints
<1>5. \A d \in Devices :
          \/ svc'.snapshot[d] = worker.n
          \/ svc'.snapshot[d] = svc.snapshot[d] /\ (d \in worker.ds => svc.snapshot[d] = 0)
  BY <1>3, <1>4 DEF IInv, RemovedNotShown
<1>6. TypeOK' /\ RemovedNotShown'
  BY <1>2, <1>4 DEF IInv, TypeOK, WorkerApply, Tidy, NotShown, RemovedNotShown
<1>7. Behind(worker.n)
  BY <1>1, <1>2 DEF IInv, Pipeline, Behind, Numbers
<1>8. \A d \in Devices : Behind(svc'.snapshot[d])
  BY <1>5, <1>7 DEF IInv, Pipeline
<1>9. Pipeline'
  BY <1>2, <1>8 DEF IInv, Pipeline, Behind, WorkerApply
<1>10. SyncAnsweredOnce' /\ FutureSyncs'
  BY <1>4 DEF IInv, SyncAnsweredOnce, FutureSyncs, FindSyncPending, WorkerApply
<1>11. \A d \in Devices : db.latest[d] <= worker.n /\ pendingDb[d] <= worker.n /\ writer[d] <= worker.n
  BY <1>2 DEF IInv, Pipeline, Behind
<1>12. NothingNewerBehind' /\ ShownIsNewest'
  BY SMTT(30), <1>1, <1>2, <1>5, <1>11 DEF IInv, NothingNewerBehind, ShownIsNewest, WorkerApply, Numbers
<1> QED
  BY <1>6, <1>9, <1>10, <1>12 DEF IInv, RowsBelongToActive, WorkerApply

(* What it hands to the writer it has shown, or the device shows nothing.  *)
LEMMA StorageInv ==
    ASSUME IInv, EnqueueTelemetryStorage
    PROVE  IInv'
<1>1. Numbers
  BY AreNumbers DEF IInv
<1>2. /\ worker.op = "store" /\ worker.n \in 0 .. MaxSample
      /\ worker' \in [op : {"idle"}, n : 0 .. MaxSample, ds : SUBSET Devices]
      /\ pendingDb' \in Samples
      /\ \A d \in Devices : pendingDb'[d] = IF d \in worker.ds THEN worker.n ELSE pendingDb[d]
  BY DbAssumption DEF IInv, TypeOK, EnqueueTelemetryStorage, WorkerIdle, Samples
<1>3. TypeOK'
  BY <1>2 DEF IInv, TypeOK, EnqueueTelemetryStorage, Samples
<1>4. Behind(worker.n)
  BY <1>1, <1>2 DEF IInv, Pipeline, Behind, Numbers
<1>5. \A d \in Devices : Behind(pendingDb'[d])
  BY <1>2, <1>4 DEF IInv, Pipeline
<1>6. Pipeline'
  BY <1>2, <1>5 DEF IInv, Pipeline, Behind, EnqueueTelemetryStorage
<1>7. NothingNewerBehind'
  BY <1>2 DEF IInv, NothingNewerBehind, EnqueueTelemetryStorage
<1> QED
  BY <1>3, <1>6, <1>7
  DEF IInv, RowsBelongToActive, RemovedNotShown, SyncAnsweredOnce, FutureSyncs, FindSyncPending,
      ShownIsNewest, EnqueueTelemetryStorage

(* dbWriterLoop stores what it took.                                       *)
LEMMA WriterInv ==
    ASSUME IInv, WriterTake \/ WriterSave
    PROVE  IInv'
<1>1. Numbers /\ Sound(db)
  BY AreNumbers, InvParts DEF IInv
<1>2. NoPoints \in Samples /\ \A d \in Devices : NoPoints[d] = 0
  BY DbAssumption DEF NoPoints, Samples
<1>3. Behind(0)
  BY <1>1 DEF Behind, Numbers
<1>4. CASE WriterTake
  <2>1. writer' = pendingDb /\ pendingDb' = NoPoints
    BY <1>4 DEF WriterTake
  <2>2. TypeOK'
    BY <1>2, <1>4, <2>1 DEF IInv, TypeOK, WriterTake, Samples
  <2>3. Pipeline'
    BY <1>2, <1>3, <1>4, <2>1 DEF IInv, Pipeline, Behind, WriterTake
  <2>4. NothingNewerBehind'
    BY <1>1, <1>2, <1>4, <2>1 DEF IInv, NothingNewerBehind, WriterTake, Numbers
  <2> QED
    BY <1>4, <2>2, <2>3, <2>4
    DEF IInv, RowsBelongToActive, RemovedNotShown, SyncAnsweredOnce, FutureSyncs, FindSyncPending,
        ShownIsNewest, WriterTake
<1>5. CASE WriterSave
  <2>1. writer \in Samples /\ writer' = NoPoints /\ db' \in {db, SaveTelemetryPoints(db, Valid(writer))}
    BY <1>5 DEF WriterSave, IInv, TypeOK, Samples
  <2>2. Sound(db') /\ \A d \in Devices : db'.latest[d] \in {db.latest[d], writer[d]}
    BY <1>1, <2>1, SaveTelemetrySound
  <2>3. TypeOK' /\ RowsBelongToActive'
    BY <1>2, <1>5, <2>1, <2>2
    DEF IInv, TypeOK, RowsBelongToActive, WriterSave, Samples, Sound, RowsBelong
  <2>4. \A d \in Devices : Behind(db'.latest[d])
    BY <2>2 DEF IInv, Pipeline
  <2>5. Pipeline'
    BY <1>2, <1>3, <1>5, <2>1, <2>4 DEF IInv, Pipeline, Behind, WriterSave
  <2>6. NothingNewerBehind' /\ ShownIsNewest'
    BY <1>1, <1>2, <1>5, <2>1, <2>2 DEF IInv, NothingNewerBehind, ShownIsNewest, WriterSave, Numbers
  <2> QED
    BY <1>5, <2>3, <2>5, <2>6
    DEF IInv, RemovedNotShown, SyncAnsweredOnce, FutureSyncs, FindSyncPending, WriterSave
<1> QED BY <1>4, <1>5

(* Beginning a sync takes the next number, which was never used.           *)
LEMMA SyncRequestInv ==
    ASSUME IInv, NEW sel \in (SUBSET Devices) \ {{}}, SyncConfigRequest(sel)
    PROVE  IInv'
<1> DEFINE k == svc.nextSync
           y == [svc.sync EXCEPT ![k] = sel]
<1>1. Tidy(svc) /\ svc \in SvcType /\ HandlersOK
  BY InvParts DEF Tidy
<1>2. k \in 1 .. MaxSync
  BY <1>1, SyncAssumption DEF SvcType, SyncConfigRequest
<1>3. y \in [1 .. MaxSync -> SUBSET Devices] /\ k + 1 \in 1 .. MaxSync + 1
      /\ y[k] = sel /\ \A s \in (1 .. MaxSync) \ {k} : y[s] = svc.sync[s]
  BY <1>1, <1>2, SyncAssumption DEF SvcType
<1>4. svc' = [svc EXCEPT !.nextSync = k + 1, !.sync = y]
  BY <1>1 DEF SyncConfigRequest, BeginSyncConfigRequest, SvcType
<1>5. /\ svc' \in SvcType /\ svc'.snapshot = svc.snapshot /\ svc'.removed = svc.removed
      /\ svc'.masters = svc.masters /\ svc'.nextSync = k + 1 /\ svc'.sync = y
  <2> HIDE DEF y, k
  <2> QED BY <1>1, <1>3, <1>4 DEF SvcType
<1>6. ip' \in IpType /\ ops' \in 0 .. MaxOps
  <2>1. ip' = [IpIdle EXCEPT !.op = "sync_publish", !.seq = k] /\ k \in 0 .. MaxSync
    BY <1>2 DEF SyncConfigRequest
  <2>2. IpIdle \in IpType /\ "sync_publish" \in IpOps
    BY IpRecord DEF IpOps
  <2> HIDE DEF k
  <2>3. ip' \in IpType
    BY <2>1, <2>2 DEF IpType
  <2>4. ops' \in 0 .. MaxOps
    BY <1>1, BeginOps DEF SyncConfigRequest
  <2> QED BY <2>3, <2>4
<1>7. TypeOK'
  BY <1>5, <1>6 DEF IInv, TypeOK, IpType, SyncConfigRequest, IpUnchanged
<1>8. SyncAnsweredOnce' /\ FutureSyncs'
  <2>1. results' = results /\ \A s \in 1 .. MaxSync : s < k + 1 <=> s < k \/ s = k
    BY <1>2 DEF SyncConfigRequest
  <2>2. results[k] = 0
    BY <1>2 DEF IInv, FutureSyncs
  <2>3. \A s \in 1 .. MaxSync : s >= k + 1 => s >= k /\ s /= k
    BY <1>2
  <2> HIDE DEF y, k
  <2> QED BY <1>2, <1>3, <1>5, <2>1, <2>2, <2>3
          DEF IInv, SyncAnsweredOnce, FutureSyncs, FindSyncPending, k
<1> QED
  BY <1>5, <1>7, <1>8
  DEF IInv, RowsBelongToActive, RemovedNotShown, Pipeline, Behind, NothingNewerBehind,
      ShownIsNewest, SyncConfigRequest, IpUnchanged

(* Whoever takes the entry of a pending sync away is the one who answers.  *)
LEMMA CompletedInv ==
    ASSUME IInv, NEW s, Completed(s), HandlersOK',
           UNCHANGED <<db, queue, worker, pendingDb, writer, samples, restarts>>
    PROVE  IInv'
<1>1. svc \in SvcType /\ results \in [1 .. MaxSync -> 0 .. 2]
  BY DEF IInv, TypeOK
<1>2. CASE ~FindSyncPending(svc, s)
  <2>1. svc' = svc /\ results' = results
    BY <1>2 DEF Completed
  <2>2. TypeOK'
    BY <2>1 DEF IInv, TypeOK, HandlersOK, MqType, IpType
  <2> QED
    BY <2>1, <2>2
    DEF IInv, RowsBelongToActive, RemovedNotShown, SyncAnsweredOnce, FutureSyncs, FindSyncPending,
        Pipeline, Behind, NothingNewerBehind, ShownIsNewest
<1>3. CASE FindSyncPending(svc, s)
  <2> DEFINE y == [svc.sync EXCEPT ![s] = {}]
  <2>1. s \in 1 .. MaxSync /\ svc.sync[s] /= {}
    BY <1>3 DEF FindSyncPending
  <2>2. s < svc.nextSync /\ results[s] = 0
    BY <1>1, <1>3, <2>1 DEF IInv, FutureSyncs, SyncAnsweredOnce, SvcType
  <2>3. y \in [1 .. MaxSync -> SUBSET Devices] /\ y[s] = {}
        /\ \A i \in (1 .. MaxSync) \ {s} : y[i] = svc.sync[i]
    BY <1>1, <2>1 DEF SvcType
  <2>4. svc' = [svc EXCEPT !.sync = y]
    BY <1>1, <1>3 DEF Completed, CompleteSyncConfig, SvcType
  <2>5. /\ svc' \in SvcType /\ svc'.snapshot = svc.snapshot /\ svc'.removed = svc.removed
        /\ svc'.masters = svc.masters /\ svc'.nextSync = svc.nextSync /\ svc'.sync = y
    <3> HIDE DEF y
    <3> QED BY <1>1, <2>3, <2>4 DEF SvcType
  <2>6. /\ results' \in [1 .. MaxSync -> 0 .. 2] /\ results'[s] = 1
        /\ \A i \in (1 .. MaxSync) \ {s} : results'[i] = results[i]
    BY <1>1, <1>3, <2>1, <2>2 DEF Completed
  <2> HIDE DEF y
  <2>7. TypeOK'
    BY <2>5, <2>6 DEF IInv, TypeOK, HandlersOK, MqType, IpType
  <2>8. svc.nextSync \in Nat
    BY <1>1, SyncAssumption DEF SvcType
  <2>9. SyncAnsweredOnce' /\ FutureSyncs'
    BY <2>1, <2>2, <2>3, <2>5, <2>6, <2>8 DEF IInv, SyncAnsweredOnce, FutureSyncs, FindSyncPending
  <2> QED
    BY <2>5, <2>7, <2>9
    DEF IInv, RowsBelongToActive, RemovedNotShown, Pipeline, Behind, NothingNewerBehind,
        ShownIsNewest
<1> QED BY <1>2, <1>3

(* The three ends of a sync.                                               *)
LEMMA SyncEndInv ==
    ASSUME IInv, SyncComplete \/ SyncFailed \/ \E s \in 1 .. MaxSync : SyncTimeout(s)
    PROVE  IInv'
<1>1. HandlersOK
  BY InvParts
<1>2. CASE SyncComplete
  <2>1. mq' \in MqType
    BY <1>2, MqRecord DEF SyncComplete, MqOps
  <2> QED BY <1>1, <1>2, <2>1, CompletedInv DEF SyncComplete, HandlersOK
<1>3. CASE SyncFailed
  <2>1. ip' \in IpType
    BY <1>3, IpRecord DEF SyncFailed, IpOps
  <2> QED BY <1>1, <1>3, <2>1, CompletedInv DEF SyncFailed, IpUnchanged, HandlersOK
<1>4. ASSUME NEW s, SyncTimeout(s) PROVE IInv'
  BY <1>1, <1>4, CompletedInv DEF SyncTimeout, MainUnchanged, HandlersOK
<1> QED BY <1>2, <1>3, <1>4

(* Pc_data has just filled its memory from the tables.                     *)
Started ==
    /\ Sound(db) /\ svc = Seeded(db)
    /\ queue = <<>> /\ worker = WorkerIdle
    /\ pendingDb = NoPoints /\ writer = NoPoints
    /\ mq = MqIdle /\ ip = IpIdle
    /\ samples \in 0 .. MaxSample /\ \A d \in Devices : db.latest[d] <= samples
    /\ results = [s \in 1 .. MaxSync |-> 0]
    /\ ops \in 0 .. MaxOps /\ restarts \in 0 .. MaxRestart

(* A start of Pc_data establishes the invariant.                           *)
LEMMA StartInv == Started => IInv
<1> SUFFICES ASSUME Started PROVE IInv
  OBVIOUS
<1> USE DEF Started
<1>1. /\ Tidy(svc) /\ \A d \in Devices : svc.snapshot[d] \in {0, db.latest[d]}
      /\ svc.nextSync = 1 /\ svc.sync = [s \in 1 .. MaxSync |-> {}]
  BY SeededTidy
<1>2. mq \in MqType /\ ip \in IpType
  BY MqRecord, IpRecord DEF MqOps, IpOps
<1>3. /\ worker \in [op : {"idle", "check", "apply", "store"}, n : 0 .. MaxSample, ds : SUBSET Devices]
      /\ worker.op = "idle"
  BY DbAssumption DEF WorkerIdle
<1>4. /\ pendingDb \in Samples /\ writer \in Samples
      /\ \A d \in Devices : pendingDb[d] = 0 /\ writer[d] = 0
  BY DbAssumption DEF NoPoints, Samples
<1>5. results \in [1 .. MaxSync -> 0 .. 2]
  OBVIOUS
<1>6. queue \in Seq([n : 1 .. MaxSample, ds : SUBSET Devices]) /\ Len(queue) = 0
  OBVIOUS
<1>7. TypeOK
  BY <1>1, <1>2, <1>3, <1>4, <1>5, <1>6, RegistryAssumption
  DEF TypeOK, Sound, Tidy, MqType, IpType, Samples
<1>8. RowsBelongToActive /\ RemovedNotShown
  BY <1>1 DEF Sound, RowsBelong, Tidy, NotShown, RowsBelongToActive, RemovedNotShown
<1>9. SyncAnsweredOnce /\ FutureSyncs
  BY <1>1, SyncAssumption DEF SyncAnsweredOnce, FutureSyncs
<1>10. \A d \in Devices : db.latest[d] \in Nat
  BY DbAssumption DEF Sound, DbType
<1>11. Pipeline
  BY <1>1, <1>3, <1>4, <1>6, <1>10 DEF Pipeline, Behind
<1>12. NothingNewerBehind /\ ShownIsNewest
  BY <1>1, <1>3, <1>4, <1>10 DEF NothingNewerBehind, ShownIsNewest
<1> QED BY <1>7, <1>8, <1>9, <1>11, <1>12 DEF IInv

(* The first start.                                                        *)
LEMMA InitInv == Init => IInv
<1> SUFFICES ASSUME Init PROVE IInv
  OBVIOUS
<1>1. Sound(db) /\ \A d \in Devices : db.latest[d] = 0
  BY InitialTables DEF Init
<1>2. Started
  BY <1>1, DbAssumption, RegistryAssumption DEF Init, Started
<1> QED BY <1>2, StartInv

(* The threads start over; the tables and the count of samples stay.       *)
LEMMA RestartInv ==
    ASSUME IInv, Restart
    PROVE  IInv'
<1>1. Sound(db) /\ \A d \in Devices : db.latest[d] <= samples
  BY InvParts DEF IInv, Pipeline, Behind
<1>2. samples \in 0 .. MaxSample /\ ops \in 0 .. MaxOps /\ restarts' \in 0 .. MaxRestart
  BY RegistryAssumption DEF IInv, TypeOK, Restart
<1>3. Started'
  BY <1>1, <1>2 DEF Started, Restart
<1>4. Started' => IInv'
  BY StartInv, PTL
<1> QED BY <1>3, <1>4

(* A step is housekeeping, or one of the steps of the pipeline, of a sync  *)
(* or of a restart.                                                        *)
LEMMA NextSplit ==
    ASSUME IInv, Next
    PROVE  \/ Housekeeping
           \/ \E ds \in SUBSET Devices : EnqueueTelemetry(ds)
           \/ WorkerTake \/ WorkerCheck \/ WorkerApply \/ EnqueueTelemetryStorage
           \/ WriterTake \/ WriterSave
           \/ \E sel \in (SUBSET Devices) \ {{}} : SyncConfigRequest(sel)
           \/ SyncComplete \/ SyncFailed \/ \E s \in 1 .. MaxSync : SyncTimeout(s)
           \/ Restart
<1>1. CASE TelemetryStep
  BY <1>1 DEF TelemetryStep
<1>2. CASE MqttStep
  BY <1>2, RegistrationSteps, SnapshotAndAckSteps DEF MqttStep
<1>3. CASE IpcStep
  BY <1>3, RequestSteps DEF IpcStep
<1>4. CASE MainStep
  BY <1>4, RequestSteps DEF MainStep
<1> QED BY <1>1, <1>2, <1>3, <1>4 DEF Next

(* Every step keeps the invariant.                                         *)
LEMMA NextInv == IInv /\ [Next]_vars => IInv'
<1> SUFFICES ASSUME IInv, [Next]_vars PROVE IInv'
  OBVIOUS
<1>1. CASE Next
  BY <1>1, NextSplit, HousekeepingInv, EnqueueInv, WorkerTakeInv, WorkerCheckInv, WorkerApplyInv,
     StorageInv, WriterInv, SyncRequestInv, SyncEndInv, RestartInv
<1>2. CASE UNCHANGED vars
  BY <1>2
  DEF vars, IInv, TypeOK, RowsBelongToActive, RemovedNotShown, SyncAnsweredOnce, FutureSyncs,
      FindSyncPending, Pipeline, Behind, NothingNewerBehind, ShownIsNewest
<1> QED BY <1>1, <1>2

-----------------------------------------------------------------------------
(* Theorems                                                                *)

(* The invariant holds in every reachable state.                           *)
THEOREM Inductive == Spec => []IInv
BY InitInv, NextInv, PTL DEF Spec

(* The tables, the memory and every hand-over between the threads of       *)
(* Pc_data keep their types.                                               *)
THEOREM TypeCorrect == Spec => []TypeOK
<1>1. IInv => TypeOK
  BY DEF IInv
<1> QED BY <1>1, Inductive, PTL

(* No row is left of a device that is unknown or deleted, whatever the     *)
(* writer thread still held when it was deleted                            *)
(* (PcDatabase::deleteDeviceData, saveTelemetryPoints).                    *)
THEOREM NoOrphanRows == Spec => []RowsBelongToActive
<1>1. IInv => RowsBelongToActive
  BY DEF IInv
<1> QED BY <1>1, Inductive, PTL

(* No value of a device with a tombstone is shown                          *)
(* (PcDataService::handleTelemetryPoints, removeDeviceData).               *)
THEOREM TombstonesHide == Spec => []RemovedNotShown
<1>1. IInv => RemovedNotShown
  BY DEF IInv
<1> QED BY <1>1, Inductive, PTL

(* Every sync request is answered once, by whichever of the snapshot, the  *)
(* failed publish and the timeout takes its entry away                     *)
(* (PcDataService::completeSyncConfig).                                    *)
THEOREM OneAnswer == Spec => []SyncAnsweredOnce
<1>1. IInv => SyncAnsweredOnce
  BY DEF IInv
<1> QED BY <1>1, Inductive, PTL

(* Pc_ui is never shown a value older than the stored one, for queues of   *)
(* any length (handleTelemetryMessage, dbWriterLoop).                      *)
THEOREM MemoryIsNewest == Spec => []ShownIsNewest
<1>1. IInv => ShownIsNewest
  BY DEF IInv
<1> QED BY <1>1, Inductive, PTL

(* Only the acknowledgement of an add_device lifts the tombstone of a      *)
(* device in the tables (PcDatabase::upsertDevice, reactivateDeletedDevice). *)
THEOREM TombstonesHold == Spec => OnlyAddRestores
<1> DEFINE Lifted(d) == db.device[d] = "deleted" /\ db'.device[d] = "active"
           P == \A d \in Devices : Lifted(d) => mq.op = "add_reactivate" /\ d \in mq.ds
<1>1. IInv /\ [Next]_vars => [P]_vars
  <2> SUFFICES ASSUME IInv, Next PROVE P
    OBVIOUS
  <2>1. CASE Housekeeping
    BY <2>1 DEF Housekeeping
  <2>2. CASE WriterSave
    <3>1. Sound(db) /\ writer \in Samples
      BY InvParts DEF IInv, TypeOK, Samples
    <3>2. db'.device = db.device
      BY <2>2, <3>1, SaveTelemetrySound DEF WriterSave
    <3> QED BY <3>2
  <2>3. CASE db' = db
    BY <2>3
  <2>4. Housekeeping \/ WriterSave \/ db' = db
    BY NextSplit
    DEF EnqueueTelemetry, WorkerTake, WorkerCheck, WorkerApply, EnqueueTelemetryStorage, WriterTake,
        SyncConfigRequest, SyncComplete, SyncFailed, SyncTimeout, Restart
  <2> QED BY <2>1, <2>2, <2>3, <2>4
<1> QED BY <1>1, Inductive, PTL DEF Spec, OnlyAddRestores
=============================================================================
