----------------------------- MODULE PcUiState -----------------------------
(***************************************************************************)
(* What Pc_ui keeps of the devices, as a record u of DeviceManager (dm),   *)
(* DataManager (rt: m_realtimeMap, tomb: m_deletedDevices) and             *)
(* UiStateStore (mirror: what the pages show), and the methods that change *)
(* it as operators that return the new record.  All run on Qt's event      *)
(* loop, each within one event.                                            *)
(*                                                                         *)
(* Of a device's node are kept status, online and lastUpdateTime; a time   *)
(* is the number of the sample received then, 0 for none.  age[k] says how *)
(* old such a time is by the clock.  All devices hang on one port.         *)
(***************************************************************************)
EXTENDS Naturals

CONSTANTS
    Devices,
    Expecting,   \* the devices with expectTelemetry (not relays and LEDs)
    MaxSample

ASSUME UiStateAssumption == Expecting \subseteq Devices /\ MaxSample \in Nat

Ages == {"fresh", "stale", "offline"}   \* up to 30 s, up to 90 s, more
NodeStatus == {"none", "unknown", "online", "offline", "stale", "service_offline"}
Node == [status : NodeStatus, online : BOOLEAN, n : 0 .. MaxSample]
Data == [node : Node, points : BOOLEAN, off : BOOLEAN,
         state : {"none", "normal", "offline", "stale", "unknown"}]

NoNode  == [status |-> "none", online |-> FALSE, n |-> 0]
NoData  == [node |-> NoNode, points |-> FALSE, off |-> FALSE, state |-> "none"]
NoState == [node |-> NoNode, data |-> NoData, life |-> "none"]

UiType == [dm : [Devices -> Node], rt : [Devices -> Data], tomb : SUBSET Devices,
           mirror : [Devices -> [node : Node, data : Data, life : NodeStatus]]]

EmptyUi == [dm |-> [d \in Devices |-> NoNode], rt |-> [d \in Devices |-> NoData],
            tomb |-> {}, mirror |-> [d \in Devices |-> NoState]]

Known(node) == node.status /= "none"

-----------------------------------------------------------------------------
(* UiStateStore                                                            *)

LifecycleFor(s) ==
    IF s.data.off \/ s.node.status = "service_offline" THEN "service_offline"
    ELSE IF s.data.state = "offline" \/ s.node.status = "offline" THEN "offline"
    ELSE IF s.data.state = "stale" \/ s.node.status = "stale" THEN "stale"
    ELSE IF s.node.online THEN "online"
    ELSE s.node.status

(* A device that has a node and no realtime data keeps the realtime data   *)
(* and the lifecycle it was last shown with.                               *)
MirrorOf(u, d) ==
    LET old == u.mirror[d]
        new == [old EXCEPT !.node = u.rt[d].node, !.data = u.rt[d]]
        bare == [old EXCEPT !.node = u.dm[d]]
    IN  IF Known(u.rt[d].node) THEN [new EXCEPT !.life = LifecycleFor(new)]
        ELSE IF ~Known(u.dm[d]) THEN NoState
        ELSE IF bare.life = "none" THEN [bare EXCEPT !.life = LifecycleFor(bare)]
        ELSE bare

RebuildStateMirror(u) == [u EXCEPT !.mirror = [d \in Devices |-> MirrorOf(u, d)]]

-----------------------------------------------------------------------------
(* latest_points: pts maps a device to its newest sample, 0 for none       *)

(* A sample that reports the device offline (bad) or is old is shown so.   *)
EvaluateDeviceStatus(k, bad, age) ==
    CASE bad \/ age[k] = "offline" -> [status |-> "offline", state |-> "offline", online |-> FALSE]
      [] ~bad /\ age[k] = "stale"  -> [status |-> "stale", state |-> "stale", online |-> FALSE]
      [] OTHER                     -> [status |-> "online", state |-> "normal", online |-> TRUE]

BuildRealtimeDeviceData(k, bad, age) ==
    LET e == EvaluateDeviceStatus(k, bad, age)
    IN  [node |-> [status |-> e.status, online |-> e.online, n |-> k],
         points |-> TRUE, off |-> FALSE, state |-> e.state]

IsDeletedDevice(u, d) == d \in u.tomb

(* Mutants of Accepts: an equal sample is dropped too; an older one is    *)
(* taken.                                                                  *)
MutAcceptsIfNewer(u, d, k) == k /= 0 /\ ~IsDeletedDevice(u, d) /\ k > u.rt[d].node.n
MutAcceptsAny(u, d, k)     == k /= 0 /\ ~IsDeletedDevice(u, d)

(* A sample older than the one shown is dropped; samples are taken to be   *)
(* more than the tolerance of 1 s apart.                                   *)
Accepts(u, d, k) ==
    /\ k /= 0 /\ ~IsDeletedDevice(u, d)
    /\ ~(u.rt[d].points /\ k < u.rt[d].node.n)

UpsertRealtimeData(u, d, data) ==
    [u EXCEPT !.rt[d] = data, !.dm[d] = data.node]

OnLatestPointsMessage(u, pts, bad, age) ==
    LET data(d) == BuildRealtimeDeviceData(pts[d], pts[d] \in bad, age)
        new(d)  == IF Accepts(u, d, pts[d]) THEN UpsertRealtimeData(u, d, data(d)) ELSE u
    IN  RebuildStateMirror([u EXCEPT !.rt = [d \in Devices |-> new(d).rt[d]],
                                     !.dm = [d \in Devices |-> new(d).dm[d]]])

-----------------------------------------------------------------------------
(* devices_snapshot: reg maps a device to its node, or NoNode              *)

StateOf(status) ==
    CASE status = "offline" -> "offline" [] status = "online" -> "normal" [] OTHER -> "unknown"

(* Mutant of Listed: the tombstones are not looked at.                     *)
MutListed(u, reg) == {d \in Devices : Known(reg[d])}

Listed(u, reg) == {d \in Devices : Known(reg[d]) /\ ~IsDeletedDevice(u, d)}

(* A device that is not in the snapshot stays; one with realtime data      *)
(* keeps the node of those in dm, and one without points takes the node of *)
(* the snapshot into them, but not serviceOffline.                         *)
OnDevicesSnapshotMessage(u, reg) ==
    LET listed == Listed(u, reg)
    IN  RebuildStateMirror(
        [u EXCEPT
           !.dm = [d \in Devices |-> IF Known(u.rt[d].node) THEN u.rt[d].node
                                     ELSE IF d \in listed THEN reg[d] ELSE @[d]],
           !.rt = [d \in Devices |->
                     IF d \in u.tomb THEN NoData
                     ELSE IF d \notin listed \/ @[d].points THEN @[d]
                     ELSE [@[d] EXCEPT !.node = reg[d], !.state = StateOf(reg[d].status)]]])

-----------------------------------------------------------------------------
(* Removal                                                                 *)

RemoveDeviceData(u, d) ==
    RebuildStateMirror([u EXCEPT !.dm[d] = NoNode, !.rt[d] = NoData, !.tomb = @ \cup {d}])

ForgetRemovedDevice(u, d) == RebuildStateMirror([u EXCEPT !.tomb = @ \ {d}])

(* Only the devices with realtime data get a tombstone.                    *)
RemoveMasterData(u) ==
    RebuildStateMirror([u EXCEPT !.dm = EmptyUi.dm, !.rt = EmptyUi.rt,
                                 !.tomb = @ \cup {d \in Devices : Known(u.rt[d].node)}])

(* The nodes stay in DeviceManager.                                        *)
ClearRuntimeData(u) == RebuildStateMirror([u EXCEPT !.rt = EmptyUi.rt])

-----------------------------------------------------------------------------
(* Timers                                                                  *)

MarkAllDevicesOffline(u) ==
    LET gone(node) == IF Known(node) THEN [node EXCEPT !.online = FALSE, !.status = "service_offline"]
                                     ELSE node
    IN  RebuildStateMirror(
        [u EXCEPT !.dm = [d \in Devices |-> gone(u.dm[d])],
                  !.rt = [d \in Devices |->
                            IF Known(u.rt[d].node)
                            THEN [u.rt[d] EXCEPT !.node = gone(@), !.off = TRUE, !.state = "offline"]
                            ELSE u.rt[d]]])

(* Devices whose online flag does not fit the age of their last sample.    *)
Misjudged(u, age) ==
    {d \in Expecting : /\ Known(u.dm[d])
                       /\ u.dm[d].online /= (u.dm[d].n > 0 /\ age[u.dm[d].n] = "fresh")}

RefreshOfflineStates(u, age) ==
    LET late(k) == IF k > 0 /\ age[k] = "offline" THEN "offline" ELSE "stale"
        ds == Misjudged(u, age)
    IN  IF ds = {} THEN u
        ELSE RebuildStateMirror(
        [u EXCEPT !.dm = [d \in Devices |-> IF d \in ds THEN [u.dm[d] EXCEPT !.online = ~@]
                                                         ELSE u.dm[d]],
                  !.rt = [d \in Devices |->
                            IF d \in ds /\ Known(u.rt[d].node)
                            THEN [u.rt[d] EXCEPT !.node.online = ~u.dm[d].online,
                                                 !.state = IF u.dm[d].online
                                                           THEN late(u.rt[d].node.n) ELSE @]
                            ELSE u.rt[d]]])

=============================================================================
