----------------------------- MODULE PcUiProofs -----------------------------
(***************************************************************************)
(* Proofs about PcUi, for any devices, samples and frames in the pipe.     *)
(*                                                                         *)
(* Every method of Pc_ui that changes its picture of the devices ends by   *)
(* rebuilding the mirror; what each does is stated as a lemma about the    *)
(* record u it is given.  The frames of a removal or an addition on their  *)
(* way name a device: this is what the invariant adds to the types.        *)
(***************************************************************************)
EXTENDS PcUi, TLAPS

\* The frames, and the jobs of the callback thread, that Pc_data makes.
Frames ==
  {m \in Messages : m.type \in {"removed", "added"} => \E d \in Devices : m.of = {d}}

Sender == [todo : Seq(Frames), msg : Frames]

Typed ==
  /\ samples \in 0 .. MaxSample
  /\ aged \in [stale : 0 .. samples, gone : 0 .. samples]
  /\ reg \in [Devices -> Node] /\ snap \in [Devices -> 0 .. samples] /\ dirty \in BOOLEAN
  /\ thread \in [Threads -> Sender]
  /\ pipe \in Pipe(Frames, Requests) /\ Len(pipe.toUi) <= PipeMax
  /\ ops \in 0 .. MaxOps /\ breaks \in 0 .. MaxBreaks

\* Removed devices have no node and no data, and after the mirror is rebuilt they are
\* not shown.
Bare(tomb, dm, rt) == \A d \in tomb : dm[d] = NoNode /\ rt[d] = NoData
Hidden(u) == Bare(u.tomb, u.dm, u.rt) /\ \A d \in u.tomb : u.mirror[d] = NoState
Sound(u) == u \in UiType /\ Hidden(u)

\* No value of new is older than that of old.
Sample(x) == x.node.n
Forward(old, new) ==
  \A d \in Devices : old[d].points /\ new[d].points => Sample(new[d]) >= Sample(old[d])
NotBack(u, v) == Forward(u.rt, v.rt)
SameSamples(u, v) ==
  \A d \in Devices : v.rt[d].points = u.rt[d].points /\ Sample(v.rt[d]) = Sample(u.rt[d])

IInv == Typed /\ Sound(ui)

-----------------------------------------------------------------------------
(* The picture of the devices.                                             *)

State == [node : Node, data : Data, life : NodeStatus]

\* What is shown of a device Pc_ui does not know.
LEMMA NothingTypes ==
  /\ NoNode \in Node /\ NoData \in Data /\ NoState \in State
  /\ ~Known(NoNode) /\ NoData.node = NoNode /\ ~NoData.points
  <1>1. 0 \in 0 .. MaxSample BY UiStateAssumption
  <1>2. NoNode \in Node /\ ~Known(NoNode) BY <1>1 DEF NoNode, Node, NodeStatus, Known
  <1>3. NoData \in Data /\ NoData.node = NoNode /\ ~NoData.points BY <1>2 DEF NoData, Data
  <1>4. NoState \in State BY <1>2, <1>3 DEF NoState, State, NodeStatus
  <1> QED BY <1>2, <1>3, <1>4

\* LifecycleFor is one of the states a page can show.
LEMMA LifecycleType ==
  ASSUME NEW s, s.node.status \in NodeStatus
  PROVE  LifecycleFor(s) \in NodeStatus
BY DEF LifecycleFor, NodeStatus

\* The mirror's entry of one device.
LEMMA MirrorType ==
  ASSUME NEW u \in UiType, NEW d \in Devices
  PROVE  /\ MirrorOf(u, d) \in State
         /\ u.dm[d] = NoNode /\ u.rt[d] = NoData => MirrorOf(u, d) = NoState
  <1>1. u.dm[d] \in Node /\ u.rt[d] \in Data /\ u.mirror[d] \in State
    BY DEF UiType, State
  <1>2. u.rt[d].node \in Node BY <1>1 DEF Data
  <1> DEFINE old == u.mirror[d]
             new == [old EXCEPT !.node = u.rt[d].node, !.data = u.rt[d]]
             bare == [old EXCEPT !.node = u.dm[d]]
  <1>3. new \in State /\ new.node = u.rt[d].node BY <1>1, <1>2 DEF State
  <1>4. bare \in State /\ bare.node = u.dm[d] BY <1>1 DEF State
  <1>5. new.node.status \in NodeStatus /\ bare.node.status \in NodeStatus
    BY <1>1, <1>2, <1>3, <1>4 DEF Node
  <1>6. MirrorOf(u, d) = IF Known(u.rt[d].node) THEN [new EXCEPT !.life = LifecycleFor(new)]
                         ELSE IF ~Known(u.dm[d]) THEN NoState
                         ELSE IF bare.life = "none" THEN [bare EXCEPT !.life = LifecycleFor(bare)]
                         ELSE bare
    BY DEF MirrorOf
  <1> HIDE DEF new, bare
  <1>7. LifecycleFor(new) \in NodeStatus /\ LifecycleFor(bare) \in NodeStatus
    BY <1>5, LifecycleType
  <1>8. /\ [new EXCEPT !.life = LifecycleFor(new)] \in State
        /\ [bare EXCEPT !.life = LifecycleFor(bare)] \in State
    BY <1>3, <1>4, <1>7 DEF State
  <1>9. MirrorOf(u, d) \in State BY <1>4, <1>6, <1>8, NothingTypes
  <1>10. u.dm[d] = NoNode /\ u.rt[d] = NoData => MirrorOf(u, d) = NoState
    BY <1>6, NothingTypes
  <1> QED BY <1>9, <1>10

\* rebuildStateMirror shows nothing of a removed device.
LEMMA Rebuilt ==
  ASSUME NEW u \in UiType, Bare(u.tomb, u.dm, u.rt)
  PROVE  /\ Sound(RebuildStateMirror(u))
         /\ RebuildStateMirror(u).rt = u.rt
  <1> DEFINE v == RebuildStateMirror(u)
             mirror == [d \in Devices |-> MirrorOf(u, d)]
  <1>1. mirror \in [Devices -> State] BY MirrorType
  <1>2. /\ v \in UiType /\ v.dm = u.dm /\ v.rt = u.rt /\ v.tomb = u.tomb /\ v.mirror = mirror
    BY <1>1 DEF RebuildStateMirror, UiType, State
  <1>3. u.tomb \subseteq Devices BY DEF UiType
  <1>4. \A d \in u.tomb : mirror[d] = NoState BY <1>3, MirrorType DEF Bare
  <1> HIDE DEF mirror, v
  <1>5. Hidden(v) BY <1>2, <1>4 DEF Bare, Hidden
  <1> QED BY <1>2, <1>5 DEF Sound, v

\* Another picture v, with its mirror rebuilt.
LEMMA Changed ==
  ASSUME NEW u, NEW v \in UiType, Bare(v.tomb, v.dm, v.rt), Forward(u.rt, v.rt)
  PROVE  Sound(RebuildStateMirror(v)) /\ NotBack(u, RebuildStateMirror(v))
  <1>1. Sound(RebuildStateMirror(v)) /\ RebuildStateMirror(v).rt = v.rt BY Rebuilt
  <1> QED BY <1>1 DEF NotBack

\* The parts of the picture.
LEMMA Parts ==
  ASSUME NEW u, Sound(u)
  PROVE  /\ u \in UiType /\ u.dm \in [Devices -> Node] /\ u.rt \in [Devices -> Data]
         /\ u.tomb \in SUBSET Devices
         /\ \A d \in Devices : u.dm[d] \in Node /\ u.rt[d] \in Data /\ u.rt[d].node \in Node
         /\ \A d \in u.tomb : u.dm[d] = NoNode /\ u.rt[d] = NoData
  <1>1. /\ u \in UiType /\ u.dm \in [Devices -> Node] /\ u.rt \in [Devices -> Data]
        /\ u.tomb \in SUBSET Devices
    BY DEF Sound, UiType
  <1>2. \A d \in Devices : u.dm[d] \in Node /\ u.rt[d] \in Data BY <1>1
  <1>3. \A d \in Devices : u.rt[d].node \in Node BY <1>2 DEF Data
  <1> QED BY <1>1, <1>2, <1>3 DEF Sound, Hidden, Bare

\* The number of the sample shown.
LEMMA SampleType == \A x \in Data : Sample(x) \in Nat
  <1> TAKE x \in Data
  <1>1. x.node \in Node BY DEF Data
  <1>2. x.node.n \in 0 .. MaxSample BY <1>1 DEF Node
  <1> QED BY <1>2 DEF Sample

\* Values that stay are not older.
LEMMA ForwardSame ==
  ASSUME NEW old \in [Devices -> Data], NEW new,
         \A d \in Devices : old[d].points /\ new[d].points => Sample(new[d]) = Sample(old[d])
  PROVE  Forward(old, new)
  <1>1. \A d \in Devices : Sample(old[d]) \in Nat BY SampleType
  <1>2. \A n \in Nat : n >= n OBVIOUS
  <1>3. \A d \in Devices : Sample(old[d]) >= Sample(old[d]) BY <1>1, <1>2
  <1> QED BY <1>3 DEF Forward

\* buildRealtimeDeviceData
LEMMA BuiltType ==
  ASSUME NEW k \in 0 .. MaxSample, NEW bad \in BOOLEAN, NEW age
  PROVE  /\ BuildRealtimeDeviceData(k, bad, age) \in Data
         /\ BuildRealtimeDeviceData(k, bad, age).node \in Node
         /\ Sample(BuildRealtimeDeviceData(k, bad, age)) = k
         /\ BuildRealtimeDeviceData(k, bad, age).points
  <1> DEFINE e == EvaluateDeviceStatus(k, bad, age)
             node == [status |-> e.status, online |-> e.online, n |-> k]
  <1>1. /\ e.status \in {"offline", "stale", "online"} /\ e.online \in BOOLEAN
        /\ e.state \in {"offline", "stale", "normal"}
    BY DEF EvaluateDeviceStatus
  <1>2. BuildRealtimeDeviceData(k, bad, age) =
          [node |-> node, points |-> TRUE, off |-> FALSE, state |-> e.state]
    BY DEF BuildRealtimeDeviceData
  <1> HIDE DEF e
  <1>3. node \in Node /\ node.n = k BY <1>1 DEF Node, NodeStatus
  <1> HIDE DEF node
  <1> QED BY <1>1, <1>2, <1>3 DEF Data, Sample

\* upsertRealtimeData takes no sample of a removed device and none that is older than
\* the one shown.
LEMMA LatestPointsSound ==
  ASSUME NEW u, Sound(u), NEW pts \in [Devices -> 0 .. MaxSample], NEW bad, NEW age
  PROVE  /\ Sound(OnLatestPointsMessage(u, pts, bad, age))
         /\ NotBack(u, OnLatestPointsMessage(u, pts, bad, age))
  <1> DEFINE data(d) == BuildRealtimeDeviceData(pts[d], pts[d] \in bad, age)
             new(d)  == IF Accepts(u, d, pts[d]) THEN UpsertRealtimeData(u, d, data(d)) ELSE u
             rt == [d \in Devices |-> new(d).rt[d]]
             dm == [d \in Devices |-> new(d).dm[d]]
             v  == [u EXCEPT !.rt = rt, !.dm = dm]
  <1>1. OnLatestPointsMessage(u, pts, bad, age) = RebuildStateMirror(v)
    BY DEF OnLatestPointsMessage
  <1>2. /\ u \in UiType /\ u.dm \in [Devices -> Node] /\ u.rt \in [Devices -> Data]
        /\ u.tomb \in SUBSET Devices
        /\ \A d \in Devices : u.dm[d] \in Node /\ u.rt[d] \in Data /\ u.rt[d].node \in Node
        /\ \A d \in u.tomb : u.dm[d] = NoNode /\ u.rt[d] = NoData
    BY Parts
  <1>3. ASSUME NEW d \in Devices
        PROVE  /\ data(d) \in Data /\ data(d).node \in Node /\ Sample(data(d)) = pts[d]
               /\ data(d).points
    <2>1. pts[d] \in 0 .. MaxSample /\ (pts[d] \in bad) \in BOOLEAN OBVIOUS
    <2> QED BY <2>1, BuiltType
  <1> HIDE DEF data
  <1>4. ASSUME NEW d \in Devices, Accepts(u, d, pts[d])
        PROVE  rt[d] = data(d) /\ dm[d] = data(d).node
    <2>1. new(d) = UpsertRealtimeData(u, d, data(d)) BY <1>4
    <2>2. new(d).rt[d] = data(d) /\ new(d).dm[d] = data(d).node
      BY <1>2, <2>1 DEF UpsertRealtimeData, UiType
    <2> HIDE DEF new
    <2> QED BY <2>2
  <1>5. ASSUME NEW d \in Devices, ~Accepts(u, d, pts[d]) PROVE rt[d] = u.rt[d] /\ dm[d] = u.dm[d]
    BY <1>5
  <1>6. rt \in [Devices -> Data] /\ dm \in [Devices -> Node]
    <2>1. \A d \in Devices : rt[d] \in Data /\ dm[d] \in Node BY <1>2, <1>3, <1>4, <1>5
    <2>2. rt = [d \in Devices |-> rt[d]] /\ dm = [d \in Devices |-> dm[d]] OBVIOUS
    <2> HIDE DEF rt, dm
    <2> QED BY <2>1, <2>2
  <1> HIDE DEF rt, dm
  <1>7. v \in UiType /\ v.dm = dm /\ v.rt = rt /\ v.tomb = u.tomb BY <1>2, <1>6 DEF UiType
  <1>8. Bare(u.tomb, dm, rt)
    <2>1. \A d \in u.tomb : d \in Devices /\ ~Accepts(u, d, pts[d])
      BY <1>2 DEF Accepts, IsDeletedDevice
    <2> QED BY <1>2, <1>5, <2>1 DEF Bare
  <1>9. ASSUME NEW d \in Devices, u.rt[d].points PROVE Sample(rt[d]) >= Sample(u.rt[d])
    <2>1. Sample(u.rt[d]) \in Nat BY <1>2, SampleType
    <2>2. CASE Accepts(u, d, pts[d])
      <3>1. Sample(rt[d]) = pts[d] BY <1>3, <1>4, <2>2
      <3>2. ~(pts[d] < Sample(u.rt[d])) BY <1>9, <2>2 DEF Accepts, Sample
      <3>3. pts[d] \in Nat OBVIOUS
      <3> QED BY <2>1, <3>1, <3>2, <3>3
    <2>3. CASE ~Accepts(u, d, pts[d]) BY <1>5, <2>1, <2>3
    <2> QED BY <2>2, <2>3
  <1>10. Forward(u.rt, rt) BY <1>9 DEF Forward
  <1> HIDE DEF v
  <1> QED BY <1>1, <1>2, <1>6, <1>7, <1>8, <1>10, Changed

\* onDevicesSnapshotMessage brings back no removed device, and leaves devices with
\* values their samples.
LEMMA DevicesSnapshotSound ==
  ASSUME NEW u, Sound(u), NEW r \in [Devices -> Node]
  PROVE  Sound(OnDevicesSnapshotMessage(u, r)) /\ NotBack(u, OnDevicesSnapshotMessage(u, r))
  <1> DEFINE listed == Listed(u, r)
             dm == [d \in Devices |-> IF Known(u.rt[d].node) THEN u.rt[d].node
                                      ELSE IF d \in listed THEN r[d] ELSE u.dm[d]]
             rt == [d \in Devices |->
                      IF d \in u.tomb THEN NoData
                      ELSE IF d \notin listed \/ u.rt[d].points THEN u.rt[d]
                      ELSE [u.rt[d] EXCEPT !.node = r[d], !.state = StateOf(r[d].status)]]
             v  == [u EXCEPT !.dm = dm, !.rt = rt]
  <1>2. /\ u \in UiType /\ u.dm \in [Devices -> Node] /\ u.rt \in [Devices -> Data]
        /\ u.tomb \in SUBSET Devices
        /\ \A d \in Devices : u.dm[d] \in Node /\ u.rt[d] \in Data /\ u.rt[d].node \in Node
        /\ \A d \in u.tomb : u.dm[d] = NoNode /\ u.rt[d] = NoData
    BY Parts
  <1>1. OnDevicesSnapshotMessage(u, r) = RebuildStateMirror(v)
    BY <1>2 DEF OnDevicesSnapshotMessage, UiType
  <1>3. dm \in [Devices -> Node] BY <1>2
  <1>4. \A d \in Devices :
          /\ [u.rt[d] EXCEPT !.node = r[d], !.state = StateOf(r[d].status)] \in Data
          /\ [u.rt[d] EXCEPT !.node = r[d], !.state = StateOf(r[d].status)].points = u.rt[d].points
    <2> TAKE d \in Devices
    <2>1. StateOf(r[d].status) \in {"offline", "normal", "unknown"} BY DEF StateOf
    <2>2. u.rt[d] \in Data /\ r[d] \in Node BY <1>2
    <2> QED BY <2>1, <2>2 DEF Data
  <1>5. rt \in [Devices -> Data] BY <1>2, <1>4, NothingTypes
  <1>6. v \in UiType /\ v.dm = dm /\ v.rt = rt /\ v.tomb = u.tomb BY <1>2, <1>3, <1>5 DEF UiType
  <1>7. Bare(u.tomb, dm, rt)
    <2>1. \A d \in u.tomb : d \in Devices /\ d \notin listed BY <1>2 DEF Listed, IsDeletedDevice
    <2> QED BY <1>2, <2>1, NothingTypes DEF Bare
  <1>8. Forward(u.rt, rt)
    <2>1. ASSUME NEW d \in Devices, u.rt[d].points PROVE rt[d] = u.rt[d]
      <3>1. d \notin u.tomb BY <1>2, <2>1, NothingTypes
      <3> QED BY <2>1, <3>1
    <2> HIDE DEF rt
    <2> QED BY <1>2, <2>1, ForwardSame
  <1> HIDE DEF dm, rt, v
  <1> QED BY <1>1, <1>2, <1>3, <1>5, <1>6, <1>7, <1>8, Changed

\* removeDeviceData and forgetRemovedDevice
LEMMA RemovalSound ==
  ASSUME NEW u, Sound(u), NEW d \in Devices
  PROVE  /\ Sound(RemoveDeviceData(u, d)) /\ NotBack(u, RemoveDeviceData(u, d))
         /\ Sound(ForgetRemovedDevice(u, d)) /\ NotBack(u, ForgetRemovedDevice(u, d))
  <1>1. /\ u \in UiType /\ u.dm \in [Devices -> Node] /\ u.rt \in [Devices -> Data]
        /\ u.tomb \in SUBSET Devices
        /\ \A e \in Devices : u.dm[e] \in Node /\ u.rt[e] \in Data /\ u.rt[e].node \in Node
        /\ \A e \in u.tomb : u.dm[e] = NoNode /\ u.rt[e] = NoData
    BY Parts
  <1>2. Sound(RemoveDeviceData(u, d)) /\ NotBack(u, RemoveDeviceData(u, d))
    <2> DEFINE dm == [u.dm EXCEPT ![d] = NoNode]
               rt == [u.rt EXCEPT ![d] = NoData]
               tomb == u.tomb \cup {d}
               v == [u EXCEPT !.dm = dm, !.rt = rt, !.tomb = tomb]
    <2>1. RemoveDeviceData(u, d) = RebuildStateMirror(v)
      BY <1>1 DEF RemoveDeviceData, UiType
    <2>2. dm \in [Devices -> Node] /\ rt \in [Devices -> Data] /\ tomb \in SUBSET Devices
      BY <1>1, NothingTypes
    <2>3. Bare(tomb, dm, rt) BY <1>1 DEF Bare
    <2>4. Forward(u.rt, rt)
      <3>1. \A e \in Devices : rt[e] = NoData \/ rt[e] = u.rt[e] BY <1>1
      <3> HIDE DEF rt
      <3> QED BY <1>1, <3>1, NothingTypes, ForwardSame
    <2> HIDE DEF dm, rt, tomb
    <2>5. v \in UiType /\ v.dm = dm /\ v.rt = rt /\ v.tomb = tomb BY <1>1, <2>2 DEF UiType
    <2> HIDE DEF v
    <2> QED BY <1>1, <2>1, <2>2, <2>3, <2>4, <2>5, Changed
  <1>3. Sound(ForgetRemovedDevice(u, d)) /\ NotBack(u, ForgetRemovedDevice(u, d))
    <2> DEFINE tomb == u.tomb \ {d}
               v == [u EXCEPT !.tomb = tomb]
    <2>1. ForgetRemovedDevice(u, d) = RebuildStateMirror(v)
      BY <1>1 DEF ForgetRemovedDevice, UiType
    <2>2. v \in UiType /\ v.dm = u.dm /\ v.rt = u.rt /\ v.tomb = tomb BY <1>1 DEF UiType
    <2>3. tomb \in SUBSET Devices /\ Bare(tomb, u.dm, u.rt) BY <1>1 DEF Bare
    <2>4. Forward(u.rt, u.rt) BY <1>1, ForwardSame
    <2> HIDE DEF tomb, v
    <2> QED BY <1>1, <2>1, <2>2, <2>3, <2>4, Changed
  <1> QED BY <1>2, <1>3

\* removeMasterData and clearRuntimeData
LEMMA ClearingSound ==
  ASSUME NEW u, Sound(u)
  PROVE  /\ Sound(RemoveMasterData(u)) /\ NotBack(u, RemoveMasterData(u))
         /\ Sound(ClearRuntimeData(u)) /\ NotBack(u, ClearRuntimeData(u))
  <1>1. /\ u \in UiType /\ u.dm \in [Devices -> Node] /\ u.rt \in [Devices -> Data]
        /\ u.tomb \in SUBSET Devices
        /\ \A d \in Devices : u.dm[d] \in Node /\ u.rt[d] \in Data /\ u.rt[d].node \in Node
        /\ \A d \in u.tomb : u.dm[d] = NoNode /\ u.rt[d] = NoData
    BY Parts
  <1> DEFINE dm == [d \in Devices |-> NoNode]
             rt == [d \in Devices |-> NoData]
  <1>2. EmptyUi.dm = dm /\ EmptyUi.rt = rt BY DEF EmptyUi
  <1>3. dm \in [Devices -> Node] /\ rt \in [Devices -> Data] BY NothingTypes
  <1>4. \A d \in Devices : dm[d] = NoNode /\ rt[d] = NoData OBVIOUS
  <1> HIDE DEF dm, rt
  <1>5. Forward(u.rt, rt) BY <1>1, <1>4, NothingTypes, ForwardSame
  <1>6. Sound(RemoveMasterData(u)) /\ NotBack(u, RemoveMasterData(u))
    <2> DEFINE tomb == u.tomb \cup {d \in Devices : Known(u.rt[d].node)}
               v == [u EXCEPT !.dm = dm, !.rt = rt, !.tomb = tomb]
    <2>1. RemoveMasterData(u) = RebuildStateMirror(v)
      BY <1>1, <1>2 DEF RemoveMasterData, UiType
    <2>2. tomb \in SUBSET Devices BY <1>1
    <2> HIDE DEF tomb
    <2>3. v \in UiType /\ v.dm = dm /\ v.rt = rt /\ v.tomb = tomb BY <1>1, <1>3, <2>2 DEF UiType
    <2>4. Bare(tomb, dm, rt) BY <1>4, <2>2 DEF Bare
    <2> HIDE DEF v
    <2> QED BY <1>5, <2>1, <2>3, <2>4, Changed
  <1>7. Sound(ClearRuntimeData(u)) /\ NotBack(u, ClearRuntimeData(u))
    <2> DEFINE v == [u EXCEPT !.rt = rt]
    <2>1. ClearRuntimeData(u) = RebuildStateMirror(v) BY <1>2 DEF ClearRuntimeData
    <2>2. v \in UiType /\ v.dm = u.dm /\ v.rt = rt /\ v.tomb = u.tomb BY <1>1, <1>3 DEF UiType
    <2>3. Bare(u.tomb, u.dm, rt) BY <1>1, <1>4 DEF Bare
    <2> HIDE DEF v
    <2> QED BY <1>5, <2>1, <2>2, <2>3, Changed
  <1> QED BY <1>6, <1>7

\* markAllDevicesOffline
LEMMA OfflineSound ==
  ASSUME NEW u, Sound(u)
  PROVE  Sound(MarkAllDevicesOffline(u)) /\ NotBack(u, MarkAllDevicesOffline(u))
  <1>1. /\ u \in UiType /\ u.dm \in [Devices -> Node] /\ u.rt \in [Devices -> Data]
        /\ u.tomb \in SUBSET Devices
        /\ \A d \in Devices : u.dm[d] \in Node /\ u.rt[d] \in Data /\ u.rt[d].node \in Node
        /\ \A d \in u.tomb : u.dm[d] = NoNode /\ u.rt[d] = NoData
    BY Parts
  <1> DEFINE gone(node) == IF Known(node)
                           THEN [node EXCEPT !.online = FALSE, !.status = "service_offline"]
                           ELSE node
             cut(x) == IF Known(x.node)
                       THEN [x EXCEPT !.node = gone(x.node), !.off = TRUE, !.state = "offline"]
                       ELSE x
             dm == [d \in Devices |-> gone(u.dm[d])]
             rt == [d \in Devices |->
                      IF Known(u.rt[d].node)
                      THEN [u.rt[d] EXCEPT !.node = gone(@), !.off = TRUE, !.state = "offline"]
                      ELSE u.rt[d]]
             v  == [u EXCEPT !.dm = dm, !.rt = rt]
  <1>2. MarkAllDevicesOffline(u) = RebuildStateMirror(v)
    BY DEF MarkAllDevicesOffline
  <1>3. ASSUME NEW x \in Node PROVE gone(x) \in Node /\ gone(x).n = x.n
    BY DEF Node, NodeStatus
  <1>4. gone(NoNode) = NoNode BY NothingTypes
  <1> HIDE DEF gone
  <1>5. ASSUME NEW x \in Data PROVE cut(x) \in Data /\ Sample(cut(x)) = Sample(x)
    <2>1. x.node \in Node BY DEF Data
    <2>2. gone(x.node) \in Node /\ gone(x.node).n = x.node.n BY <1>3, <2>1
    <2> QED BY <2>2 DEF Data, Sample
  <1>6. cut(NoData) = NoData /\ \A d \in Devices : rt[d] = cut(u.rt[d]) BY NothingTypes
  <1> HIDE DEF cut, rt
  <1>7. dm \in [Devices -> Node] /\ rt \in [Devices -> Data]
    <2>1. rt = [d \in Devices |-> rt[d]] BY DEF rt
    <2> QED BY <1>1, <1>3, <1>5, <1>6, <2>1
  <1>8. Bare(u.tomb, dm, rt) BY <1>1, <1>4, <1>6 DEF Bare
  <1>9. Forward(u.rt, rt)
    <2>1. \A d \in Devices : Sample(rt[d]) = Sample(u.rt[d]) BY <1>1, <1>5, <1>6
    <2> QED BY <1>1, <2>1, ForwardSame
  <1> HIDE DEF dm, rt
  <1>10. v \in UiType /\ v.dm = dm /\ v.rt = rt /\ v.tomb = u.tomb BY <1>1, <1>7 DEF UiType
  <1> HIDE DEF v
  <1> QED BY <1>2, <1>8, <1>9, <1>10, Changed

\* refreshOfflineStates
LEMMA RefreshSound ==
  ASSUME NEW u, Sound(u), NEW age
  PROVE  /\ Sound(RefreshOfflineStates(u, age)) /\ NotBack(u, RefreshOfflineStates(u, age))
         /\ SameSamples(u, RefreshOfflineStates(u, age))
  <1>1. /\ u \in UiType /\ u.dm \in [Devices -> Node] /\ u.rt \in [Devices -> Data]
        /\ u.tomb \in SUBSET Devices
        /\ \A d \in Devices : u.dm[d] \in Node /\ u.rt[d] \in Data /\ u.rt[d].node \in Node
        /\ \A d \in u.tomb : u.dm[d] = NoNode /\ u.rt[d] = NoData
    BY Parts
  <1> DEFINE ds == Misjudged(u, age)
             late(k) == IF k > 0 /\ age[k] = "offline" THEN "offline" ELSE "stale"
             judged(d) == [u.rt[d] EXCEPT !.node.online = ~u.dm[d].online,
                             !.state = IF u.dm[d].online THEN late(u.rt[d].node.n) ELSE @]
             dm == [d \in Devices |-> IF d \in ds THEN [u.dm[d] EXCEPT !.online = ~@] ELSE u.dm[d]]
             rt == [d \in Devices |-> IF d \in ds /\ Known(u.rt[d].node) THEN judged(d)
                                      ELSE u.rt[d]]
             v  == [u EXCEPT !.dm = dm, !.rt = rt]
  <1>2. CASE ds = {}
    <2>1. RefreshOfflineStates(u, age) = u BY <1>2 DEF RefreshOfflineStates
    <2>2. Forward(u.rt, u.rt) BY <1>1, ForwardSame
    <2> QED BY <2>1, <2>2 DEF NotBack, SameSamples
  <1>3. CASE ds # {}
    <2>1. RefreshOfflineStates(u, age) = RebuildStateMirror(v)
      BY <1>3 DEF RefreshOfflineStates
    <2>2. ASSUME NEW x \in Node PROVE [x EXCEPT !.online = ~@] \in Node BY DEF Node
    <2>3. ASSUME NEW d \in Devices
          PROVE  /\ judged(d) \in Data /\ Sample(judged(d)) = Sample(u.rt[d])
                 /\ judged(d).points = u.rt[d].points
      <3>1. late(u.rt[d].node.n) \in {"offline", "stale"} OBVIOUS
      <3> HIDE DEF late
      <3>2. u.rt[d] \in Data /\ u.rt[d].node \in Node BY <1>1
      <3>3. (~u.dm[d].online) \in BOOLEAN OBVIOUS
      <3>4. (IF u.dm[d].online THEN late(u.rt[d].node.n) ELSE u.rt[d].state)
              \in {"none", "normal", "offline", "stale", "unknown"}
        BY <3>1, <3>2 DEF Data
      <3>5. [u.rt[d].node EXCEPT !.online = ~u.dm[d].online] \in Node BY <3>2, <3>3 DEF Node
      <3>6. [u.rt[d].node EXCEPT !.online = ~u.dm[d].online].n = u.rt[d].node.n
        BY <3>2 DEF Node
      <3> QED BY <3>2, <3>4, <3>5, <3>6 DEF Data, Sample
    <2> HIDE DEF judged
    <2>4. dm \in [Devices -> Node] /\ rt \in [Devices -> Data] BY <1>1, <2>2, <2>3
    <2>5. Bare(u.tomb, dm, rt)
      <3>1. \A d \in u.tomb : d \in Devices /\ d \notin ds BY <1>1, NothingTypes DEF Misjudged
      <3> HIDE DEF ds
      <3> QED BY <1>1, <3>1 DEF Bare
    <2>6. Forward(u.rt, rt)
      <3>1. \A d \in Devices : Sample(rt[d]) = Sample(u.rt[d]) BY <2>3
      <3> HIDE DEF rt
      <3> QED BY <1>1, <3>1, ForwardSame
    <2> HIDE DEF dm, rt
    <2>7. v \in UiType /\ v.dm = dm /\ v.rt = rt /\ v.tomb = u.tomb BY <1>1, <2>4 DEF UiType
    <2> HIDE DEF v
    <2>8. Sound(RebuildStateMirror(v)) /\ NotBack(u, RebuildStateMirror(v))
      BY <2>5, <2>6, <2>7, Changed
    <2>9. SameSamples(u, RebuildStateMirror(v))
      <3>1. RebuildStateMirror(v).rt = rt BY <2>5, <2>7, Rebuilt
      <3>2. \A d \in Devices : rt[d].points = u.rt[d].points /\ Sample(rt[d]) = Sample(u.rt[d])
        BY <2>3 DEF rt
      <3> QED BY <3>1, <3>2 DEF SameSamples
    <2> QED BY <2>1, <2>8, <2>9
  <1> QED BY <1>2, <1>3


\* The watchdog refreshes and then cuts off: it changes no sample.
LEMMA WatchdogSound ==
  ASSUME NEW u, Sound(u), NEW age
  PROVE  /\ Sound(MarkAllDevicesOffline(RefreshOfflineStates(u, age)))
         /\ NotBack(u, MarkAllDevicesOffline(RefreshOfflineStates(u, age)))
  <1> DEFINE v == RefreshOfflineStates(u, age)
             w == MarkAllDevicesOffline(v)
  <1>1. Sound(v) /\ SameSamples(u, v) BY RefreshSound
  <1> HIDE DEF v
  <1>2. Sound(w) /\ NotBack(v, w) BY <1>1, OfflineSound
  <1> HIDE DEF w
  <1>3. NotBack(u, w) BY <1>1, <1>2 DEF SameSamples, NotBack, Forward
  <1> QED BY <1>2, <1>3 DEF v, w

-----------------------------------------------------------------------------
(* Frames, senders and the pipe.                                           *)

\* The frames Pc_data makes.
LEMMA FrameTypes ==
  /\ \A type \in Types \ {"removed", "added"} : Plain(type) \in Frames
  /\ \A type \in Types : \A d \in Devices : About(type, {d}) \in Frames
  <1>1. 0 \in 0 .. MaxSample BY UiStateAssumption
  <1>2. NoPoints \in [Devices -> 0 .. MaxSample] BY <1>1 DEF NoPoints
  <1>3. NoReg \in [Devices -> Node] BY NothingTypes DEF NoReg
  <1>4. ASSUME NEW type \in Types, NEW ds \in SUBSET Devices
        PROVE  /\ About(type, ds) \in Messages /\ About(type, ds).type = type
               /\ About(type, ds).of = ds
    BY <1>2, <1>3 DEF About, Messages
  <1>5. ASSUME NEW type \in Types \ {"removed", "added"} PROVE Plain(type) \in Frames
    <2>1. Plain(type) \in Messages /\ Plain(type).type = type BY <1>4 DEF Plain
    <2> QED BY <2>1 DEF Frames
  <1>6. ASSUME NEW type \in Types, NEW d \in Devices PROVE About(type, {d}) \in Frames
    <2>1. About(type, {d}) \in Messages /\ About(type, {d}).of = {d} BY <1>4
    <2> QED BY <2>1 DEF Frames
  <1> QED BY <1>5, <1>6

\* What an idle thread is, and the jobs threads begin.
LEMMA JobTypes ==
  /\ NoMsg \in Frames /\ Idle \in Sender /\ Snapshots \in Seq(Frames) /\ <<>> \in Seq(Frames)
  /\ Plain("latest_points") \in Frames /\ Plain("devices_snapshot") \in Frames
  /\ Plain("not_done") \in Frames /\ Plain("master_removed") \in Frames
  /\ Plain("cleared") \in Frames
  <1>1. {"none", "latest_points", "devices_snapshot", "not_done", "master_removed", "cleared"}
          \subseteq Types \ {"removed", "added"}
    BY DEF Types
  <1>2. \A x \in {"none", "latest_points", "devices_snapshot", "not_done", "master_removed",
                  "cleared"} : Plain(x) \in Frames
    BY <1>1, FrameTypes
  <1>3. /\ Plain("latest_points") \in Frames /\ Plain("devices_snapshot") \in Frames
        /\ Plain("not_done") \in Frames /\ Plain("master_removed") \in Frames
        /\ Plain("cleared") \in Frames /\ NoMsg \in Frames
    BY <1>2 DEF NoMsg
  <1>4. Snapshots \in Seq(Frames) /\ <<>> \in Seq(Frames) BY <1>3 DEF Snapshots
  <1>5. Idle \in Sender BY <1>3, <1>4 DEF Idle, Sender
  <1> QED BY <1>3, <1>4, <1>5

\* What the parts of a frame are.
LEMMA FrameParts ==
  ASSUME NEW m \in Frames
  PROVE  /\ m.type \in Types /\ m.pts \in [Devices -> 0 .. MaxSample]
         /\ m.reg \in [Devices -> Node] /\ m.of \in SUBSET Devices
         /\ m.type \in {"removed", "added"} => \E d \in Devices : m.of = {d}
BY DEF Frames, Messages

\* The four operations on the pipe.
LEMMA PipeTypes ==
  ASSUME NEW p \in Pipe(Frames, Requests), Len(p.toUi) <= PipeMax
  PROVE  /\ \A m \in Frames : CanSend(p) => /\ ServerSend(p, m) \in Pipe(Frames, Requests)
                                            /\ Len(ServerSend(p, m).toUi) <= PipeMax
         /\ \A r \in Requests : /\ ClientSend(p, r) \in Pipe(Frames, Requests)
                                /\ ClientSend(p, r).toUi = p.toUi
         /\ p.toUi # <<>> => /\ ClientRead(p) \in Pipe(Frames, Requests)
                             /\ Len(ClientRead(p).toUi) <= PipeMax
                             /\ Head(p.toUi) \in Frames
         /\ p.toSvc # <<>> => /\ ServerRead(p) \in Pipe(Frames, Requests)
                              /\ ServerRead(p).toUi = p.toUi
  <1>1. p.up \in BOOLEAN /\ p.toUi \in Seq(Frames) /\ p.toSvc \in Seq(Requests) BY DEF Pipe
  <1>2. Len(p.toUi) \in Nat /\ PipeMax \in Nat BY <1>1, PipeAssumption
  <1>3. ASSUME NEW m \in Frames, CanSend(p)
        PROVE  /\ ServerSend(p, m) \in Pipe(Frames, Requests)
               /\ Len(ServerSend(p, m).toUi) <= PipeMax
    <2>1. CASE p.up
      <3>1. Append(p.toUi, m) \in Seq(Frames) /\ Len(Append(p.toUi, m)) = Len(p.toUi) + 1
        BY <1>1
      <3>2. Len(p.toUi) < PipeMax BY <1>3, <2>1 DEF CanSend
      <3>3. /\ ServerSend(p, m) \in Pipe(Frames, Requests)
            /\ ServerSend(p, m).toUi = Append(p.toUi, m)
        BY <2>1, <3>1 DEF ServerSend, Pipe
      <3> QED BY <1>2, <3>1, <3>2, <3>3
    <2>2. CASE ~p.up BY <2>2 DEF ServerSend
    <2> QED BY <2>1, <2>2
  <1>4. ASSUME NEW r \in Requests
        PROVE  /\ ClientSend(p, r) \in Pipe(Frames, Requests) /\ ClientSend(p, r).toUi = p.toUi
    <2>1. Append(p.toSvc, r) \in Seq(Requests) BY <1>1
    <2> QED BY <2>1 DEF ClientSend, Pipe
  <1>5. ASSUME p.toUi # <<>>
        PROVE  /\ ClientRead(p) \in Pipe(Frames, Requests) /\ Len(ClientRead(p).toUi) <= PipeMax
               /\ Head(p.toUi) \in Frames
    <2>1. /\ Tail(p.toUi) \in Seq(Frames) /\ Len(Tail(p.toUi)) = Len(p.toUi) - 1
          /\ Head(p.toUi) \in Frames
      BY <1>1, <1>5
    <2>2. ClientRead(p) \in Pipe(Frames, Requests) /\ ClientRead(p).toUi = Tail(p.toUi)
      BY <2>1 DEF ClientRead, Pipe
    <2> QED BY <1>2, <2>1, <2>2
  <1>6. ASSUME p.toSvc # <<>>
        PROVE  ServerRead(p) \in Pipe(Frames, Requests) /\ ServerRead(p).toUi = p.toUi
    <2>1. Tail(p.toSvc) \in Seq(Requests) BY <1>1, <1>6
    <2> QED BY <2>1 DEF ServerRead, Pipe
  <1> QED BY <1>3, <1>4, <1>5, <1>6

\* The pipe when it breaks and when it opens.
LEMMA PipeStarts ==
  /\ Broken \in Pipe(Frames, Requests) /\ Len(Broken.toUi) <= PipeMax
  /\ Opened \in Pipe(Frames, Requests) /\ Len(Opened.toUi) <= PipeMax
  <1>1. Broken \in Pipe(Frames, Requests) /\ Broken.toUi = <<>> BY DEF Broken, Pipe
  <1>2. Opened \in Pipe(Frames, Requests) /\ Opened.toUi = <<>>
    <2>1. Broken = [up |-> FALSE, toUi |-> <<>>, toSvc |-> <<>>] BY DEF Broken
    <2>2. Opened = [Broken EXCEPT !.up = TRUE] BY DEF Opened
    <2> QED BY <1>1, <2>1, <2>2 DEF Pipe
  <1>3. Len(<<>>) <= PipeMax BY PipeAssumption
  <1> QED BY <1>1, <1>2, <1>3

\* A thread begins to send.
LEMMA BeginsType ==
  ASSUME Typed, NEW t \in Threads, NEW jobs \in Seq(Frames), Begins(t, jobs)
  PROVE  thread' \in [Threads -> Sender]
  <1>1. thread \in [Threads -> Sender] BY DEF Typed
  <1>2. thread[t] \in Sender BY <1>1
  <1>3. [thread[t] EXCEPT !.todo = jobs] \in Sender BY <1>2 DEF Sender
  <1>4. thread' = [thread EXCEPT ![t] = [thread[t] EXCEPT !.todo = jobs]]
    BY <1>1 DEF Begins
  <1> QED BY <1>1, <1>3, <1>4

\* A node as a registration leaves it.
LEMMA RegisteredType ==
  ASSUME NEW st \in {"online", "offline", "unknown"}, NEW k \in 0 .. MaxSample
  PROVE  Registered(st, k) \in Node
BY DEF Registered, Node, NodeStatus

-----------------------------------------------------------------------------
(* The steps of Pc_data.                                                   *)

\* Pc_data receives a message of a gateway, or time passes.
LEMMA ServiceTyped ==
  ASSUME IInv, Service \/ TimePasses
  PROVE  Typed'
  <1>1. Typed BY DEF IInv
  <1>2. /\ samples \in Nat /\ samples \in 0 .. MaxSample /\ MaxSample \in Nat
        /\ ops \in 0 .. MaxOps /\ MaxOps \in Nat
    BY <1>1, UiStateAssumption, PcUiAssumption DEF Typed
  <1>3. Bounded => ops' \in 0 .. MaxOps BY <1>2 DEF Bounded
  <1>4. {"ipc", "mqtt", "publisher"} \subseteq Threads BY DEF Threads
  <1>5. ASSUME NEW d \in Devices, NEW st \in Statuses, Register(d, st) PROVE Typed'
    <2>1. st \in {"online", "offline", "unknown"} BY PcUiAssumption
    <2>2. Registered(st, samples) \in Node BY <1>2, <2>1, RegisteredType
    <2>3. reg' \in [Devices -> Node] BY <1>1, <1>5, <2>2 DEF Register, Typed
    <2>4. <<Plain("devices_snapshot"), Plain("latest_points")>> \in Seq(Frames) BY JobTypes
    <2>5. thread' \in [Threads -> Sender] BY <1>1, <1>4, <1>5, <2>4, BeginsType DEF Register
    <2>6. ops' \in 0 .. MaxOps BY <1>3, <1>5 DEF Register
    <2> QED BY <1>1, <1>5, <2>3, <2>5, <2>6 DEF Register, Typed, dataVars
  <1>6. ASSUME NEW d \in Devices, Telemetry(d) PROVE Typed'
    <2>1. samples' = samples + 1 /\ samples < MaxSample BY <1>6 DEF Telemetry
    <2>2. /\ samples' \in 0 .. MaxSample /\ 0 .. samples \subseteq 0 .. samples'
          /\ samples' \in 0 .. samples'
      BY <1>2, <2>1
    <2>3. aged' \in [stale : 0 .. samples', gone : 0 .. samples']
      <3>1. aged \in [stale : 0 .. samples, gone : 0 .. samples] BY <1>1 DEF Typed
      <3>2. aged' = aged BY <1>6 DEF Telemetry
      <3> QED BY <2>2, <3>1, <3>2
    <2>4. snap' \in [Devices -> 0 .. samples']
      <3>1. snap \in [Devices -> 0 .. samples] BY <1>1 DEF Typed
      <3>2. snap' = [snap EXCEPT ![d] = samples'] BY <1>6 DEF Telemetry
      <3>3. \A e \in Devices : snap'[e] \in 0 .. samples' BY <2>2, <3>1, <3>2
      <3>4. snap' = [e \in Devices |-> snap'[e]] BY <3>1, <3>2
      <3> QED BY <3>3, <3>4
    <2>5. dirty' \in BOOLEAN BY <1>6 DEF Telemetry
    <2> QED BY <1>1, <1>6, <2>2, <2>3, <2>4, <2>5 DEF Telemetry, Typed, bounds
  <1>7. ASSUME NEW d \in Devices, RemoveAck(d) PROVE Typed'
    <2>1. About("removed", {d}) \in Frames /\ About("forget", {d}) \in Frames
      BY FrameTypes DEF Types
    <2>2. <<About("removed", {d}), About("forget", {d})>> \o Snapshots
            \o <<About("removed", {d})>> \in Seq(Frames)
      <3>1. /\ <<About("removed", {d}), About("forget", {d})>> \in Seq(Frames)
            /\ <<About("removed", {d})>> \in Seq(Frames) /\ Snapshots \in Seq(Frames)
        BY <2>1, JobTypes
      <3> QED BY <3>1
    <2>3. thread' \in [Threads -> Sender] BY <1>1, <1>4, <1>7, <2>2, BeginsType DEF RemoveAck
    <2>4. ops' \in 0 .. MaxOps BY <1>3, <1>7 DEF RemoveAck
    <2> QED BY <1>1, <1>7, <2>3, <2>4 DEF RemoveAck, Typed, dataVars, svcVars
  <1>8. ASSUME NEW d \in Devices, AddAck(d) PROVE Typed'
    <2>1. About("added", {d}) \in Frames /\ About("pending_snapshot", {d}) \in Frames
      BY FrameTypes DEF Types
    <2>2. <<About("added", {d}), About("pending_snapshot", {d}), Plain("devices_snapshot"),
            Plain("latest_points"), About("added", {d})>> \in Seq(Frames)
      BY <2>1, JobTypes
    <2>3. thread' \in [Threads -> Sender] BY <1>1, <1>4, <1>8, <2>2, BeginsType DEF AddAck
    <2>4. ops' \in 0 .. MaxOps BY <1>3, <1>8 DEF AddAck
    <2> QED BY <1>1, <1>8, <2>3, <2>4 DEF AddAck, Typed, dataVars, svcVars
  <1>9. CASE TimePasses
    <2>1. aged \in [stale : 0 .. samples, gone : 0 .. samples] /\ samples \in 0 .. samples
      BY <1>1, <1>2 DEF Typed
    <2>2. aged' \in [stale : 0 .. samples, gone : 0 .. samples]
      BY <1>9, <2>1 DEF TimePasses
    <2> QED BY <1>1, <1>9, <2>2 DEF TimePasses, Typed, svcVars, bounds
  <1> QED BY <1>5, <1>6, <1>7, <1>8, <1>9 DEF Service

\* A frame is read from memory.
LEMMA BuildTyped ==
  ASSUME IInv, NEW t \in Threads, Build(t)
  PROVE  Typed'
  <1>1. Typed BY DEF IInv
  <1> DEFINE job == Head(thread[t].todo)
             msg == CASE job.type = "latest_points"    -> SendLatestPoints(job)
                      [] job.type = "devices_snapshot" -> SendDevicesSnapshot(job)
                      [] job.type = "pending_snapshot" -> SendDevicesSnapshotWithPendingDevice(job)
                      [] OTHER                         -> job
  <1>2. thread[t] \in Sender /\ thread \in [Threads -> Sender] BY <1>1 DEF Typed
  <1>3. thread[t].todo \in Seq(Frames) /\ thread[t].todo # <<>> BY <1>2 DEF Sender, Build
  <1>4. job \in Frames /\ Tail(thread[t].todo) \in Seq(Frames) BY <1>3
  <1>5. thread' = [thread EXCEPT ![t] = [todo |-> Tail(thread[t].todo), msg |-> msg]]
    BY <1>2 DEF Build
  <1> HIDE DEF job
  <1>6. job \in Messages BY <1>4 DEF Frames
  <1>7. snap \in [Devices -> 0 .. MaxSample]
    <2>1. 0 .. samples \subseteq 0 .. MaxSample /\ snap \in [Devices -> 0 .. samples]
      BY <1>1, UiStateAssumption DEF Typed
    <2> QED BY <2>1
  <1>8. ASSUME job.type = "latest_points" PROVE msg \in Frames
    <2>1. msg = SendLatestPoints(job) BY <1>8
    <2>2. msg \in Messages /\ msg.type = "latest_points"
      BY <1>6, <1>7, <1>8, <2>1 DEF SendLatestPoints, Messages
    <2> HIDE DEF msg
    <2> QED BY <2>2 DEF Frames
  <1>9. ASSUME job.type = "devices_snapshot" PROVE msg \in Frames
    <2>1. msg = SendDevicesSnapshot(job) BY <1>9
    <2>2. reg \in [Devices -> Node] BY <1>1 DEF Typed
    <2>3. msg \in Messages /\ msg.type = "devices_snapshot"
      BY <1>6, <1>9, <2>1, <2>2 DEF SendDevicesSnapshot, Messages
    <2> HIDE DEF msg
    <2> QED BY <2>3 DEF Frames
  <1>10. ASSUME job.type = "pending_snapshot" PROVE msg \in Frames
    <2>1. msg = SendDevicesSnapshotWithPendingDevice(job) BY <1>10
    <2> DEFINE r == [d \in Devices |-> IF d \in job.of /\ ~Known(reg[d])
                                       THEN Registered("unknown", 0) ELSE reg[d]]
    <2>2. reg \in [Devices -> Node] BY <1>1 DEF Typed
    <2>3. 0 \in 0 .. MaxSample BY UiStateAssumption
    <2>4. Registered("unknown", 0) \in Node BY <2>3, RegisteredType
    <2>5. r \in [Devices -> Node] BY <2>2, <2>4
    <2>6. msg = [job EXCEPT !.type = "devices_snapshot", !.of = {}, !.reg = r]
      BY <2>1 DEF SendDevicesSnapshotWithPendingDevice
    <2> HIDE DEF r, msg
    <2>7. msg \in Messages /\ msg.type = "devices_snapshot"
      BY <1>6, <2>5, <2>6 DEF Messages, Types
    <2> QED BY <2>7 DEF Frames
  <1>11. ASSUME job.type \notin {"latest_points", "devices_snapshot", "pending_snapshot"}
         PROVE  msg \in Frames
    BY <1>4, <1>11
  <1>12. msg \in Frames BY <1>8, <1>9, <1>10, <1>11
  <1> HIDE DEF msg
  <1>13. [todo |-> Tail(thread[t].todo), msg |-> msg] \in Sender BY <1>4, <1>12 DEF Sender
  <1>14. thread' \in [Threads -> Sender] BY <1>2, <1>5, <1>13
  <1> QED BY <1>1, <1>14 DEF Build, Typed, dataVars, svcVars, bounds

\* A frame is written to the pipe; the callback thread forgets a device.
LEMMA SendTyped ==
  ASSUME IInv, (\E t \in Threads : Send(t)) \/ MqForget
  PROVE  Typed'
  <1>1. Typed BY DEF IInv
  <1>2. thread \in [Threads -> Sender] /\ pipe \in Pipe(Frames, Requests)
        /\ Len(pipe.toUi) <= PipeMax
    BY <1>1 DEF Typed
  <1>3. ASSUME NEW t \in Threads, Send(t) PROVE Typed'
    <2>1. thread[t] \in Sender /\ thread[t].msg \in Frames BY <1>2 DEF Sender
    <2>2. pipe' \in Pipe(Frames, Requests) /\ Len(pipe'.toUi) <= PipeMax
      BY <1>2, <1>3, <2>1, PipeTypes DEF Send
    <2>3. thread' \in [Threads -> Sender]
      <3>1. [thread[t] EXCEPT !.msg = NoMsg] \in Sender BY <2>1, JobTypes DEF Sender
      <3>2. thread' = [thread EXCEPT ![t] = [thread[t] EXCEPT !.msg = NoMsg]]
        BY <1>2, <1>3 DEF Send
      <3> QED BY <1>2, <3>1, <3>2
    <2>4. dirty' \in BOOLEAN
      <3>1. dirty \in BOOLEAN BY <1>1 DEF Typed
      <3> QED BY <1>3, <3>1 DEF Send
    <2> QED BY <1>1, <1>3, <2>2, <2>3, <2>4 DEF Send, Typed, dataVars, bounds
  <1>4. CASE MqForget
    <2> DEFINE todo == thread["mqtt"].todo
    <2>1. "mqtt" \in Threads BY DEF Threads
    <2>2. thread["mqtt"] \in Sender /\ todo \in Seq(Frames) /\ todo # <<>>
      BY <1>2, <1>4, <2>1 DEF Sender, MqForget
    <2>3. Tail(todo) \in Seq(Frames) /\ <<Plain("not_done")>> \in Seq(Frames) BY <2>2, JobTypes
    <2>4. thread' \in [Threads -> Sender]
      <3>1. \E q \in Seq(Frames) : thread' = [thread EXCEPT !["mqtt"].todo = q]
        BY <1>4, <2>3 DEF MqForget
      <3>2. PICK q \in Seq(Frames) : thread' = [thread EXCEPT !["mqtt"].todo = q] BY <3>1
      <3>3. [thread["mqtt"] EXCEPT !.todo = q] \in Sender BY <2>2 DEF Sender
      <3>4. thread' = [thread EXCEPT !["mqtt"] = [thread["mqtt"] EXCEPT !.todo = q]]
        BY <1>2, <2>1, <3>2
      <3> QED BY <1>2, <3>3, <3>4
    <2>5. snap' \in [Devices -> 0 .. samples]
      <3>1. snap \in [Devices -> 0 .. samples] /\ 0 \in 0 .. samples BY <1>1 DEF Typed
      <3> QED BY <1>4, <3>1 DEF MqForget
    <2> QED BY <1>1, <1>4, <2>4, <2>5 DEF MqForget, Typed, dataVars, bounds
  <1> QED BY <1>3, <1>4

\* The publisher looks at the flag; the IPC thread takes a request and answers.
LEMMA AnswerTyped ==
  ASSUME IInv, LatestPublisher \/ IpReceive
  PROVE  Typed'
  <1>1. Typed BY DEF IInv
  <1>2. /\ thread \in [Threads -> Sender] /\ pipe \in Pipe(Frames, Requests)
        /\ Len(pipe.toUi) <= PipeMax
    BY <1>1 DEF Typed
  <1>3. "ipc" \in Threads /\ "publisher" \in Threads BY DEF Threads
  <1>4. CASE LatestPublisher
    <2> DEFINE jobs == IF pipe.up THEN <<Plain("latest_points")>> ELSE <<>>
    <2>1. jobs \in Seq(Frames)
      <3>1. <<Plain("latest_points")>> \in Seq(Frames) /\ <<>> \in Seq(Frames) BY JobTypes
      <3> QED BY <3>1
    <2>2. Begins("publisher", jobs) BY <1>4 DEF LatestPublisher
    <2> HIDE DEF jobs
    <2>3. thread' \in [Threads -> Sender] BY <1>1, <1>3, <2>1, <2>2, BeginsType
    <2>4. dirty' \in BOOLEAN BY <1>4 DEF LatestPublisher
    <2> QED BY <1>1, <1>4, <2>3, <2>4 DEF LatestPublisher, Typed, dataVars, bounds
  <1>5. CASE IpReceive
    <2>1. ASSUME NEW x \in {"master_removed", "not_done", "cleared"}
          PROVE  <<Plain(x)>> \o Snapshots \in Seq(Frames)
      <3>1. <<Plain(x)>> \in Seq(Frames) /\ Snapshots \in Seq(Frames) BY JobTypes
      <3> QED BY <3>1
    <2>2. \E jobs \in Seq(Frames) : Begins("ipc", jobs)
      <3>1. Snapshots \in Seq(Frames) BY JobTypes
      <3>2. \/ Begins("ipc", Snapshots)
            \/ \E x \in {"master_removed", "not_done", "cleared"} :
                  Begins("ipc", <<Plain(x)>> \o Snapshots)
        BY <1>5 DEF IpReceive
      <3> QED BY <2>1, <3>1, <3>2
    <2>3. PICK jobs \in Seq(Frames) : Begins("ipc", jobs) BY <2>2
    <2>4. thread' \in [Threads -> Sender] BY <1>1, <1>3, <2>3, BeginsType
    <2>5. pipe.toSvc # <<>> /\ pipe' = ServerRead(pipe) BY <1>5 DEF IpReceive
    <2>6. pipe' \in Pipe(Frames, Requests) /\ Len(pipe'.toUi) <= PipeMax
      BY <1>2, <2>5, PipeTypes
    <2>7. snap' \in [Devices -> 0 .. samples]
      <3>1. snap \in [Devices -> 0 .. samples] /\ samples \in 0 .. MaxSample BY <1>1 DEF Typed
      <3>2. 0 \in 0 .. samples BY <3>1, UiStateAssumption
      <3>3. NoPoints \in [Devices -> 0 .. samples] BY <3>2 DEF NoPoints
      <3>4. snap' = snap \/ snap' = NoPoints BY <1>5 DEF IpReceive
      <3> QED BY <3>1, <3>3, <3>4
    <2>8. reg' \in [Devices -> Node]
      <3>1. reg \in [Devices -> Node] /\ NoReg \in [Devices -> Node]
        BY <1>1, NothingTypes DEF Typed, NoReg
      <3>2. reg' = reg \/ reg' = NoReg BY <1>5 DEF IpReceive
      <3> QED BY <3>1, <3>2
    <2>9. UNCHANGED <<samples, aged, dirty, ops, breaks>>
      BY <1>5 DEF IpReceive, dataVars, bounds
    <2> QED BY <1>1, <2>4, <2>6, <2>7, <2>8, <2>9 DEF Typed
  <1> QED BY <1>4, <1>5

-----------------------------------------------------------------------------
(* The steps of Pc_ui.                                                     *)

\* Pc_ui reads a frame, asks for a snapshot, sends a request, or a timer of it fires.
LEMMA UiTyped ==
  ASSUME IInv,
         \/ UiReceive \/ UiPull \/ UiWatchdog \/ UiSilence \/ UiConnect \/ PipeBreaks
         \/ \E r \in {"delete_master_data", "clear_all_data"} : UiRequest(r)
  PROVE  Typed'
  <1>1. Typed BY DEF IInv
  <1>2. /\ pipe \in Pipe(Frames, Requests) /\ Len(pipe.toUi) <= PipeMax
        /\ ops \in 0 .. MaxOps /\ MaxOps \in Nat /\ breaks \in 0 .. MaxBreaks /\ MaxBreaks \in Nat
    BY <1>1, PcUiAssumption DEF Typed
  <1>3. ASSUME breaks < MaxBreaks, breaks' = breaks + 1 PROVE breaks' \in 0 .. MaxBreaks
    BY <1>2, <1>3
  <1>4. {"full_snapshot", "delete_master_data", "clear_all_data"} \subseteq Requests
    BY DEF Requests
  <1>5. CASE UiReceive
    <2> DEFINE p == ClientRead(pipe)
    <2>1. pipe.toUi # <<>> BY <1>5 DEF UiReceive
    <2>2. p \in Pipe(Frames, Requests) /\ Len(p.toUi) <= PipeMax BY <1>2, <2>1, PipeTypes
    <2>3. pipe' = p \/ pipe' = ClientSend(p, "full_snapshot")
      BY <1>5 DEF UiReceive, RequestFullSnapshot
    <2> HIDE DEF p
    <2>4. /\ ClientSend(p, "full_snapshot") \in Pipe(Frames, Requests)
          /\ ClientSend(p, "full_snapshot").toUi = p.toUi
      BY <1>4, <2>2, PipeTypes
    <2>5. pipe' \in Pipe(Frames, Requests) /\ Len(pipe'.toUi) <= PipeMax
      BY <2>2, <2>3, <2>4
    <2> QED BY <1>1, <1>5, <2>5 DEF UiReceive, Typed, dataVars, svcVars, bounds
  <1>6. CASE UiPull
    <2>1. pipe' = ClientSend(pipe, "full_snapshot") BY <1>6 DEF UiPull, RequestFullSnapshot
    <2>2. pipe' \in Pipe(Frames, Requests) /\ Len(pipe'.toUi) <= PipeMax
      BY <1>2, <1>4, <2>1, PipeTypes
    <2> QED BY <1>1, <1>6, <2>2 DEF UiPull, Typed, dataVars, svcVars, bounds
  <1>7. CASE UiWatchdog BY <1>1, <1>7 DEF UiWatchdog, Typed, dataVars, svcVars, bounds
  <1>8. CASE UiSilence
    <2>1. breaks' \in 0 .. MaxBreaks BY <1>3, <1>8 DEF UiSilence
    <2> QED BY <1>1, <1>8, <2>1 DEF UiSilence, Typed, dataVars, svcVars
  <1>9. CASE UiConnect
    <2>1. <<Plain("devices_snapshot"), Plain("latest_points")>> \in Seq(Frames) BY JobTypes
    <2>2. "ipc" \in Threads BY DEF Threads
    <2>3. thread' \in [Threads -> Sender] BY <1>1, <1>9, <2>1, <2>2, BeginsType DEF UiConnect
    <2>4. pipe' \in Pipe(Frames, Requests) /\ Len(pipe'.toUi) <= PipeMax
      BY <1>9, PipeStarts DEF UiConnect
    <2> QED BY <1>1, <1>9, <2>3, <2>4 DEF UiConnect, Typed, dataVars, svcVars, bounds
  <1>10. CASE PipeBreaks
    <2>1. breaks' \in 0 .. MaxBreaks BY <1>3, <1>10 DEF PipeBreaks
    <2>2. pipe' \in Pipe(Frames, Requests) /\ Len(pipe'.toUi) <= PipeMax
      BY <1>10, PipeStarts DEF PipeBreaks
    <2> QED BY <1>1, <1>10, <2>1, <2>2 DEF PipeBreaks, Typed, dataVars, svcVars
  <1>11. ASSUME NEW r \in {"delete_master_data", "clear_all_data"}, UiRequest(r) PROVE Typed'
    <2>1. pipe' \in Pipe(Frames, Requests) /\ Len(pipe'.toUi) <= PipeMax
      BY <1>2, <1>4, <1>11, PipeTypes DEF UiRequest
    <2>2. ops' \in 0 .. MaxOps BY <1>2, <1>11 DEF UiRequest, Bounded
    <2> QED BY <1>1, <1>11, <2>1, <2>2 DEF UiRequest, Typed, dataVars, svcVars
  <1> QED BY <1>5, <1>6, <1>7, <1>8, <1>9, <1>10, <1>11

\* A frame that Pc_ui handles brings back no removed device and no older value.
LEMMA ReceiveSound ==
  ASSUME IInv, UiReceive
  PROVE  Sound(ui') /\ NotBack(ui, ui')
  <1> DEFINE m == Head(pipe.toUi)
  <1>1. /\ Sound(ui) /\ pipe \in Pipe(Frames, Requests) /\ Len(pipe.toUi) <= PipeMax
        /\ pipe.toUi # <<>>
    BY DEF IInv, Typed, UiReceive
  <1>2. m \in Frames BY <1>1, PipeTypes
  <1>3. ui' = CASE m.type = "latest_points"    -> OnLatestPointsMessage(ui, m.pts, Bad, Old)
                [] m.type = "devices_snapshot" -> OnDevicesSnapshotMessage(ui, m.reg)
                [] m.type = "removed"          -> Removed(ui, m.of)
                [] m.type = "added"            -> Added(ui, m.of)
                [] m.type = "master_removed"   -> RemoveMasterData(ui)
                [] m.type = "cleared"          -> ClearRuntimeData(ui)
                [] OTHER                       -> ui
    BY DEF UiReceive
  <1> HIDE DEF m
  <1>4. /\ m.pts \in [Devices -> 0 .. MaxSample] /\ m.reg \in [Devices -> Node]
        /\ m.type \in {"removed", "added"} => \E d \in Devices : m.of = {d}
    BY <1>2, FrameParts
  <1>5. CASE m.type = "latest_points"
    <2>1. ui' = OnLatestPointsMessage(ui, m.pts, Bad, Old) BY <1>3, <1>5
    <2> QED BY <1>1, <1>4, <2>1, LatestPointsSound
  <1>6. CASE m.type = "devices_snapshot"
    <2>1. ui' = OnDevicesSnapshotMessage(ui, m.reg) BY <1>3, <1>6
    <2> QED BY <1>1, <1>4, <2>1, DevicesSnapshotSound
  <1>7. CASE m.type = "removed"
    <2>1. PICK d \in Devices : m.of = {d} BY <1>4, <1>7
    <2>2. (CHOOSE x \in m.of : TRUE) = d BY <2>1
    <2>3. ui' = RemoveDeviceData(ui, d) BY <1>3, <1>7, <2>2 DEF Removed
    <2> QED BY <1>1, <2>3, RemovalSound
  <1>8. CASE m.type = "added"
    <2>1. PICK d \in Devices : m.of = {d} BY <1>4, <1>8
    <2>2. (CHOOSE x \in m.of : TRUE) = d BY <2>1
    <2>3. ui' = ForgetRemovedDevice(ui, d) BY <1>3, <1>8, <2>2 DEF Added
    <2> QED BY <1>1, <2>3, RemovalSound
  <1>9. CASE m.type = "master_removed"
    <2>1. ui' = RemoveMasterData(ui) BY <1>3, <1>9
    <2> QED BY <1>1, <2>1, ClearingSound
  <1>10. CASE m.type = "cleared"
    <2>1. ui' = ClearRuntimeData(ui) BY <1>3, <1>10
    <2> QED BY <1>1, <2>1, ClearingSound
  <1>11. CASE m.type \notin {"latest_points", "devices_snapshot", "removed", "added",
                             "master_removed", "cleared"}
    <2>1. ui' = ui BY <1>3, <1>11
    <2>2. ui.rt \in [Devices -> Data] BY <1>1, Parts
    <2>3. Forward(ui.rt, ui.rt) BY <2>2, ForwardSame
    <2> QED BY <1>1, <2>1, <2>3 DEF NotBack
  <1> QED BY <1>5, <1>6, <1>7, <1>8, <1>9, <1>10, <1>11

\* No step brings back a removed device or an older value.
LEMMA StepSound ==
  ASSUME IInv, [Next]_vars
  PROVE  Sound(ui') /\ NotBack(ui, ui')
  <1>1. Sound(ui) BY DEF IInv
  <1>2. CASE UiReceive BY <1>2, ReceiveSound
  <1>3. CASE UiWatchdog
    <2>1. \/ ui' = RefreshOfflineStates(ui, Old)
          \/ ui' = MarkAllDevicesOffline(RefreshOfflineStates(ui, Old))
      BY <1>3 DEF UiWatchdog
    <2> QED BY <1>1, <2>1, RefreshSound, WatchdogSound
  <1>4. CASE UiSilence
    <2>1. ui' = MarkAllDevicesOffline(RefreshOfflineStates(ui, Old)) BY <1>4 DEF UiSilence
    <2> QED BY <1>1, <2>1, WatchdogSound
  <1>5. CASE PipeBreaks
    <2>1. ui' = MarkAllDevicesOffline(ui) BY <1>5 DEF PipeBreaks
    <2> QED BY <1>1, <2>1, OfflineSound
  <1>6. CASE ui' = ui
    <2>1. ui.rt \in [Devices -> Data] BY <1>1, Parts
    <2>2. Forward(ui.rt, ui.rt) BY <2>1, ForwardSame
    <2> QED BY <1>1, <1>6, <2>2 DEF NotBack
  <1>7. ASSUME Service \/ TimePasses PROVE ui' = ui
    BY <1>7 DEF Service, TimePasses, Register, Telemetry, RemoveAck, AddAck
  <1>8. ASSUME IpcThread \/ MqttThread \/ Publisher PROVE ui' = ui
    BY <1>8 DEF IpcThread, MqttThread, Publisher, IpReceive, Build, Send, MqForget, LatestPublisher
  <1>9. ASSUME NEW r, UiPull \/ UiConnect \/ UiRequest(r) PROVE ui' = ui
    BY <1>9 DEF UiPull, UiConnect, UiRequest
  <1>10. CASE UNCHANGED vars BY <1>6, <1>10 DEF vars
  <1> QED BY <1>2, <1>3, <1>4, <1>5, <1>6, <1>7, <1>8, <1>9, <1>10 DEF Next

-----------------------------------------------------------------------------
(* The invariant and what follows from it.                                 *)

\* Every thread of Pc_data is idle and Pc_ui knows nothing when they start.
LEMMA InitHolds == Init => IInv
  <1> SUFFICES ASSUME Init PROVE IInv OBVIOUS
  <1>1. 0 \in 0 .. MaxSample /\ 0 \in 0 .. 0 /\ 0 \in 0 .. MaxOps /\ 0 \in 0 .. MaxBreaks
    BY UiStateAssumption, PcUiAssumption
  <1>2. samples = 0 /\ aged \in [stale : 0 .. samples, gone : 0 .. samples] BY <1>1 DEF Init
  <1>3. reg \in [Devices -> Node]
    <2>1. ASSUME NEW st \in Statuses PROVE Registered(st, 0) \in Node
      <3>1. st \in {"online", "offline", "unknown"} BY PcUiAssumption
      <3> QED BY <1>1, <3>1, RegisteredType
    <2>2. {NoNode} \cup {Registered(st, 0) : st \in Statuses} \subseteq Node
      BY <2>1, NothingTypes
    <2> QED BY <2>2 DEF Init
  <1>4. snap \in [Devices -> 0 .. samples] BY <1>1 DEF Init, NoPoints
  <1>5. thread \in [Threads -> Sender] BY JobTypes DEF Init
  <1>6. pipe \in Pipe(Frames, Requests) /\ Len(pipe.toUi) <= PipeMax BY PipeStarts DEF Init
  <1>7. Typed BY <1>1, <1>2, <1>3, <1>4, <1>5, <1>6 DEF Init, Typed
  <1>8. Sound(ui)
    <2>1. [d \in Devices |-> NoNode] \in [Devices -> Node] BY NothingTypes
    <2>2. [d \in Devices |-> NoData] \in [Devices -> Data] BY NothingTypes
    <2>3. [d \in Devices |-> NoState] \in [Devices -> State] BY NothingTypes
    <2>4. EmptyUi \in UiType /\ EmptyUi.tomb = {} BY <2>1, <2>2, <2>3 DEF EmptyUi, UiType, State
    <2> QED BY <2>4 DEF Init, Sound, Hidden, Bare
  <1> QED BY <1>7, <1>8 DEF IInv

\* Every step keeps the invariant.
LEMMA NextKeeps == IInv /\ [Next]_vars => IInv'
  <1> SUFFICES ASSUME IInv, [Next]_vars PROVE IInv' OBVIOUS
  <1>1. Sound(ui') BY StepSound
  <1>2. "ipc" \in Threads /\ "mqtt" \in Threads /\ "publisher" \in Threads BY DEF Threads
  <1>3. Typed'
    <2>1. CASE Service \/ TimePasses BY <2>1, ServiceTyped
    <2>2. CASE IpcThread BY <1>2, <2>2, AnswerTyped, BuildTyped, SendTyped DEF IpcThread
    <2>3. CASE MqttThread BY <1>2, <2>3, BuildTyped, SendTyped DEF MqttThread
    <2>4. CASE Publisher BY <1>2, <2>4, AnswerTyped, BuildTyped, SendTyped DEF Publisher
    <2>5. CASE \/ UiReceive \/ UiPull \/ UiWatchdog \/ UiSilence \/ UiConnect \/ PipeBreaks
               \/ \E r \in {"delete_master_data", "clear_all_data"} : UiRequest(r)
      BY <2>5, UiTyped
    <2>6. CASE UNCHANGED vars
      BY <2>6 DEF IInv, Typed, vars, dataVars, svcVars, bounds
    <2> QED BY <2>1, <2>2, <2>3, <2>4, <2>5, <2>6 DEF Next
  <1> QED BY <1>1, <1>3 DEF IInv

\* The frames under way are ones Pc_data makes, and removed devices have no data and are
\* not shown, at every step of the system.
THEOREM Inductive == Spec => []IInv
  <1>1. Init => IInv BY InitHolds
  <1>2. IInv /\ [Next]_vars => IInv' BY NextKeeps
  <1> QED BY <1>1, <1>2, PTL DEF Spec

\* Every variable keeps its type, the pipe included, which never holds more than PipeMax
\* frames (IpcServer::sendMessage).
THEOREM TypeCorrect == Spec => []TypeOK
  <1>1. IInv => TypeOK
    <2> SUFFICES ASSUME IInv PROVE TypeOK OBVIOUS
    <2>1. Frames \subseteq Messages BY DEF Frames
    <2>2. Seq(Frames) \subseteq Seq(Messages) BY <2>1
    <2>3. thread \in [Threads -> Sender] /\ pipe \in Pipe(Frames, Requests) BY DEF IInv, Typed
    <2>4. thread \in [Threads -> [todo : Seq(Messages), msg : Messages]]
      <3>1. Sender \subseteq [todo : Seq(Messages), msg : Messages] BY <2>1, <2>2 DEF Sender
      <3> QED BY <2>3, <3>1
    <2>5. pipe \in Pipe(Messages, Requests) BY <2>2, <2>3 DEF Pipe
    <2>6. ui \in UiType BY DEF IInv, Sound
    <2> QED BY <2>4, <2>5, <2>6 DEF IInv, Typed, TypeOK
  <1> QED BY <1>1, Inductive, PTL

\* A removed device is nowhere in Pc_ui until it is added again, whichever snapshots of
\* which threads of Pc_data are still on their way (DataManager::isDeletedDevice).
THEOREM RemovedAreHidden == Spec => []RemovedStaysHidden
  <1>1. IInv => RemovedStaysHidden BY DEF IInv, Sound, Hidden, Bare, RemovedStaysHidden
  <1> QED BY <1>1, Inductive, PTL

\* The values shown of a device never go back to an older sample, in whatever order the
\* snapshots arrive (DataManager::upsertRealtimeData).
THEOREM ValuesAdvance == Spec => ValuesDoNotGoBack
  <1> DEFINE Step == \A d \in Devices : ui.rt[d].points /\ ui'.rt[d].points =>
                                            ui'.rt[d].node.n >= ui.rt[d].node.n
  <1>1. IInv /\ [Next]_vars => Step
    <2> SUFFICES ASSUME IInv, [Next]_vars PROVE Step OBVIOUS
    <2>1. NotBack(ui, ui') BY StepSound
    <2> QED BY <2>1 DEF NotBack, Forward, Sample
  <1>2. IInv /\ [Next]_vars => [Step]_vars BY <1>1
  <1> HIDE DEF Step
  <1>3. Spec => [][Step]_vars BY <1>2, Inductive, PTL DEF Spec
  <1> QED BY <1>3 DEF Step, ValuesDoNotGoBack
=============================================================================
