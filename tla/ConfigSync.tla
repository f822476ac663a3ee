------------------------------ MODULE ConfigSync ------------------------------
(***************************************************************************)
(* Linux_data/data/data_config_sync.c: the gateway's registration cache.   *)
(* Every registration message (gateway, port, device, full configuration   *)
(* snapshot) that is published is also recorded here until Pc_data has     *)
(* acknowledged it.  One record is active (g_sync.pending_seq etc.) and is *)
(* retried by the tick; the others wait in g_pending_queue, an array of    *)
(* slots that is NOT a FIFO: a free slot is refilled lowest index first.   *)
(*                                                                         *)
(* All the functions below run under g_sync_lock, so each is one action.   *)
(* The environment of this module is any peer: an acknowledgement may      *)
(* carry any sequence number, in any order and any number of times, but    *)
(* it can only echo a configuration version that the gateway has issued.   *)
(* RegisterLink composes the module with Pc_data and the MQTT links.       *)
(***************************************************************************)
EXTENDS Naturals

CONSTANTS RegisterCmds,    \* the registrations of the instance, see MarkedCmds
          PENDING_MAX,     \* slots of g_pending_queue (8 in the code)
          MAX_FAST_RETRY,  \* CONFIG_SYNC_MAX_FAST_RETRY_COUNT (3)
          SeqBase,         \* initial g_sync_seq (50000); commands' numbers are below
          Editions,        \* configurations a payload may have been exported from
          MaxSeq,          \* bound on g_sync_seq, hence on the number of retries
          MaxVersion       \* bound on config_version

ASSUME RegisterCmdsAssumption ==
         RegisterCmds \subseteq {"gateway_register", "port_register", "device_register"}
ASSUME PendingMaxAssumption  == PENDING_MAX \in Nat \ {0}
ASSUME FastRetryAssumption   == MAX_FAST_RETRY \in Nat
ASSUME SeqAssumption         == SeqBase \in Nat \ {0} /\ MaxSeq \in Nat
ASSUME VersionAssumption     == MaxVersion \in Nat
ASSUME EditionsAssumption    == Editions \subseteq Nat

VARIABLES config_version,            \* g_sync.config_version
          last_acked_config_version, \* g_sync.last_acked_config_version
          last_acked_snapshot,       \* g_sync.last_acked_snapshot
          active,                    \* g_sync.pending_{seq,cmd,snapshot}, or None
          queue,                     \* g_pending_queue
          retry_count,               \* g_sync.retry_count
          retryable,                 \* g_sync.retryable
          status,                    \* g_sync.status
          age,                       \* now - g_sync.last_send_time_ms, by threshold
          sync_seq,                  \* g_sync_seq
          connected                  \* mqtt_is_connected(): set once, never reset

trackVars == <<active, queue, retry_count, retryable, age>>
gateVars  == <<config_version, last_acked_config_version, last_acked_snapshot>>
syncVars  == <<trackVars, gateVars, status, sync_seq, connected>>

-----------------------------------------------------------------------------
Slots        == 1 .. PENDING_MAX
SnapshotCmds == {"config_snapshot", "device_config_snapshot"}

\* The commands the gateway records with data_config_sync_mark_sent or
\* data_config_sync_publish_latest_snapshot; the code treats its three
\* registrations alike.
MarkedCmds == RegisterCmds \cup {"config_snapshot"}

\* string_in_register_cmds: the commands whose acknowledgements are looked at.
AckCmds == RegisterCmds \cup SnapshotCmds \cup {"port_status"}

\* A recorded message: edition is the configuration its payload was exported
\* from, version the "configVersion" member of the payload (0: no such member).
Entry == [seq : Nat \ {0}, cmd : MarkedCmds, edition : Nat, version : Nat]
None  == [seq |-> 0, cmd |-> "none", edition |-> 0, version |-> 0]

Ack == [seq : Nat, cmd : AckCmds, ok : BOOLEAN, retryable : BOOLEAN, version : Nat]

\* publish_state_locked shows this status on the gateway's screen.  "failed"
\* stands for "failed" and "partial_failed".
Statuses == {"idle", "syncing", "offline", "success", "failed", "timeout", "retrying"}

\* The time since the last send, against CONFIG_SYNC_ACK_TIMEOUT_MS (late) and
\* CONFIG_SYNC_RETRY_INTERVAL_MS (due).
Ages == {"fresh", "late", "due"}

SameKey(e, f)  == e.seq = f.seq /\ e.cmd = f.cmd
Used(q)        == {i \in Slots : q[i] # None}
Hits(q, k)     == {i \in Used(q) : SameKey(q[i], k)}
IsFirst(i, S)  == i \in S /\ \A j \in S : i <= j

-----------------------------------------------------------------------------
\* set_active_pending_locked
SetActive(e) ==
  /\ active' = e
  /\ retry_count' = 0
  /\ retryable' = TRUE
  /\ age' = "fresh"

\* Mutants of Enqueue: no search for the key; a full queue overwrites slot 1.
MutEnqueueBlind(e) ==
  LET free == Slots \ Used(queue)
  IN  IF free # {}
      THEN \E i \in Slots : IsFirst(i, free) /\ queue' = [queue EXCEPT ![i] = e]
      ELSE queue' = queue

MutEnqueueEvicts(e) ==
  LET free == Slots \ Used(queue)
      room == IF free = {} THEN {1} ELSE free
  IN  \E i \in Slots : IsFirst(i, room) /\ queue' = [queue EXCEPT ![i] = e]

\* enqueue_pending_locked: overwrite the slot with the same key, else take the
\* first free slot, else drop the record (the callers ignore the result).
Enqueue(e) ==
  LET hits == Hits(queue, e)
      free == Slots \ Used(queue)
  IN  IF hits # {}
      THEN \E i \in Slots : IsFirst(i, hits) /\ queue' = [queue EXCEPT ![i] = e]
      ELSE IF free # {}
      THEN \E i \in Slots : IsFirst(i, free) /\ queue' = [queue EXCEPT ![i] = e]
      ELSE queue' = queue

\* Mutant of PromoteNext: the active record is cleared and nothing promoted.
MutPromoteNothing(q, keptRetryable, keptCount) ==
  /\ active' = None
  /\ queue' = q
  /\ retryable' = keptRetryable
  /\ retry_count' = keptCount
  /\ age' = age

\* promote_next_pending_locked on the queue q, when there is no active record.
PromoteNext(q, keptRetryable, keptCount) ==
  IF Used(q) = {}
  THEN /\ active' = None
       /\ queue' = q
       /\ retryable' = keptRetryable
       /\ retry_count' = keptCount
       /\ age' = age
  ELSE \E i \in Slots : /\ IsFirst(i, Used(q))
                        /\ SetActive(q[i])
                        /\ queue' = [q EXCEPT ![i] = None]

\* Mutant of RemoveQueued: only the number of the slot is cleared.
MutRemoveQueuedSeq(q, k) ==
  [i \in Slots |-> IF IsFirst(i, Hits(q, k)) THEN [q[i] EXCEPT !.seq = 0] ELSE q[i]]

\* remove_queued_pending_locked: the first slot with the key k is cleared.
RemoveQueued(q, k) ==
  [i \in Slots |-> IF IsFirst(i, Hits(q, k)) THEN None ELSE q[i]]

\* The tail shared by mark_sent and publish_latest_snapshot.
Track(e) ==
  /\ IF active = None \/ SameKey(active, e)
     THEN SetActive(e) /\ UNCHANGED queue
     ELSE Enqueue(e) /\ UNCHANGED <<active, retry_count, retryable, age>>
  /\ status' = IF connected THEN "syncing" ELSE "offline"
  /\ UNCHANGED <<last_acked_config_version, last_acked_snapshot, connected>>

-----------------------------------------------------------------------------
Init ==
  /\ config_version = 0
  /\ last_acked_config_version = 0
  /\ last_acked_snapshot = FALSE
  /\ active = None
  /\ queue = [i \in Slots |-> None]
  /\ retry_count = 0
  /\ retryable = TRUE
  /\ status = "idle"
  /\ age = "fresh"
  /\ sync_seq = SeqBase
  /\ connected = FALSE

\* data_config_sync_mark_sent: called after a registration, or the partial
\* snapshot get_config asks for, has been handed to the MQTT wrapper.
MarkSent(seq, cmd, edition) ==
  LET v == IF cmd \in SnapshotCmds THEN config_version + 1 ELSE config_version
  IN  /\ config_version' = IF v = 0 THEN 1 ELSE v
      /\ Track([seq |-> seq, cmd |-> cmd, edition |-> edition, version |-> 0])
      /\ UNCHANGED sync_seq

\* data_config_sync_publish_latest_snapshot, after the export of the snapshot:
\* the version is advanced, stamped into the payload and the payload recorded.
PublishLatestSnapshot(seq, edition) ==
  /\ config_version' = config_version + 1
  /\ Track([seq |-> seq, cmd |-> "config_snapshot",
            edition |-> edition, version |-> config_version'])
  /\ UNCHANGED sync_seq

\* Mutant of AckIgnored: an acknowledgement of a queued snapshot is ignored too.
MutAckIgnoredQueued(a) ==
  a.cmd \in SnapshotCmds /\ a.seq # 0 /\ active # None /\ a.seq # active.seq

\* A snapshot acknowledgement for neither the active nor a queued record is
\* ignored while some record is active.
AckIgnored(a) ==
  /\ a.cmd \in SnapshotCmds
  /\ a.seq # 0
  /\ active # None
  /\ a.seq # active.seq
  /\ Hits(queue, a) = {}

\* Mutant of AckStatus: one positive acknowledgement shows "success".
MutAckStatusEager(a) == IF a.ok THEN "success" ELSE "failed"

\* The status data_config_sync_handle_ack_json leaves, from what is still recorded.
AckStatus(a) ==
  IF ~a.ok THEN "failed" ELSE IF active' # None THEN "syncing" ELSE "success"

\* data_config_sync_handle_ack_json.  A queued record is removed whatever the
\* verdict is; retryable is taken from every acknowledgement that is not ignored.
HandleAck(a) ==
  LET activeMatch == a.seq # 0 /\ SameKey(active, a)
      snapshotAck == a.cmd \in SnapshotCmds
      q == IF ~activeMatch /\ a.seq # 0 THEN RemoveQueued(queue, a) ELSE queue
  IN  IF AckIgnored(a)
      THEN UNCHANGED syncVars
      ELSE /\ IF a.ok /\ snapshotAck
              THEN /\ last_acked_config_version' = IF a.version > 0 THEN a.version
                                                   ELSE config_version
                   /\ last_acked_snapshot' = TRUE
              ELSE UNCHANGED <<last_acked_config_version, last_acked_snapshot>>
           /\ IF a.ok /\ (activeMatch \/ (snapshotAck /\ active = None))
              THEN PromoteNext(q, a.retryable, 0)
              ELSE /\ queue' = q
                   /\ retryable' = a.retryable
                   /\ retry_count' = IF a.ok THEN 0 ELSE retry_count
                   /\ UNCHANGED <<active, age>>
           /\ status' = AckStatus(a)
           /\ UNCHANGED <<config_version, sync_seq, connected>>

\* Mutant of Resent: the payload keeps its version.
MutResentAsRecorded(seq) == [active EXCEPT !.seq = seq]

\* send_pending_locked: the payload of the active record is rewritten with a new
\* sequence number and with the CURRENT configuration version.
Resent(seq) == [active EXCEPT !.seq = seq, !.version = config_version]

\* data_config_sync_tick, until the retry is due.
TickWait ==
  /\ ~(connected /\ active # None /\ retryable /\ age = "due")
  /\ IF active = None
     THEN PromoteNext(queue, retryable, retry_count)
     ELSE UNCHANGED trackVars
  /\ status' = IF active' = None THEN status
               ELSE IF ~connected THEN "offline"
               ELSE IF retryable' /\ age' = "late" THEN "timeout"
               ELSE status
  /\ UNCHANGED <<gateVars, sync_seq, connected>>

\* data_config_sync_tick, when the retry is due.
TickRetry ==
  /\ connected /\ active # None /\ retryable /\ age = "due"
  /\ retry_count' = retry_count + 1
  /\ sync_seq' = sync_seq + 1
  /\ status' = IF retry_count' > MAX_FAST_RETRY THEN "retrying" ELSE "timeout"
  /\ active' = Resent(sync_seq')
  /\ age' = "fresh"
  /\ UNCHANGED <<queue, retryable, gateVars, connected>>

\* data_config_sync_next_seq: a number for a port_status, or for the registrations
\* of the connections restored at the start, which are recorded later.
NextSeq ==
  /\ sync_seq' = sync_seq + 1
  /\ UNCHANGED <<trackVars, gateVars, status, connected>>

\* The clock passes one of the two thresholds.
Elapse ==
  /\ age' = CASE age = "fresh" -> "late" [] age = "late" -> "due" [] OTHER -> age
  /\ age # "due"
  /\ UNCHANGED <<active, queue, retry_count, retryable, gateVars, status,
                 sync_seq, connected>>

\* mqtt_poll: the first successful mqtt_connect.
Connect ==
  /\ ~connected
  /\ connected' = TRUE
  /\ UNCHANGED <<trackVars, gateVars, status, sync_seq>>

-----------------------------------------------------------------------------
\* What a peer can answer: it knows no version the gateway has not issued, and
\* no retry number the gateway has not used.  A version is looked at only in a
\* positive acknowledgement of a snapshot.
EchoableAcks ==
  [seq : 0 .. sync_seq, cmd : AckCmds, ok : BOOLEAN, retryable : BOOLEAN, version : {0}]
  \cup [seq : 0 .. sync_seq, cmd : SnapshotCmds, ok : {TRUE}, retryable : BOOLEAN,
        version : 1 .. config_version]

\* Numbers come from the commands' senders, from g_gateway_seq or from NextSeq.
Command ==
  /\ config_version < MaxVersion
  /\ \E seq \in 1 .. sync_seq, e \in Editions :
       \/ \E cmd \in MarkedCmds : MarkSent(seq, cmd, e)
       \/ PublishLatestSnapshot(seq, e)

Next ==
  \/ Command
  \/ \E a \in EchoableAcks : HandleAck(a)
  \/ TickWait
  \/ sync_seq < MaxSeq /\ (TickRetry \/ NextSeq)
  \/ Elapse
  \/ Connect

Spec == Init /\ [][Next]_syncVars

-----------------------------------------------------------------------------
TypeOK ==
  /\ config_version \in Nat
  /\ last_acked_config_version \in Nat
  /\ last_acked_snapshot \in BOOLEAN
  /\ active \in Entry \cup {None}
  /\ queue \in [Slots -> Entry \cup {None}]
  /\ retry_count \in Nat
  /\ retryable \in BOOLEAN
  /\ status \in Statuses
  /\ age \in Ages
  /\ sync_seq \in Nat
  /\ connected \in BOOLEAN

\* Mutant of TelemetryAllowed: any acknowledged snapshot opens the gate for good.
MutTelemetryAllowedOnce == last_acked_config_version > 0 /\ last_acked_snapshot

\* data_config_sync_telemetry_allowed: telemetry and device status leave the
\* gateway only while this holds.
TelemetryAllowed ==
  /\ last_acked_config_version > 0
  /\ last_acked_config_version = config_version
  /\ last_acked_snapshot

\* Nothing waits in g_pending_queue while there is no active record: every path
\* that clears the active record promotes the next one under the same lock.
NothingWaitsWhileIdle == active = None => Used(queue) = {}

\* No two records, active or queued, share sequence number and command: an
\* acknowledgement retires exactly one record.
KeysAreUnique ==
  /\ \A i, j \in Used(queue) : SameKey(queue[i], queue[j]) => i = j
  /\ \A i \in Used(queue) : ~SameKey(queue[i], active)

\* Retry numbers are fresh: no record carries one that has not been issued.
SeqsIssued ==
  /\ sync_seq >= SeqBase
  /\ active.seq <= sync_seq
  /\ \A i \in Slots : queue[i].seq <= sync_seq

\* The gateway never takes a version for acknowledged that it has not issued, so
\* that a new snapshot always closes the telemetry gate.
AckedVersionIssued == last_acked_config_version <= config_version

\* The "success" shown on the screen means no record is left to acknowledge.
SuccessMeansDrained == status = "success" => active = None /\ Used(queue) = {}

\* A record leaves the cache only through an acknowledgement that carries its own
\* key, or by a retry, which gives it a new number; the active record, only if
\* the acknowledgement is positive.
Keys(a, q) == {<<e.seq, e.cmd>> : e \in {a} \cup {q[i] : i \in Used(q)}}
              \ {<<None.seq, None.cmd>>}

OnlyItsAckRetires ==
  [][ \A k \in Keys(active, queue) \ Keys(active', queue') :
        \/ TickRetry /\ k = <<active.seq, active.cmd>>
        \/ \E ok, r \in BOOLEAN, v \in 0 .. config_version :
              /\ HandleAck([seq |-> k[1], cmd |-> k[2], ok |-> ok, retryable |-> r,
                            version |-> v])
              /\ k = <<active.seq, active.cmd>> => ok ]_syncVars

\* A new configuration closes the telemetry gate until its own acknowledgement.
NewVersionClosesGate ==
  [][config_version' # config_version => ~TelemetryAllowed']_syncVars
=============================================================================
