----------------------------- MODULE RegisterLink -----------------------------
(***************************************************************************)
(* The registration protocol end to end: the gateway's registration cache  *)
(* (ConfigSync) driven by the gateway's threads, the two MQTT directions   *)
(* (FIFO, QoS 0: a message may be lost, none is duplicated or reordered)   *)
(* and Pc_data's register handlers, which save and acknowledge.            *)
(*                                                                         *)
(* A gateway thread does not publish and record a registration in one      *)
(* step, nor export and publish a snapshot: the acknowledgement, or the    *)
(* step of another thread, may fall in between.                            *)
(*                                                                         *)
(* Pc_data acknowledges gateway_register and config_snapshot on            *)
(* cmd/<gateway>, the others on cmd/<gateway>/<port>; mqtt_message_handler *)
(* passes on only the latter.  AcceptedTopics is {"port"} in the code and  *)
(* {"gateway", "port"} for the topic rule of README.md.                    *)
(***************************************************************************)
EXTENDS ConfigSync, Sequences

CONSTANTS Commanders,      \* threads that execute commands: "ipc", "rx"
          AcceptedTopics,  \* topics mqtt_message_handler passes on
          MaxEdition,      \* bound on the number of configuration changes
          MaxFaults        \* bound on lost messages and failed saves

ASSUME CommandersAssumption == Commanders \subseteq {"ipc", "rx"}
ASSUME TopicsAssumption     == AcceptedTopics \subseteq {"gateway", "port"}
ASSUME LinkCmdsAssumption   == {"gateway_register", "device_register"} \subseteq RegisterCmds
ASSUME LinkBoundsAssumption == MaxEdition \in Nat /\ MaxFaults \in Nat
\* Command numbers: 1 .. MaxEdition for commands, two more for the connection.
ASSUME LinkSeqAssumption    == SeqBase = MaxEdition + 2

VARIABLES edition,     \* the configuration PortManager holds, as a change count
          th,          \* what each gateway thread is doing
          up,          \* gateway/register, towards Pc_data
          down,        \* cmd/<gateway>[/<port>], towards the gateway
          pc_editions, \* the editions that Pc_data's rows for the gateway come from
          pc_version,  \* configVersion of the last snapshot it saved completely
          faults       \* messages lost and saves failed so far

linkVars == <<edition, th, up, down, pc_editions, pc_version, faults>>
vars     == <<syncVars, linkVars>>

Threads == Commanders \cup {"poll"}

Idle == [step |-> "idle", cmd |-> "none", seq |-> 0, exported |-> 0]

LinkInit ==
  /\ Init
  /\ edition = 0
  /\ th = [t \in Threads |-> Idle]
  /\ up = <<>> /\ down = <<>>
  /\ pc_editions = {0} /\ pc_version = 0
  /\ faults = 0

Goto(t, step) == th' = [th EXCEPT ![t].step = step]

\* offline_publish_or_cache for a registration: sent if MQTT is connected, and
\* otherwise gone, since OfflineCachePolicy keeps no registration.
Send(m) == up' = IF connected THEN Append(up, m) ELSE up

\* remove_device and set_device_threshold go straight to the snapshot; add_device
\* and connect_port register first.
BeginCommand(t) ==
  /\ th[t].step = "idle"
  /\ edition < MaxEdition
  /\ edition' = edition + 1
  /\ \E cmd \in {"device_register", "config_snapshot"} :
       th' = [th EXCEPT ![t] =
                [step |-> IF cmd = "device_register" THEN "publish" ELSE "export",
                 cmd |-> cmd, seq |-> edition', exported |-> 0]]
  /\ UNCHANGED <<syncVars, up, down, pc_editions, pc_version, faults>>

\* mqtt_poll: the first connection, then gateway_register and a full snapshot.
ConnectAndRegister ==
  /\ Connect
  /\ th' = [th EXCEPT !["poll"] = [step |-> "publish", cmd |-> "gateway_register",
                                   seq |-> MaxEdition + 1, exported |-> 0]]
  /\ UNCHANGED <<edition, up, down, pc_editions, pc_version, faults>>

\* data_publish_gateway_register, data_publish_device_register: publish, ...
PublishRegister(t) ==
  /\ th[t].step = "publish"
  /\ Send([seq |-> th[t].seq, cmd |-> th[t].cmd, edition |-> edition, version |-> 0])
  /\ Goto(t, "mark")
  /\ UNCHANGED <<syncVars, edition, down, pc_editions, pc_version, faults>>

\* ... then record.
MarkRegister(t) ==
  /\ th[t].step = "mark"
  /\ MarkSent(th[t].seq, th[t].cmd, edition)
  /\ th' = [th EXCEPT ![t].step = "export",
                      ![t].seq = IF t = "poll" THEN MaxEdition + 2 ELSE @]
  /\ UNCHANGED <<edition, up, down, pc_editions, pc_version, faults>>

\* data_config_sync_publish_latest_snapshot: the export, under PortManager's lock,
ExportSnapshot(t) ==
  /\ th[t].step = "export"
  /\ th' = [th EXCEPT ![t].step = "snapshot", ![t].exported = edition]
  /\ UNCHANGED <<syncVars, edition, up, down, pc_editions, pc_version, faults>>

\* and the rest, under g_sync_lock.
PublishSnapshot(t) ==
  /\ th[t].step = "snapshot"
  /\ PublishLatestSnapshot(th[t].seq, th[t].exported)
  /\ Send([seq |-> th[t].seq, cmd |-> "config_snapshot",
           edition |-> th[t].exported, version |-> config_version'])
  /\ th' = [th EXCEPT ![t] = Idle]
  /\ UNCHANGED <<edition, down, pc_editions, pc_version, faults>>

\* mqtt_poll calls the tick once it is connected.
PollTick ==
  /\ connected /\ th["poll"].step = "idle"
  /\ \/ TickWait /\ UNCHANGED up
     \/ sync_seq < MaxSeq /\ TickRetry /\ Send(active')
  /\ UNCHANGED <<edition, th, down, pc_editions, pc_version, faults>>

PassTime ==
  /\ active # None
  /\ Elapse
  /\ UNCHANGED linkVars

-----------------------------------------------------------------------------
\* The verdicts of Pc_data's register handlers: the record is saved, the database
\* fails, or a device_register is refused because the device was deleted.
Verdicts(cmd) ==
  {"saved"} \cup (IF faults < MaxFaults THEN {"db_error"} ELSE {})
            \cup (IF cmd = "device_register" /\ faults < MaxFaults
                  THEN {"device_removed"} ELSE {})

\* Mutant of RegisterAck: acknowledged as saved whatever the database says.
MutRegisterAckEager(m, verdict) ==
  [seq |-> m.seq, cmd |-> m.cmd, ok |-> TRUE, retryable |-> FALSE,
   version |-> m.version, topic |-> "port"]

\* publishRegisterAck: a positive acknowledgement carries retryable = false, the
\* topic is the gateway's when there is no port, and device_register's
\* acknowledgement carries no configVersion.
RegisterAck(m, verdict) ==
  [seq |-> m.seq, cmd |-> m.cmd,
   ok |-> verdict = "saved",
   retryable |-> verdict = "db_error",
   version |-> IF m.cmd = "device_register" THEN 0 ELSE m.version,
   topic |-> IF m.cmd \in {"gateway_register", "config_snapshot"} THEN "gateway"
             ELSE "port"]

\* A handler takes the next message and acknowledges it with its verdict.
PcAnswer(m, verdict) ==
  /\ up' = Tail(up)
  /\ down' = Append(down, RegisterAck(m, verdict))
  /\ faults' = IF verdict = "saved" THEN faults ELSE faults + 1
  /\ UNCHANGED <<syncVars, edition, th>>

\* gateway_register and device_register leave the gateway's saved snapshot alone:
\* they write other tables.
PcGatewayRegister(m) ==
  /\ m.cmd = "gateway_register"
  /\ \E verdict \in Verdicts(m.cmd) : PcAnswer(m, verdict)
  /\ UNCHANGED <<pc_editions, pc_version>>

PcDeviceRegister(m) ==
  /\ m.cmd = "device_register"
  /\ \E verdict \in Verdicts(m.cmd) : PcAnswer(m, verdict)
  /\ UNCHANGED <<pc_editions, pc_version>>

\* An unsolicited full snapshot replaces what was saved; the handler does not
\* compare its configVersion with the one before.  upsertGatewayConfigSnapshot is no
\* transaction: when a statement fails, the others may have been executed.
PcConfigSnapshot(m) ==
  /\ m.cmd = "config_snapshot"
  /\ \E verdict \in Verdicts(m.cmd) :
       /\ PcAnswer(m, verdict)
       /\ IF verdict = "saved"
          THEN pc_editions' = {m.edition} /\ pc_version' = m.version
          ELSE /\ pc_editions' \in {pc_editions, pc_editions \cup {m.edition}}
               /\ UNCHANGED pc_version

\* MqttMessageHandler::handle, on the next message.
PcHandle ==
  /\ up # <<>>
  /\ LET m == Head(up) IN
       PcGatewayRegister(m) \/ PcDeviceRegister(m) \/ PcConfigSnapshot(m)

\* mqtt_message_handler, on the callback thread, which may be executing a command.
ReceiveAck ==
  /\ down # <<>>
  /\ "rx" \in Commanders => th["rx"].step = "idle"
  /\ IF Head(down).topic \in AcceptedTopics
     THEN HandleAck(Head(down))
     ELSE UNCHANGED syncVars
  /\ down' = Tail(down)
  /\ UNCHANGED <<edition, th, up, pc_editions, pc_version, faults>>

Lose ==
  /\ faults < MaxFaults
  /\ faults' = faults + 1
  /\ \/ up # <<>> /\ up' = Tail(up) /\ UNCHANGED down
     \/ down # <<>> /\ down' = Tail(down) /\ UNCHANGED up
  /\ UNCHANGED <<syncVars, edition, th, pc_editions, pc_version>>

ThreadStep(t) ==
  PublishRegister(t) \/ MarkRegister(t) \/ ExportSnapshot(t) \/ PublishSnapshot(t)

LinkNext ==
  \/ \E t \in Commanders : BeginCommand(t)
  \/ ConnectAndRegister
  \/ \E t \in Threads : ThreadStep(t)
  \/ PollTick
  \/ PassTime
  \/ PcHandle
  \/ ReceiveAck
  \/ Lose

LinkSpec == LinkInit /\ [][LinkNext]_vars

\* The threads, the broker, Pc_data and the clock keep running; commands, the
\* first connection and faults need not happen.
LiveLinkSpec ==
  /\ LinkSpec
  /\ \A t \in Threads : WF_vars(ThreadStep(t))
  /\ WF_vars(PollTick) /\ WF_vars(PassTime)
  /\ WF_vars(PcHandle) /\ WF_vars(ReceiveAck)

-----------------------------------------------------------------------------
LinkTypeOK ==
  /\ TypeOK
  /\ edition \in 0 .. MaxEdition
  /\ \A t \in Threads : /\ th[t].step \in {"idle", "publish", "mark", "export", "snapshot"}
                        /\ th[t].seq \in 0 .. SeqBase
                        /\ th[t].exported \in 0 .. edition
  /\ \A i \in DOMAIN up : up[i] \in Entry
  /\ pc_editions \subseteq 0 .. edition
  /\ pc_version \in 0 .. config_version
  /\ faults \in 0 .. MaxFaults

\* When the gateway lets telemetry out, Pc_data has saved a snapshot with the
\* gateway's present version and has not replaced it by one with another version.
\* data_config_sync_telemetry_allowed knows only the acknowledged number; that it
\* speaks of what Pc_data holds rests on versions never going back on the way.
GateMeansSaved == TelemetryAllowed => pc_version = config_version

\* Neither Pc_data's saved version nor the acknowledged version ever goes back,
\* whatever is lost and however late an old acknowledgement arrives.
VersionsNeverGoBack ==
  [][ /\ pc_version' >= pc_version
      /\ last_acked_config_version' >= last_acked_config_version ]_vars

\* Once Pc_data has saved the present version, the gateway learns of it, or moves
\* on to another version, provided nothing is lost.
SavedIsLearned ==
  (connected /\ config_version > 0 /\ pc_version = config_version)
    ~> (TelemetryAllowed \/ pc_version # config_version \/ faults > 0)

=============================================================================
