----------------------------- MODULE GatewayUi -----------------------------
(***************************************************************************)
(* The gateway's own screen: Widget of Linux_ui, one serial port and the   *)
(* relay boards on it, and the threads of Linux_data that answer it over   *)
(* the local socket.                                                       *)
(*                                                                         *)
(* A thread of Linux_data changes the port manager's state under its lock  *)
(* and sends what follows from it later; what waits to be sent is todo[t]. *)
(* "ipc" serves the screen's commands one at a time, "mqtt" those of       *)
(* Pc_data, whose acknowledgements go to the screen too, and "poll" reads  *)
(* the boards.                                                             *)
(*                                                                         *)
(* The screen runs in one event loop.  Its state is the record ui; an      *)
(* operator u -> u' stands for a method of Widget, and ui.out collects the *)
(* frames the method writes.  Left out: m_pendingCommands entries of       *)
(* get_runtime_state (never answered, and nothing happens when they        *)
(* expire), m_pendingRemoveSlave (the acknowledgement names the slave) and *)
(* m_pendingRelay: relayCommandRequested refuses every channel that is not *)
(* "led", "fan" or "buzzer", and its only sender calls them "do1", "do2"   *)
(* ..., so that no set_relay comes from this screen.  An overlay that      *)
(* shows a result goes by itself; it counts as gone.                       *)
(***************************************************************************)
EXTENDS TelemetryPack, Sequences, SequencesExt

CONSTANTS Slaves,      \* addresses of relay boards
          OfflineFailureThreshold,   \* failed reads until a board is reported
          MaxActs,     \* operations at the screen and commands of Pc_data, together
          MaxFaults    \* reads that fail when a board is or becomes offline, failed
                       \* writes and connects, breaks of the socket and timers that
                       \* run out, together

ASSUME UiAssumption ==
  /\ Slaves # {} /\ OfflineFailureThreshold \in Nat \ {0}
  /\ MaxActs \in Nat /\ MaxFaults \in Nat

VARIABLES
  port,        \* channels[0].connected
  devs,        \* the port's devices, in use while it is connected
  relay,       \* the channels of each board
  fails,       \* failed reads of each in a row; at the threshold it was reported
  todo,        \* per thread of Linux_data: the messages it is about to send
  up,          \* the socket is connected
  toGw, toUi,  \* frames written to it and not yet read
  ui,          \* the screen
  remoteAdd,   \* Pc_data has added a device
  acts, faults

gwVars == <<port, devs, relay, fails, todo>>
countVars == <<acts, faults>>
vars == <<gwVars, up, toGw, toUi, ui, remoteAdd, countVars>>

Threads == {"ipc", "mqtt", "poll"}
NoSeq == 0
States == [Channels -> BOOLEAN]
Unknown == <<>>        \* no entry in m_relayStates
NoSlave == "none"      \* no entry in m_slaveDevices
AllOff == [c \in Channels |-> FALSE]

\* Commands with numbers in S; those about a device name one.
Named == {"add_device", "remove_device", "set_relay"}
Plain == {"get_runtime_state", "scan_ports", "get_offline_cache_config", "flush_offline_cache",
          "connect_port", "disconnect_port"}
Cmds == Named \cup Plain
Commands(S) ==
  {c \in [cmd : Cmds, seq : S, slave : Slaves \cup {NoSlave}, states : States] :
     c.cmd \in Named => c.slave \in Slaves}

\* The frames to the screen.
Acks(S) ==
  [type : {"ack"}, cmd : Cmds, seq : S, ok : BOOLEAN, slave : Slaves \cup {NoSlave},
   connected : BOOLEAN]
Registers == [type : {"device_register"}, slave : Slaves]
Runtimes == [type : {"runtime_state"}, connected : BOOLEAN, devices : SUBSET Slaves]
Packed(s, states, valid) ==
  [type |-> "telemetry", slave |-> s,
   device |-> PackDevice([RelayReading(states) EXCEPT !.valid = valid])]
Telemetry == {Packed(s, states, valid) : s \in Slaves, states \in States, valid \in BOOLEAN}
Frames(S) == Acks(S) \cup Registers \cup Runtimes \cup Telemetry

\* The screen.
Shown == States \cup {Unknown}
Listing == {NoSlave, "offline", "online"}
Pending == [seq : Nat, cmd : Cmds]
Screen ==
  [seq : Nat \ {0}, pending : SUBSET Pending, add : Nat, adding : BOOLEAN,
   loading : BOOLEAN, master : BOOLEAN, list : [Slaves -> Listing], known : [Slaves -> Shown],
   out : Seq(Commands(Nat))]

TypeOK ==
  /\ port \in BOOLEAN /\ devs \in SUBSET Slaves /\ relay \in [Slaves -> States]
  /\ fails \in [Slaves -> 0 .. OfflineFailureThreshold]
  /\ todo \in [Threads -> Seq(Frames(Nat))]
  /\ up \in BOOLEAN /\ toGw \in Seq(Commands(Nat)) /\ toUi \in Seq(Frames(Nat))
  /\ ui \in Screen /\ ui.out = <<>>
  /\ remoteAdd \in BOOLEAN /\ acts \in 0 .. MaxActs /\ faults \in 0 .. MaxFaults

NoFails == [s \in Slaves |-> 0]

\* The screen has connected and has its first answers (a break and ConnectIpc
\* repeat how it came to that).
Init ==
  /\ port \in BOOLEAN /\ devs \in SUBSET Slaves
  /\ relay = [s \in Slaves |-> AllOff] /\ fails = NoFails
  /\ todo = [t \in Threads |-> <<>>]
  /\ up = TRUE /\ toGw = <<>> /\ toUi = <<>>
  /\ ui = [seq |-> 4, pending |-> {}, add |-> NoSeq, adding |-> FALSE,
           loading |-> FALSE, master |-> port,
           list |-> [s \in Slaves |-> IF port /\ s \in devs THEN "offline" ELSE NoSlave],
           known |-> [s \in Slaves |-> Unknown], out |-> <<>>]
  /\ remoteAdd = FALSE
  /\ acts = 0 /\ faults = 0

-----------------------------------------------------------------------------
(* Linux_data: commands.  Each handler answers what it did.                *)

Running == IF port THEN devs ELSE {}

\* A handler is done when its thread has sent the answer and what goes with it.
Answer(t, c, ok, more) ==
  todo' = [todo EXCEPT ![t] = <<[type |-> "ack", cmd |-> c.cmd, seq |-> c.seq, ok |-> ok,
                                 slave |-> c.slave, connected |-> port']>> \o more]

Fault == faults < MaxFaults /\ faults' = faults + 1
Fine == UNCHANGED faults

GetRuntimeState(t, c) ==
  /\ c.cmd = "get_runtime_state"
  /\ todo' = [todo EXCEPT ![t] = <<[type |-> "runtime_state", connected |-> port,
                                    devices |-> Running]>>]
  /\ Fine /\ UNCHANGED <<port, devs, relay, fails>>

\* The offline cache's own state is OfflineQueue's; a failure is only shown.
ScanPortsOrCache(t, c) ==
  /\ c.cmd \in {"scan_ports", "get_offline_cache_config", "flush_offline_cache"}
  /\ Fine /\ UNCHANGED <<port, devs, relay, fails>>
  /\ \E ok \in BOOLEAN : (c.cmd # "flush_offline_cache" => ok) /\ Answer(t, c, ok, <<>>)

\* The polling thread is joined first, and the slot's devices are taken from
\* the file again (ManagedDevice).  The port may fail to open; or the
\* file to be written, which is answered as a failure although the port
\* stays connected, and with connected = 0.
ConnectPort(t, c) ==
  /\ c.cmd = "connect_port" /\ todo["poll"] = <<>>
  /\ fails' = NoFails /\ UNCHANGED <<devs, relay>>
  /\ \/ port' = TRUE /\ Fine /\ Answer(t, c, TRUE, <<>>)
     \/ port' = FALSE /\ Fault /\ Answer(t, c, FALSE, <<>>)
     \/ /\ port' = TRUE /\ Fault
        /\ todo' = [todo EXCEPT ![t] = <<[type |-> "ack", cmd |-> c.cmd, seq |-> c.seq,
                       ok |-> FALSE, slave |-> c.slave, connected |-> FALSE]>>]

DisconnectPort(t, c) ==
  /\ c.cmd = "disconnect_port" /\ (port => todo["poll"] = <<>>)
  /\ port' = FALSE
  /\ Answer(t, c, port, <<>>)
  /\ Fine /\ UNCHANGED <<devs, relay, fails>>

AddDevice(t, c) ==
  /\ c.cmd = "add_device"
  /\ UNCHANGED <<port, relay>>
  /\ \/ /\ port /\ c.slave \notin devs /\ devs' = devs \cup {c.slave} /\ Fine
        /\ fails' = [fails EXCEPT ![c.slave] = 0]
        /\ Answer(t, c, TRUE, <<[type |-> "device_register", slave |-> c.slave]>>)
     \/ /\ IF port /\ c.slave \notin devs THEN Fault ELSE Fine
        /\ Answer(t, c, FALSE, <<>>) /\ UNCHANGED <<devs, fails>>

RemoveDevice(t, c) ==
  /\ c.cmd = "remove_device"
  /\ UNCHANGED <<port, relay, fails>>
  /\ \/ c.slave \in Running /\ devs' = devs \ {c.slave} /\ Fine /\ Answer(t, c, TRUE, <<>>)
     \/ /\ IF c.slave \in Running THEN Fault ELSE Fine
        /\ Answer(t, c, FALSE, <<>>) /\ UNCHANGED devs

SetRelay(t, c) ==
  /\ c.cmd = "set_relay"
  /\ UNCHANGED <<port, devs, fails>>
  /\ \/ /\ c.slave \in Running /\ relay' = [relay EXCEPT ![c.slave] = c.states]
        /\ Fine /\ Answer(t, c, TRUE, <<>>)
     \/ /\ IF c.slave \in Running THEN Fault ELSE Fine
        /\ Answer(t, c, FALSE, <<>>) /\ UNCHANGED relay

DataCommand(t, c) ==
  \/ GetRuntimeState(t, c) \/ ScanPortsOrCache(t, c)
  \/ ConnectPort(t, c) \/ DisconnectPort(t, c)
  \/ AddDevice(t, c) \/ RemoveDevice(t, c) \/ SetRelay(t, c)

\* ipc_server_loop hands on the next frame when the last one is done with.
IpcCommand ==
  /\ todo["ipc"] = <<>> /\ toGw # <<>>
  /\ DataCommand("ipc", Head(toGw))
  /\ toGw' = Tail(toGw)
  /\ UNCHANGED <<up, toUi, ui, remoteAdd, acts>>

\* Pc_ui numbers its commands with the time in milliseconds, so that Pc_data's
\* acknowledgements bear no number of this screen: NoSeq.  Its get_config is
\* numbered from 1 as the screen's commands are, but goes to a topic whose
\* messages are discarded.
MqttCommand(c) ==
  /\ todo["mqtt"] = <<>> /\ acts < MaxActs
  /\ DataCommand("mqtt", c)
  /\ acts' = acts + 1
  /\ remoteAdd' = (remoteAdd \/ c.cmd = "add_device")
  /\ UNCHANGED <<up, toGw, toUi, ui>>

\* The thread that serves the screen is free and has taken a command that
\* stops the poller: stop_requested.
StopRequested ==
  /\ todo["ipc"] = <<>> /\ toGw # <<>>
  /\ Head(toGw).cmd \in {"connect_port", "disconnect_port"}

\* A reading of the board, or that there is none.
Pack(s, valid) == Packed(s, relay[s], valid)

\* A board is reported when it has failed so often, and then not again.  A
\* failed read that comes before that is no fault.
RecordPollFailure(s) ==
  \/ /\ fails[s] + 1 < OfflineFailureThreshold /\ Fine
     /\ fails' = [fails EXCEPT ![s] = @ + 1] /\ UNCHANGED todo
  \/ /\ fails[s] + 1 = OfflineFailureThreshold /\ Fault
     /\ fails' = [fails EXCEPT ![s] = @ + 1]
     /\ todo' = [todo EXCEPT !["poll"] = <<Pack(s, FALSE)>>]
  \/ fails[s] = OfflineFailureThreshold /\ Fault /\ UNCHANGED <<fails, todo>>

\* pollDevice up to recordPollSuccess or recordPollFailure.  The next
\* round starts when the screen has read what was sent: it keeps up.
PollDevice(s) ==
  /\ s \in Running /\ ~StopRequested
  /\ todo["poll"] = <<>> /\ toUi = <<>>
  /\ \/ /\ Fine /\ fails' = [fails EXCEPT ![s] = 0]
        /\ todo' = [todo EXCEPT !["poll"] = <<Pack(s, TRUE)>>]
     \/ RecordPollFailure(s)
  /\ UNCHANGED <<port, devs, relay, up, toGw, toUi, ui, remoteAdd, acts>>

\* ipc_server_send: without a client nothing is sent.
IpcServerSend(t) ==
  /\ todo[t] # <<>>
  /\ todo' = [todo EXCEPT ![t] = Tail(@)]
  /\ toUi' = IF up THEN Append(toUi, Head(todo[t])) ELSE toUi
  /\ UNCHANGED <<port, devs, relay, fails, up, toGw, ui, remoteAdd, countVars>>

-----------------------------------------------------------------------------
(* Linux_ui: the methods of Widget.                                        *)

Command(cmd, seq, s, states) == [cmd |-> cmd, seq |-> seq, slave |-> s, states |-> states]

\* The caller has checked that the socket is connected.
SendCommand(u, cmd, s) ==
  [u EXCEPT !.seq = @ + 1,
            !.out = Append(@, Command(cmd, u.seq, s, AllOff)),
            !.pending = IF cmd = "get_runtime_state" THEN @
                        ELSE @ \cup {[seq |-> u.seq, cmd |-> cmd]}]

Request(u, cmd) == SendCommand(u, cmd, NoSlave)

RequestRuntimeRefresh(u) == Request(Request(u, "get_runtime_state"), "scan_ports")

RequestOfflineCacheConfig(u) == Request(u, "get_offline_cache_config")

\* Pending commands with the number seq: at most one.
Numbered(u, seq) == {p \in u.pending : p.seq = seq}

CompletePendingCommand(u, seq) == [u EXCEPT !.pending = @ \ Numbered(u, seq)]

\* Mutant: a state that is known is not replaced.
MutRelayTelemetryConfirm(u, s, states) ==
  IF u.known[s] = Unknown THEN [u EXCEPT !.known[s] = states] ELSE u

RelayTelemetryConfirm(u, s, states) == [u EXCEPT !.known[s] = states]

UpsertRegisteredSlave(u, s) ==
  [u EXCEPT !.list[s] = IF @ = NoSlave THEN "offline" ELSE @]

RemoveRegisteredSlave(u, s) ==
  [u EXCEPT !.list[s] = NoSlave, !.known[s] = Unknown]

UpdateSlaveOnline(u, s, online) ==
  [u EXCEPT !.list[s] = IF @ = NoSlave THEN @ ELSE IF online THEN "online" ELSE "offline"]

Listed(u) == {s \in Slaves : u.list[s] # NoSlave}

\* portsUpdated: the overlay says that the scan is complete.
PortsUpdated(u) == [u EXCEPT !.loading = FALSE]

\* Mutant: the snapshot's devices are not added.
MutRuntimeStateSnapshot(u, m) ==
  LET gone == Listed(u) \ m.devices
  IN  PortsUpdated([u EXCEPT !.master = m.connected,
                             !.list = [s \in Slaves |-> IF s \in gone THEN NoSlave ELSE @[s]]])

RuntimeStateSnapshot(u, m) ==
  LET gone == Listed(u) \ m.devices
  IN  PortsUpdated([u EXCEPT
        !.master = m.connected,
        !.list = [s \in Slaves |-> IF s \in gone THEN NoSlave
                                   ELSE IF s \in m.devices /\ @[s] = NoSlave THEN "offline"
                                   ELSE @[s]],
        !.known = [s \in Slaves |-> IF s \in gone THEN Unknown ELSE @[s]]])

\* markMasterRuntimeOffline; the add dialog is not told.
MarkMasterRuntimeOffline(u) ==
  [u EXCEPT !.list = [s \in Slaves |-> IF @[s] = NoSlave THEN NoSlave ELSE "offline"],
            !.known = [s \in Slaves |-> Unknown],
            !.add = NoSeq]

PortStatusUpdated(u, connected) ==
  IF connected THEN Request([u EXCEPT !.master = TRUE], "get_runtime_state")
  ELSE MarkMasterRuntimeOffline([u EXCEPT !.master = FALSE])

\* DataParser reads the channels from the pack's fields.
DeviceStatus(u, m) ==
  IF ~u.master THEN u
  ELSE IF ~m.device.valid THEN UpdateSlaveOnline(u, m.slave, FALSE)
  ELSE RelayTelemetryConfirm(UpdateSlaveOnline(u, m.slave, TRUE), m.slave,
                             DataParser(m.device))

\* AddSlaveDialog::setResult
AddResult(u) == [u EXCEPT !.add = NoSeq, !.adding = FALSE]

OfflineCacheAck(u, m) ==
  IF m.cmd = "get_offline_cache_config" THEN u
  ELSE IF m.ok THEN RequestOfflineCacheConfig([u EXCEPT !.loading = FALSE])
  ELSE [u EXCEPT !.loading = FALSE]

OwnAddAck(u, m) == m.cmd = "add_device" /\ u.add # NoSeq /\ u.add = m.seq

\* Mutant: only the dialog is told.
MutCommandFailed(u, m) == IF OwnAddAck(u, m) THEN AddResult(u) ELSE u

CommandFailed(u, m) ==
  [(IF OwnAddAck(u, m) THEN AddResult(u) ELSE u) EXCEPT !.loading = FALSE]

CommandSucceeded(u, m, wasPending) ==
  CASE OwnAddAck(u, m) -> RequestRuntimeRefresh(AddResult(u))
    [] m.cmd = "remove_device" ->
         RequestRuntimeRefresh([RemoveRegisteredSlave(u, m.slave) EXCEPT !.loading = FALSE])
    [] OTHER ->
         LET v == IF m.cmd = "scan_ports" THEN u ELSE [u EXCEPT !.loading = FALSE]
         IN  IF ~wasPending THEN u
             ELSE IF m.cmd \in {"connect_port", "disconnect_port", "add_device"}
             THEN RequestRuntimeRefresh(v) ELSE v

CommandAckReceived(u, m) ==
  LET v == CompletePendingCommand(u, m.seq)
  IN  IF m.cmd \in {"get_offline_cache_config", "flush_offline_cache"} THEN OfflineCacheAck(v, m)
      ELSE IF m.ok THEN CommandSucceeded(v, m, Numbered(u, m.seq) # {})
      ELSE CommandFailed(v, m)

\* IpcClient::onReadyRead, for one frame.
OnFrame(u, m) ==
  CASE m.type = "runtime_state"   -> RuntimeStateSnapshot(u, m)
    [] m.type = "device_register" -> UpsertRegisteredSlave(u, m.slave)
    [] m.type = "telemetry"       -> DeviceStatus(u, m)
    [] m.type = "ack" ->
         IF m.cmd \in {"connect_port", "disconnect_port"}
         THEN CommandAckReceived(PortStatusUpdated(u, m.connected), m)
         ELSE IF m.cmd = "scan_ports" THEN PortsUpdated(CommandAckReceived(u, m))
         ELSE CommandAckReceived(u, m)

HandleIpcConnected(u) == RequestOfflineCacheConfig(RequestRuntimeRefresh(u))

\* handleIpcDisconnected and failAllPendingCommands
HandleIpcDisconnected(u) ==
  LET v == AddResult(MarkMasterRuntimeOffline(u))
  IN  [v EXCEPT !.master = FALSE, !.pending = {}, !.loading = FALSE]

\* The five second timer of a command.
Expire(u, p) ==
  LET v == CompletePendingCommand(u, p.seq)
  IN  [(IF u.add = p.seq THEN AddResult(v) ELSE v) EXCEPT !.loading = FALSE]

-----------------------------------------------------------------------------
(* Linux_ui: what the event loop does.                                     *)

\* A method has run: its frames are in the socket.
Ran(u) ==
  /\ ui' = [u EXCEPT !.out = <<>>]
  /\ toGw' = toGw \o u.out

OnReadyRead ==
  /\ toUi # <<>>
  /\ Ran(OnFrame(ui, Head(toUi)))
  /\ toUi' = Tail(toUi)
  /\ UNCHANGED <<gwVars, up, remoteAdd, countVars>>

\* At the screen.  The overlay covers it while it shows an operation, and the
\* dialog that adds a slave is modal, with its buttons disabled meanwhile.
Operate(u) ==
  /\ up /\ ~ui.loading /\ ~ui.adding
  /\ acts < MaxActs /\ acts' = acts + 1
  /\ Ran(u)
  /\ UNCHANGED <<gwVars, up, toUi, remoteAdd, faults>>

Loading == [ui EXCEPT !.loading = TRUE]

Scan == Operate(Request(Loading, "scan_ports"))

ConnectMaster == Operate(Request(Loading, "connect_port"))

DisconnectMaster == ui.master /\ Operate(Request(Loading, "disconnect_port"))

OfflineCacheButton ==
  Operate(Request(ui, "flush_offline_cache")) \/ Operate(RequestOfflineCacheConfig(ui))

AddSlave(s) ==
  /\ ui.master
  /\ Operate([SendCommand(ui, "add_device", s) EXCEPT !.adding = TRUE, !.add = ui.seq])

RemoveSlave(s) ==
  /\ ui.master /\ s \in Listed(ui)
  /\ Operate(SendCommand(Loading, "remove_device", s))

\* The command or its acknowledgement is on its way.
Underway(seq) ==
  \/ \E i \in DOMAIN toGw : toGw[i].seq = seq
  \/ \E q \in {toUi, todo["ipc"]} :
       \E i \in DOMAIN q : q[i].type = "ack" /\ q[i].seq = seq

\* A timer that runs out although the answer would still come is a fault.
CommandTimeout(p) ==
  /\ p \in ui.pending
  /\ IF Underway(p.seq) THEN Fault ELSE Fine
  /\ Ran(Expire(ui, p))
  /\ UNCHANGED <<gwVars, up, toUi, remoteAdd, acts>>

\* The socket breaks; what was in it is lost, and so is what the thread that
\* serves it still sends to it.
BreakIpc ==
  /\ up /\ Fault
  /\ up' = FALSE /\ toGw' = <<>> /\ toUi' = <<>>
  /\ todo' = [todo EXCEPT !["ipc"] = <<>>]
  /\ ui' = HandleIpcDisconnected(ui)
  /\ UNCHANGED <<port, devs, relay, fails, remoteAdd, acts>>

\* The reconnect timer, the button for it, or the start of the program.
ConnectIpc ==
  /\ ~up /\ todo["ipc"] = <<>>
  /\ up' = TRUE
  /\ Ran(HandleIpcConnected(ui))
  /\ UNCHANGED <<gwVars, toUi, remoteAdd, countVars>>

Remote(s) ==
  \/ \E v \in States : MqttCommand(Command("set_relay", NoSeq, s, v))
  \/ \E cmd \in {"add_device", "remove_device"} : MqttCommand(Command(cmd, NoSeq, s, AllOff))

Next ==
  \/ IpcCommand
  \/ \E s \in Slaves : Remote(s) \/ PollDevice(s)
  \/ \E t \in Threads : IpcServerSend(t)
  \/ OnReadyRead
  \/ Scan \/ ConnectMaster \/ DisconnectMaster \/ OfflineCacheButton
  \/ \E s \in Slaves : AddSlave(s) \/ RemoveSlave(s)
  \/ \E p \in ui.pending : CommandTimeout(p)
  \/ BreakIpc \/ ConnectIpc

\* The threads of Linux_data go on, the poller comes round to every board, and
\* the screen's event loop handles frames and timers.
Fairness ==
  /\ WF_vars(IpcCommand)
  /\ \A t \in Threads : WF_vars(IpcServerSend(t))
  /\ \A s \in Slaves : WF_vars(PollDevice(s))
  /\ WF_vars(OnReadyRead) /\ WF_vars(ConnectIpc)
  /\ WF_vars(\E p \in ui.pending : CommandTimeout(p))

Spec == Init /\ [][Next]_vars /\ Fairness

-----------------------------------------------------------------------------
\* The overlay lets go of the screen, and so does the dialog that adds a slave,
\* whatever is lost, late, failed or done by others (sendCommand's timer,
\* commandAckReceived).  The dialog is not told when the port is reported
\* disconnected (markMasterRuntimeOffline), and then goes on without a timer.
OperatorIsAnswered ==
  /\ ui.loading ~> ~ui.loading
  /\ ui.adding /\ ui.add # NoSeq ~> ~ui.adding \/ ~ui.master

\* While the port is connected the screen comes to show, and goes on showing,
\* the channels of a listed board as they are (handleDeviceStatus), whoever
\* switches them and however often the board was not read.
ScreenFollowsBoard ==
  \A s \in Slaves : <>[](up /\ ui.master /\ s \in Running \cap Listed(ui)
                           => ui.list[s] = "online" /\ ui.known[s] = relay[s])

\* The screen comes to list the devices of the port (handleRuntimeStateSnapshot
\* and the refreshes that ask for it), unless Pc_data adds one: a snapshot
\* taken before and sent after its device_register drops it again.
ScreenListsDevices == <>[](up /\ ui.master /\ ~remoteAdd => Listed(ui) = Running)
=============================================================================
