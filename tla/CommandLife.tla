---------------------------- MODULE CommandLife ----------------------------
(***************************************************************************)
(* The life of a control command: issued by Pc_ui's CommandManager, sent   *)
(* over the IPC pipe to Pc_data, logged and published over MQTT, executed  *)
(* by Linux_data, acknowledged over MQTT, and closed in Pc_ui.             *)
(*                                                                         *)
(* Six threads meet here.  In Pc_data the IPC thread (ipc) forwards a      *)
(* command, the MQTT callback thread (rx) handles its acknowledgement and  *)
(* the main thread (tm) reports what is late.  In Linux_data the MQTT      *)
(* callback thread (gm) and the thread of the local screen (gl) execute    *)
(* commands, and share one global with the cmd_id of the command in        *)
(* progress.  The sixth is Pc_ui's event loop.                             *)
(*                                                                         *)
(* A command is its position in cmds.  A set_relay command carries the     *)
(* wanted state of all channels of the relay board.                        *)
(***************************************************************************)
EXTENDS TelemetryPack, Sequences

CONSTANTS DeviceKinds,  \* device commands issued: add_device, remove_device
          MaxCmd,     \* commands the interface issues
          PipeMax,    \* messages the pipe to Pc_ui holds
          MaxFault    \* commands on the gateway's own screen, MQTT messages lost,
                      \* together

ASSUME BoundsAssumption ==
  /\ DeviceKinds \subseteq {"add_device", "remove_device"}
  /\ MaxCmd \in Nat \ {0} /\ MaxFault \in Nat /\ PipeMax \in Nat \ {0}

VARIABLES
  cmds,     \* the commands issued so far
  ui,       \* m_pending and, once finished, the outcome shown
  shown,    \* the channel states the interface shows
  uiOut,    \* pipe from Pc_ui to Pc_data
  uiIn,     \* pipe from Pc_data to Pc_ui
  log,      \* command_log rows
  pend,     \* m_pendingCommandsByCommandId and its timeout flags
  ipc, rx, tm,   \* the threads of Pc_data
  down, up,      \* MQTT messages in flight
  gm, gl, cur,   \* the threads of Linux_data and g_data_ack_current_cmd_id
  relay,    \* the physical channel states
  work,     \* what the gateway did with each command
  mixed,    \* commands whose execution met a local command
  faults    \* local commands and losses so far

uiVars == <<cmds, ui, shown>>
pipeVars == <<uiOut, uiIn>>
pcVars == <<log, pend, ipc, rx, tm>>
netVars == <<down, up>>
gwVars == <<gm, gl, cur, relay, work, mixed>>
vars == <<uiVars, pipeVars, pcVars, netVars, gwVars, faults>>

Ids == 1 .. MaxCmd
NoCmd == 0
Kinds == {"set_relay"} \cup DeviceKinds
States == [Channels -> BOOLEAN]
Command == [kind : Kinds, ch : Channels, val : BOOLEAN, states : States]
Open == {"pending", "running", "timeout_waiting_ack"}
Idle == [at |-> "idle", cmd |-> NoCmd, ok |-> FALSE]
Thread(steps) == [at : {"idle"} \cup steps, cmd : Ids \cup {NoCmd}, ok : BOOLEAN]
Message == [type : {"command_ack", "command_log_update"}, cmd : Ids,
            status : {"sent", "timeout", "success", "failed"}]

TypeOK ==
  /\ cmds \in Seq(Command) /\ Len(cmds) <= MaxCmd
  /\ ui \in [Ids -> {"none", "success", "failed"} \cup Open]
  /\ shown \in States
  /\ uiOut \in Seq(Ids) /\ uiIn \in Seq(Message)
  /\ log \in [Ids -> {"none", "pending", "sent", "success", "failed", "timeout"}]
  /\ pend \in [Ids -> {"absent", "fresh", "hard"}]
  /\ ipc \in Thread({"log", "reply"})
  /\ rx \in Thread({"reply", "log"})
  /\ tm \in Thread({"log"})
  /\ down \in Seq(Ids)
  /\ up \in Seq([cmd : Ids \cup {NoCmd}, ok : BOOLEAN, port : BOOLEAN])
  /\ gm \in Thread({"exec"})
  /\ gl \in Thread({"exec"})
  /\ cur \in Ids \cup {NoCmd}
  /\ relay \in States
  /\ work \in [Ids -> {"none", "taken", "done", "refused"}]
  /\ mixed \subseteq Ids
  /\ faults \in 0 .. MaxFault

Init ==
  /\ cmds = <<>> /\ ui = [c \in Ids |-> "none"]
  /\ shown = [ch \in Channels |-> FALSE] /\ relay = shown
  /\ uiOut = <<>> /\ uiIn = <<>>
  /\ log = [c \in Ids |-> "none"] /\ pend = [c \in Ids |-> "absent"]
  /\ ipc = Idle /\ rx = Idle /\ tm = Idle
  /\ down = <<>> /\ up = <<>>
  /\ gm = Idle /\ gl = Idle /\ cur = NoCmd
  /\ work = [c \in Ids |-> "none"] /\ mixed = {}
  /\ faults = 0

(***************************************************************************)
(* Pc_ui: CommandManager and the IPC branch of MainWindow.                 *)
(***************************************************************************)
PendingRelay(ch) == {c \in 1 .. Len(cmds) : /\ cmds[c].kind = "set_relay"
                                            /\ cmds[c].ch = ch
                                            /\ ui[c] \in Open}

\* Mutant: the states of commands still open are forgotten.
MutDesiredStatesShown(ch, val) == [shown EXCEPT ![ch] = val]

\* Shown states, overlaid by what the commands still open want.
DesiredStates(ch, val) ==
  [x \in Channels |->
     IF x = ch THEN val
     ELSE IF PendingRelay(x) = {} THEN shown[x]
     ELSE cmds[CHOOSE c \in PendingRelay(x) : TRUE].val]

Issue(command) ==
  LET id == Len(cmds) + 1 IN
  /\ id \in Ids
  /\ cmds' = Append(cmds, command)
  /\ ui' = [ui EXCEPT ![id] = "pending"]
  /\ uiOut' = Append(uiOut, id)

\* The card offers the state that is not shown.
SendRelayCommand(ch) ==
  /\ PendingRelay(ch) = {}
  /\ Issue([kind |-> "set_relay", ch |-> ch, val |-> ~shown[ch],
            states |-> DesiredStates(ch, ~shown[ch])])
  /\ UNCHANGED <<shown, uiIn, pcVars, netVars, gwVars, faults>>

SendDeviceCommand(kind) ==
  /\ Issue([kind |-> kind, ch |-> CHOOSE ch \in Channels : TRUE, val |-> FALSE,
            states |-> [ch \in Channels |-> FALSE]])
  /\ UNCHANGED <<shown, uiIn, pcVars, netVars, gwVars, faults>>

\* ackSuccess demands stage done, so a command_ack of stage sent falls
\* through to the branch that marks the command running.
OnCommandAck(m) == CASE m.status = "success" -> "success"
                     [] m.status = "failed" -> "failed"
                     [] m.status = "sent" -> "running"

OnCommandLogUpdate(m) == CASE m.status = "success" -> "success"
                           [] m.status = "failed" -> "failed"
                           [] m.status = "timeout" -> "timeout_waiting_ack"

\* Mutant: a late answer reopens or re-decides a finished command.
MutStillPending(c) == TRUE

StillPending(c) == ui[c] \in Open

UiReceive ==
  /\ uiIn # <<>>
  /\ LET m == Head(uiIn) IN
     ui' = IF ~StillPending(m.cmd) THEN ui
           ELSE [ui EXCEPT ![m.cmd] =
                   IF m.type = "command_ack" THEN OnCommandAck(m)
                   ELSE OnCommandLogUpdate(m)]
  /\ uiIn' = Tail(uiIn)
  /\ UNCHANGED <<cmds, shown, uiOut, pcVars, netVars, gwVars, faults>>

\* The board is polled and its telemetry reaches the interface.
ShowStates ==
  /\ shown' = ShownByPcUi(PackDevice(RelayReading(relay)))
  /\ shown' # shown
  /\ UNCHANGED <<cmds, ui, pipeVars, pcVars, netVars, gwVars, faults>>

(***************************************************************************)
(* The pipe to Pc_ui.                                                      *)
(***************************************************************************)
\* sendMessage: the write blocks while the pipe is full.
Deliver(type, c, status) ==
  /\ Len(uiIn) < PipeMax
  /\ uiIn' = Append(uiIn, [type |-> type, cmd |-> c, status |-> status])

(***************************************************************************)
(* Pc_data, IPC thread: the branches set_relay and add/remove_device.      *)
(***************************************************************************)
\* Mutant: the command is remembered before it is published.
MutAccept(c, connected) ==
  /\ uiOut' = Tail(uiOut)
  /\ IF connected
     THEN \E published \in BOOLEAN :
            /\ log' = [log EXCEPT ![c] = "pending"]
            /\ down' = IF published THEN Append(down, c) ELSE down
            /\ ipc' = [at |-> "log", cmd |-> c, ok |-> published]
            /\ pend' = [pend EXCEPT ![c] = "fresh"]
            /\ uiIn' = uiIn
     ELSE /\ log' = [log EXCEPT ![c] = "failed"]
          /\ Deliver("command_ack", c, "failed")
          /\ UNCHANGED <<ipc, down, pend>>
  /\ UNCHANGED <<uiVars, rx, tm, up, gwVars, faults>>

\* The command is logged and published; without a connected port it fails
\* before that.
Accept(c, connected) ==
  /\ uiOut' = Tail(uiOut)
  /\ IF connected
     THEN \E published \in BOOLEAN :
            /\ log' = [log EXCEPT ![c] = "pending"]
            /\ down' = IF published THEN Append(down, c) ELSE down
            /\ ipc' = [at |-> "log", cmd |-> c, ok |-> published]
            /\ uiIn' = uiIn
     ELSE /\ log' = [log EXCEPT ![c] = "failed"]
          /\ Deliver("command_ack", c, "failed")
          /\ UNCHANGED <<ipc, down>>
  /\ UNCHANGED <<uiVars, pend, rx, tm, up, gwVars, faults>>

AcceptRelay ==
  /\ ipc.at = "idle" /\ uiOut # <<>> /\ cmds[Head(uiOut)].kind = "set_relay"
  /\ \E connected \in BOOLEAN : Accept(Head(uiOut), connected)

AcceptDevice ==
  /\ ipc.at = "idle" /\ uiOut # <<>> /\ cmds[Head(uiOut)].kind # "set_relay"
  /\ \E connected \in BOOLEAN : Accept(Head(uiOut), connected)

\* The row says sent before the command is remembered, so that an answer,
\* which is dropped until then, cannot be overwritten.
RememberPendingCommand ==
  /\ ipc.at = "log"
  /\ log' = [log EXCEPT ![ipc.cmd] = IF ipc.ok THEN "sent" ELSE "failed"]
  /\ pend' = [pend EXCEPT ![ipc.cmd] = IF ipc.ok THEN "fresh" ELSE @]
  /\ ipc' = [ipc EXCEPT !.at = "reply"]
  /\ UNCHANGED <<uiVars, pipeVars, rx, tm, netVars, gwVars, faults>>

ReplySent ==
  /\ ipc.at = "reply"
  /\ Deliver("command_ack", ipc.cmd, IF ipc.ok THEN "sent" ELSE "failed")
  /\ ipc' = Idle
  /\ UNCHANGED <<uiVars, uiOut, log, pend, rx, tm, netVars, gwVars, faults>>

(***************************************************************************)
(* Pc_data, MQTT callback thread.                                          *)
(***************************************************************************)
\* Mutant: an acknowledgement that arrives counts as success.
MutTakeAck ==
  /\ rx.at = "idle" /\ up # <<>>
  /\ LET a == Head(up)
         hit == a.port /\ a.cmd # NoCmd /\ pend[a.cmd] # "absent"
     IN /\ rx' = IF hit THEN [at |-> "reply", cmd |-> a.cmd, ok |-> TRUE] ELSE rx
        /\ pend' = IF hit THEN [pend EXCEPT ![a.cmd] = "absent"] ELSE pend
  /\ up' = Tail(up)
  /\ UNCHANGED <<uiVars, pipeVars, log, ipc, tm, down, gwVars, faults>>

\* Only an acknowledgement on a port topic, with a cmd_id that is pending,
\* is used; taking the command removes it.
TakeAck ==
  /\ rx.at = "idle" /\ up # <<>>
  /\ LET a == Head(up)
         hit == a.port /\ a.cmd # NoCmd /\ pend[a.cmd] # "absent"
     IN /\ rx' = IF hit THEN [at |-> "reply", cmd |-> a.cmd, ok |-> a.ok] ELSE rx
        /\ pend' = IF hit THEN [pend EXCEPT ![a.cmd] = "absent"] ELSE pend
  /\ up' = Tail(up)
  /\ UNCHANGED <<uiVars, pipeVars, log, ipc, tm, down, gwVars, faults>>

Status(ok) == IF ok THEN "success" ELSE "failed"

\* The interface is told before the log and, for remove_device, before the
\* device's rows are deleted.
ReplyAck ==
  /\ rx.at = "reply"
  /\ Deliver("command_ack", rx.cmd, Status(rx.ok))
  /\ rx' = [rx EXCEPT !.at = "log"]
  /\ UNCHANGED <<uiVars, uiOut, log, pend, ipc, tm, netVars, gwVars, faults>>

\* The deletion after a successful remove_device may fail.
LogAck ==
  /\ rx.at = "log"
  /\ \E ok \in {rx.ok} \cup (IF cmds[rx.cmd].kind = "remove_device" THEN {FALSE} ELSE {}) :
       /\ log' = [log EXCEPT ![rx.cmd] = Status(ok)]
       /\ Deliver("command_log_update", rx.cmd, Status(ok))
  /\ rx' = Idle
  /\ UNCHANGED <<uiVars, uiOut, pend, ipc, tm, netVars, gwVars, faults>>

(***************************************************************************)
(* Pc_data, main thread: commands late by 30 s are reported and kept (the  *)
(* notice after 10 s changes nothing in either program).                   *)
(***************************************************************************)
\* Mutant: a late command is dropped without a word.
MutCollectHardTimeout(c) ==
  /\ tm.at = "idle" /\ pend[c] = "fresh" /\ ipc.cmd # c
  /\ pend' = [pend EXCEPT ![c] = "absent"]
  /\ UNCHANGED <<uiVars, pipeVars, log, ipc, rx, tm, netVars, gwVars, faults>>

\* Thirty seconds are enough for the IPC thread to have answered.
CollectHardTimeout(c) ==
  /\ tm.at = "idle" /\ pend[c] = "fresh" /\ ipc.cmd # c
  /\ pend' = [pend EXCEPT ![c] = "hard"]
  /\ tm' = [at |-> "log", cmd |-> c, ok |-> FALSE]
  /\ UNCHANGED <<uiVars, pipeVars, log, ipc, rx, netVars, gwVars, faults>>

\* The row is overwritten even if the answer has come meanwhile.
LogHardTimeout ==
  /\ tm.at = "log"
  /\ log' = [log EXCEPT ![tm.cmd] = "timeout"]
  /\ Deliver("command_log_update", tm.cmd, "timeout")
  /\ tm' = Idle
  /\ UNCHANGED <<uiVars, uiOut, pend, ipc, rx, netVars, gwVars, faults>>

(***************************************************************************)
(* MQTT: messages keep their order and may be lost.                        *)
(***************************************************************************)
LoseMessage ==
  /\ faults < MaxFault /\ faults' = faults + 1
  /\ \/ down # <<>> /\ down' = Tail(down) /\ up' = up
     \/ up # <<>> /\ up' = Tail(up) /\ down' = down
  /\ UNCHANGED <<uiVars, pipeVars, pcVars, gwVars>>

(***************************************************************************)
(* Linux_data, MQTT callback thread.                                       *)
(***************************************************************************)
Busy(t) == t.at # "idle"

\* data_command_process_message stores the cmd_id in the global.
ProcessMessage ==
  /\ ~Busy(gm) /\ down # <<>>
  /\ gm' = [at |-> "exec", cmd |-> Head(down), ok |-> FALSE]
  /\ cur' = Head(down)
  /\ down' = Tail(down)
  /\ work' = [work EXCEPT ![Head(down)] = "taken"]
  /\ mixed' = IF Busy(gl) THEN mixed \cup {Head(down)} ELSE mixed
  /\ UNCHANGED <<uiVars, pipeVars, pcVars, up, gl, relay, faults>>

\* The cmd_id an acknowledgement carries: the global, read without a lock
\* while the other thread may be writing it.
AckCmdIds(other) == {cur} \cup (IF Busy(other) THEN {NoCmd} ELSE {})

\* data_ack_send_*: the acknowledgement goes to the port's topic, except some
\* refusals of device commands, which go to the gateway's.
SendAck(other, ok, ports) ==
  \E id \in AckCmdIds(other), port \in ports :
    up' = IF id = NoCmd THEN up
          ELSE Append(up, [cmd |-> id, ok |-> ok, port |-> port])

\* The command runs, is answered and its cmd_id cleared.
HandleSetRelay ==
  /\ gm.at = "exec" /\ cmds[gm.cmd].kind = "set_relay"
  /\ \E ok \in BOOLEAN :
       /\ relay' = IF ok THEN cmds[gm.cmd].states ELSE relay
       /\ work' = [work EXCEPT ![gm.cmd] = IF ok THEN "done" ELSE "refused"]
       /\ SendAck(gl, ok, {TRUE})
  /\ gm' = Idle /\ cur' = NoCmd
  /\ UNCHANGED <<uiVars, pipeVars, pcVars, down, gl, mixed, faults>>

HandleDevice ==
  /\ gm.at = "exec" /\ cmds[gm.cmd].kind # "set_relay"
  /\ \E ok \in BOOLEAN :
       /\ work' = [work EXCEPT ![gm.cmd] = IF ok THEN "done" ELSE "refused"]
       /\ SendAck(gl, ok, IF ok THEN {TRUE} ELSE BOOLEAN)
  /\ gm' = Idle /\ cur' = NoCmd
  /\ UNCHANGED <<uiVars, pipeVars, pcVars, down, gl, relay, mixed, faults>>

(***************************************************************************)
(* Linux_data, thread of the local screen: its commands have no cmd_id and *)
(* here concern another device than the relay board.                       *)
(***************************************************************************)
LocalProcessMessage ==
  /\ ~Busy(gl) /\ faults < MaxFault /\ faults' = faults + 1
  /\ gl' = [Idle EXCEPT !.at = "exec"]
  /\ cur' = NoCmd
  /\ mixed' = IF Busy(gm) THEN mixed \cup {gm.cmd} ELSE mixed
  /\ UNCHANGED <<uiVars, pipeVars, pcVars, netVars, gm, relay, work>>

LocalHandle ==
  /\ gl.at = "exec"
  /\ \E ok \in BOOLEAN : SendAck(gm, ok, {TRUE})
  /\ gl' = Idle /\ cur' = NoCmd
  /\ UNCHANGED <<uiVars, pipeVars, pcVars, down, gm, relay, work, mixed, faults>>

-----------------------------------------------------------------------------
IpcThread == \/ AcceptRelay \/ AcceptDevice \/ RememberPendingCommand \/ ReplySent
RxThread == TakeAck \/ ReplyAck \/ LogAck
TimerThread == \/ \E c \in Ids : CollectHardTimeout(c)
               \/ LogHardTimeout
GatewayThread == \/ ProcessMessage \/ HandleSetRelay \/ HandleDevice
LocalThread == LocalProcessMessage \/ LocalHandle
User == \/ \E ch \in Channels : SendRelayCommand(ch)
        \/ \E kind \in DeviceKinds : SendDeviceCommand(kind)

Next == \/ User \/ UiReceive \/ ShowStates
        \/ IpcThread \/ RxThread \/ TimerThread
        \/ LoseMessage \/ GatewayThread \/ LocalThread

\* The threads of Pc_data loop for ever and Pc_ui's event loop drains the
\* pipe; nothing is assumed of the network or of the gateway.
Fairness == WF_vars(IpcThread) /\ WF_vars(RxThread) /\ WF_vars(TimerThread)
            /\ WF_vars(UiReceive)

Spec == Init /\ [][Next]_vars /\ Fairness

-----------------------------------------------------------------------------
Outcome == [c \in Ids |-> IF ui[c] \in Open THEN "open" ELSE ui[c]]

Contract == INSTANCE CommandContract WITH Cmds <- Ids, outcome <- Outcome, work <- work

\* The chain implements CommandContract: a command is executed at most once
\* and only while the interface waits for it, is closed at most once, and is
\* reported successful only after the gateway took it, although answers are
\* lost, late, repeated over two channels and tagged through a shared global.
ImplementsContract == Contract!Spec

\* The bits of relayStates are the channels of the board from the first one
\* up (DeviceData.hpp:60), so that Pc_ui shows every channel as it was read
\* from the board.
PcUiShowsReading == ShownByPcUi(PackDevice(RelayReading(relay))) = relay

\* A command reported successful (command_ack done, CommandManager.cpp:368)
\* was executed by the gateway, if no command of the local screen ran beside
\* it there.
SuccessIsOwn == \A c \in Ids : ui[c] = "success" /\ c \notin mixed => work[c] = "done"

\* A command the interface has closed is closed in command_log too once the
\* threads of Pc_data are idle: no late 'sent' overwrites the answer.
ClosedInLog ==
  ipc.at = "idle" /\ rx.at = "idle" =>
    \A c \in Ids : ui[c] \in {"success", "failed"} => log[c] \notin {"pending", "sent"}

\* While a relay command is open, executing a later one (which writes every
\* channel) does not undo what the first has already switched.
OpenCommandKept ==
  [][GatewayThread =>
       \A c \in 1 .. Len(cmds) :
         /\ cmds[c].kind = "set_relay" /\ ui[c] \in Open /\ work[c] = "done"
         /\ relay[cmds[c].ch] = cmds[c].val
         => relay'[cmds[c].ch] = cmds[c].val]_vars

\* Whatever is lost on MQTT, the interface is eventually told of a command
\* success, failure or that its answer is late.
EventuallyTold ==
  \A c \in Ids :
    (ui[c] \in Open) ~> (ui[c] \in {"success", "failed", "timeout_waiting_ack"})
=============================================================================
