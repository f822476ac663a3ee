----------------------------- MODULE PortManager -----------------------------
(***************************************************************************)
(* Linux_data's port_manager.cpp: the slots with their Modbus bus, devices *)
(* and polling thread, and device_config.json.                             *)
(*                                                                         *)
(* connectPort, disconnectPort and handleRelay release impl_->lock several *)
(* times; every section under it is an action.  They run on the IPC        *)
(* thread, on the MQTT callback thread and, for the saved connections, on  *)
(* the main thread, one second after the other two have started.           *)
(*                                                                         *)
(* io_lock is always taken under lock and released without it, so that a   *)
(* thread that waits for io_lock only delays the others: taking both is    *)
(* one step, enabled when io_lock is free.                                 *)
(***************************************************************************)
EXTENDS Integers, FiniteSets

CONSTANTS Slots,        \* 0 .. kSlotCount - 1
          Ports,        \* serial ports
          Devices,      \* slave addresses
          Commanders,   \* threads that execute commands: "ipc", "rx"
          MaxConnects,  \* bound on the connections opened
          MaxFaults     \* bound on failed writes of the configuration file

NoPort == "none"

ASSUME SlotsAssumption      == Slots \subseteq Nat
ASSUME PortsAssumption      == NoPort \notin Ports
ASSUME CallersAssumption    == Commanders \subseteq {"ipc", "rx"}
ASSUME PortBoundsAssumption == MaxConnects \in Nat /\ MaxFaults \in Nat

VARIABLES channel,   \* channels: PortChannel of each slot
          poller,    \* poller[n]: the polling thread that connection n started
          caller,    \* what the main thread and the command threads are doing
          opened,    \* connections begun so far; the last one's number
          file,      \* ports[] and devices[] of device_config.json
          loaded,    \* whether the main thread has read the saved connections
          todo,      \* the saved connections it has still to restore
          overlaps,  \* connects and disconnects that met: on a "slot", on a "port"
          torn,      \* a failed write has left the file unreadable
          faults,    \* failed writes so far
          aborted    \* std::terminate: a joinable std::thread was assigned to

vars == <<channel, poller, caller, opened, file, loaded, todo, overlaps, torn,
          faults, aborted>>

Callers     == Commanders \cup {"main"}
Connections == 1 .. MaxConnects
Closed      == [port |-> NoPort, connected |-> FALSE, bus |-> 0, devices |-> {},
                stop_requested |-> FALSE, poll_running |-> FALSE, poll_thread |-> 0]
Idle        == [step |-> "idle", op |-> "none", slot |-> 0, port |-> NoPort,
                id |-> 0, join |-> 0, bus |-> 0]
NotStarted  == [step |-> "none", slot |-> 0, due |-> {}, bus |-> 0]
EmptyFile   == [ports |-> [s \in Slots |-> NoPort], devices |-> [s \in Slots |-> {}]]

\* Linux_data has just started, with a file that an earlier run may have written.
Init ==
  /\ channel = [s \in Slots |-> Closed]
  /\ poller = [n \in Connections |-> NotStarted]
  /\ caller = [c \in Callers |-> Idle]
  /\ opened = 0
  /\ file \in {f \in [ports : [Slots -> Ports \cup {NoPort}],
                      devices : [Slots -> SUBSET Devices]] :
                 \A s \in Slots : f.ports[s] = NoPort => f.devices[s] = {}}
  /\ loaded = FALSE /\ todo = [s \in Slots |-> NoPort]
  /\ overlaps = {} /\ torn = FALSE /\ faults = 0 /\ aborted = FALSE

\* Nobody holds the slot's io_lock.
IoFree(s) ==
  /\ \A n \in Connections : ~(poller[n].step = "io" /\ poller[n].slot = s)
  /\ \A c \in Callers : ~(caller[c].step = "relay" /\ caller[c].slot = s)

\* writeConfigLocked and saveOfflineCacheConfig: the file is written, cannot be
\* opened, or is left unreadable, which is as good as empty.
Written(content) ==
  /\ file' = content
  /\ UNCHANGED <<torn, faults>>

NotWritten ==
  /\ faults < MaxFaults /\ faults' = faults + 1
  /\ \/ UNCHANGED <<file, torn>>
     \/ file' = EmptyFile /\ torn' = TRUE

\* The ports and devices of all slots, connected or not.
Content(ch) == [ports |-> [s \in Slots |-> ch[s].port],
                devices |-> [s \in Slots |-> ch[s].devices]]

-----------------------------------------------------------------------------
\* Commands that meet: another thread is between two steps of a connect or a
\* disconnect of the slot, or of a connect to the port.
Meets(c, s, p) ==
  LET others == {d \in Callers \ {c} : caller[d].op \in {"connect", "disconnect"}}
  IN  (IF \E d \in others : caller[d].slot = s THEN {"slot"} ELSE {})
      \cup (IF p # NoPort /\ \E d \in others : caller[d].port = p THEN {"port"} ELSE {})

\* Mutant of PortUsedByOtherSlot: the search ends at the slot.
MutPortUsedByLower(s, p) ==
  \E i \in Slots : i < s /\ channel[i].connected /\ channel[i].port = p

\* isPortUsedByOtherSlot
PortUsedByOtherSlot(s, p) ==
  \E i \in Slots \ {s} : channel[i].connected /\ channel[i].port = p

\* connectPort, up to stopPolling.
BeginConnect(c, s, p) ==
  /\ caller[c].step = "idle" /\ opened < MaxConnects
  /\ ~PortUsedByOtherSlot(s, p)
  /\ opened' = opened + 1
  /\ caller' = [caller EXCEPT ![c] = [Idle EXCEPT !.step = "stop", !.op = "connect",
                                        !.slot = s, !.port = p, !.id = opened']]
  /\ overlaps' = overlaps \cup Meets(c, s, p)
  /\ UNCHANGED <<channel, poller, file, torn, faults, aborted>>

\* disconnectPort, up to stopPolling.
BeginDisconnect(c, s) ==
  /\ caller[c].step = "idle" /\ channel[s].connected
  /\ caller' = [caller EXCEPT ![c] = [Idle EXCEPT !.step = "stop", !.op = "disconnect",
                                                  !.slot = s]]
  /\ overlaps' = overlaps \cup Meets(c, s, NoPort)
  /\ UNCHANGED <<channel, poller, opened, file, loaded, todo, torn, faults, aborted>>

\* stopPolling, first section: the std::thread is moved out of the channel.
RequestStop(c) ==
  LET s == caller[c].slot
  IN  /\ caller[c].step = "stop"
      /\ channel' = [channel EXCEPT ![s].stop_requested = TRUE, ![s].poll_thread = 0]
      /\ caller' = [caller EXCEPT ![c].step = "join", ![c].join = channel[s].poll_thread]
      /\ UNCHANGED <<poller, opened, file, loaded, todo, overlaps, torn, faults, aborted>>

\* Mutant of Joined: the thread is not waited for.
MutJoinedAtOnce(c) == TRUE

\* thread_to_join.join() returns
Joined(c) == caller[c].join # 0 => poller[caller[c].join].step = "ended"

\* stopPolling, after the join.
StopPolling(c) ==
  LET s == caller[c].slot
  IN  /\ caller[c].step = "join" /\ Joined(c)
      /\ channel' = [channel EXCEPT ![s].stop_requested = FALSE, ![s].poll_running = FALSE]
      /\ caller' = [caller EXCEPT ![c].join = 0,
                                  ![c].step = IF caller[c].op = "connect" THEN "clear"
                                              ELSE "close"]
      /\ UNCHANGED <<poller, opened, file, loaded, todo, overlaps, torn, faults, aborted>>

\* Mutant of ClearSlot: io_lock is not taken.
MutClearSlotUnlocked(c) ==
  LET s == caller[c].slot
  IN  /\ caller[c].step = "clear"
      /\ channel' = [channel EXCEPT ![s] = [Closed EXCEPT !.poll_thread = channel[s].poll_thread]]
      /\ caller' = [caller EXCEPT ![c].step = "open"]
      /\ UNCHANGED <<poller, opened, file, loaded, todo, overlaps, torn, faults, aborted>>

\* clearSlot
ClearSlot(c) ==
  LET s == caller[c].slot
  IN  /\ caller[c].step = "clear" /\ IoFree(s)
      /\ channel' = [channel EXCEPT ![s] = [Closed EXCEPT !.poll_thread = channel[s].poll_thread]]
      /\ caller' = [caller EXCEPT ![c].step = "open"]
      /\ UNCHANGED <<poller, opened, file, loaded, todo, overlaps, torn, faults, aborted>>

\* createBus and init fail: open_port_failed.
OpenFails(c) ==
  /\ caller[c].step = "open"
  /\ caller' = [caller EXCEPT ![c] = Idle]
  /\ UNCHANGED <<channel, poller, opened, file, loaded, todo, overlaps, torn, faults, aborted>>

\* startPollingLocked on the channel ch of slot s: nothing if poll_running is set;
\* otherwise a new thread is assigned to poll_thread, which must not be joinable.
StartPolling(s, ch, n) ==
  IF ch.poll_running
  THEN /\ channel' = [channel EXCEPT ![s] = ch]
       /\ UNCHANGED <<poller, aborted>>
  ELSE /\ channel' = [channel EXCEPT ![s] = [ch EXCEPT !.poll_running = TRUE,
                                                       !.poll_thread = n]]
       /\ poller' = [poller EXCEPT ![n] = [NotStarted EXCEPT !.step = "check", !.slot = s]]
       /\ aborted' = (ch.poll_thread # 0)

\* loadDevicesForSlotLocked: saved devices of the slot that it does not have yet.
LoadDevices(s) == channel[s].devices \cup file.devices[s]

\* connectPort, last section: the bus replaces the channel's without io_lock, the
\* saved devices are loaded, polling starts and the file is written.  If the
\* write fails, connectPort reports it and leaves the port connected.
FinishConnect(c) ==
  LET s == caller[c].slot
      n == caller[c].id
      ch == [channel[s] EXCEPT !.port = caller[c].port, !.bus = n, !.connected = TRUE,
                               !.stop_requested = FALSE,
                               !.devices = LoadDevices(s)]
  IN  /\ caller[c].step = "open"
      /\ StartPolling(s, ch, n)
      /\ Written(Content(channel')) \/ NotWritten
      /\ caller' = [caller EXCEPT ![c] = Idle]
      /\ UNCHANGED <<opened, loaded, todo, overlaps>>

\* disconnectPort, last section: port and file are kept.
FinishDisconnect(c) ==
  LET s == caller[c].slot
  IN  /\ caller[c].step = "close" /\ IoFree(s)
      /\ channel' = [channel EXCEPT ![s] =
                       [Closed EXCEPT !.port = channel[s].port,
                                      !.poll_thread = channel[s].poll_thread]]
      /\ caller' = [caller EXCEPT ![c] = Idle]
      /\ UNCHANGED <<poller, opened, file, loaded, todo, overlaps, torn, faults, aborted>>

-----------------------------------------------------------------------------
\* restoreSavedConnections, on the main thread: the saved ports are read once, ...
LoadSaved ==
  /\ ~loaded
  /\ loaded' = TRUE /\ todo' = file.ports
  /\ UNCHANGED <<channel, poller, caller, opened, file, overlaps, torn, faults, aborted>>

NextSaved(s) == todo[s] # NoPort /\ \A i \in Slots : i < s => todo[i] = NoPort

\* ... and connected in the order of the slots,
RestoreConnect(s) ==
  /\ NextSaved(s)
  /\ BeginConnect("main", s, todo[s])
  /\ todo' = [todo EXCEPT ![s] = NoPort]
  /\ UNCHANGED loaded

\* unless the port is absent, in use or not to be restored.
RestoreSkip(s) ==
  /\ caller["main"].step = "idle" /\ NextSaved(s)
  /\ todo' = [todo EXCEPT ![s] = NoPort]
  /\ UNCHANGED <<channel, poller, caller, opened, file, loaded, overlaps, torn, faults, aborted>>

-----------------------------------------------------------------------------
\* Commands that hold the lock throughout.
deviceUnchanged == <<poller, caller, opened, loaded, todo, overlaps, aborted>>

With(s, devices) == [channel EXCEPT ![s].devices = devices]

\* Mutant of AddDevice: the device stays although it could not be saved.
MutAddDeviceKeeps(c, s, d) ==
  /\ caller[c].step = "idle"
  /\ channel[s].connected /\ d \notin channel[s].devices /\ IoFree(s)
  /\ channel' = With(s, channel[s].devices \cup {d})
  /\ Written(Content(channel')) \/ NotWritten
  /\ UNCHANGED deviceUnchanged

\* addDevice, for a device that answers: saved, or taken back.
AddDevice(c, s, d) ==
  LET added == With(s, channel[s].devices \cup {d})
  IN  /\ caller[c].step = "idle"
      /\ channel[s].connected /\ d \notin channel[s].devices /\ IoFree(s)
      /\ \/ channel' = added /\ Written(Content(added))
         \/ UNCHANGED channel /\ NotWritten
      /\ UNCHANGED deviceUnchanged

\* removeDevice
RemoveDevice(c, s, d) ==
  LET removed == With(s, channel[s].devices \ {d})
  IN  /\ caller[c].step = "idle"
      /\ channel[s].connected /\ d \in channel[s].devices
      /\ \/ channel' = removed /\ Written(Content(removed))
         \/ UNCHANGED channel /\ NotWritten
      /\ UNCHANGED deviceUnchanged

\* setDeviceThreshold: the value is not modelled, the write of the whole file is.
SetDeviceThreshold(c, s) ==
  /\ caller[c].step = "idle"
  /\ channel[s].connected /\ channel[s].devices # {}
  /\ Written(Content(channel)) \/ NotWritten
  /\ UNCHANGED <<channel, deviceUnchanged>>

\* saveOfflineCacheConfig reads the file and writes it back with two other flags.
SaveOfflineCacheConfig(c) ==
  /\ caller[c].step = "idle"
  /\ Written(file) \/ NotWritten
  /\ UNCHANGED <<channel, deviceUnchanged>>

\* handleRelay: the device is found and io_lock taken under lock, ...
BeginRelay(c, s) ==
  /\ caller[c].step = "idle"
  /\ channel[s].connected /\ channel[s].devices # {} /\ IoFree(s)
  /\ caller' = [caller EXCEPT ![c] = [Idle EXCEPT !.step = "relay", !.op = "relay",
                                                  !.slot = s, !.bus = channel[s].bus]]
  /\ UNCHANGED <<channel, poller, opened, file, loaded, todo, overlaps, torn, faults, aborted>>

\* ... and the relay written with io_lock alone.
EndRelay(c) ==
  /\ caller[c].step = "relay"
  /\ caller' = [caller EXCEPT ![c] = Idle]
  /\ UNCHANGED <<channel, poller, opened, file, loaded, todo, overlaps, torn, faults, aborted>>

-----------------------------------------------------------------------------
pollUnchanged == <<caller, opened, file, loaded, todo, overlaps, torn, faults, aborted>>

\* Mutant of MustExit: the stop flag is not looked at.
MutMustExitLater(s) == ~channel[s].connected \/ channel[s].bus = 0

MustExit(s) == channel[s].stop_requested \/ ~channel[s].connected \/ channel[s].bus = 0

\* pollThreadMain, the loop's condition, and pollSlot's choice of the devices due.
\* (pollSlot looks at connected and bus once more; it finds nothing due if they
\* have changed, as if the loop's condition had been evaluated then.)
PollCheck(n) ==
  LET s == poller[n].slot
  IN  /\ poller[n].step = "check"
      /\ IF MustExit(s)
         THEN poller' = [poller EXCEPT ![n].step = "exit"]
         ELSE \E due \in SUBSET channel[s].devices \ {{}} :
                poller' = [poller EXCEPT ![n].step = "device", ![n].due = due]
      /\ UNCHANGED <<channel, pollUnchanged>>

\* pollDevice, first section: io_lock is taken if the slot is still connected.
PollBegin(n) ==
  LET s == poller[n].slot
  IN  /\ poller[n].step = "device"
      /\ IF channel[s].connected /\ channel[s].bus # 0
         THEN /\ IoFree(s)
              /\ poller' = [poller EXCEPT ![n].step = "io", ![n].bus = channel[s].bus]
         ELSE poller' = [poller EXCEPT ![n].step = "check", ![n].due = {}]
      /\ UNCHANGED <<channel, pollUnchanged>>

\* The read, without lock; the result is recorded and published afterwards.
PollEnd(n) ==
  /\ poller[n].step = "io"
  /\ \E d \in poller[n].due :
       LET rest == poller[n].due \ {d}
       IN  poller' = [poller EXCEPT ![n].bus = 0, ![n].due = rest,
                                    ![n].step = IF rest = {} THEN "check" ELSE "device"]
  /\ UNCHANGED <<channel, pollUnchanged>>

\* The end of pollThreadMain.
PollExit(n) ==
  LET s == poller[n].slot
  IN  /\ poller[n].step = "exit"
      /\ channel' = [channel EXCEPT ![s].poll_running = FALSE, ![s].stop_requested = FALSE]
      /\ poller' = [poller EXCEPT ![n].step = "ended"]
      /\ UNCHANGED pollUnchanged

-----------------------------------------------------------------------------
CallerStep(c) ==
  \/ RequestStop(c) \/ StopPolling(c) \/ ClearSlot(c) \/ OpenFails(c)
  \/ FinishConnect(c) \/ FinishDisconnect(c) \/ EndRelay(c)

PollerStep(n) == PollCheck(n) \/ PollBegin(n) \/ PollEnd(n) \/ PollExit(n)

Command(c) ==
  \/ \E s \in Slots, p \in Ports : BeginConnect(c, s, p) /\ UNCHANGED <<loaded, todo>>
  \/ \E s \in Slots : BeginDisconnect(c, s) \/ BeginRelay(c, s) \/ SetDeviceThreshold(c, s)
  \/ \E s \in Slots, d \in Devices : AddDevice(c, s, d) \/ RemoveDevice(c, s, d)
  \/ SaveOfflineCacheConfig(c)

Next ==
  /\ ~aborted
  /\ \/ LoadSaved
     \/ \E s \in Slots : RestoreConnect(s) \/ RestoreSkip(s)
     \/ \E c \in Commanders : Command(c)
     \/ \E c \in Callers : CallerStep(c)
     \/ \E n \in Connections : PollerStep(n)

Spec == Init /\ [][Next]_vars

\* Every thread goes on.  A polling thread that waits for io_lock holds lock, so
\* that nobody can take io_lock before it again and again: strong fairness.
LiveSpec ==
  /\ Spec
  /\ \A c \in Callers : WF_vars(~aborted /\ CallerStep(c))
  /\ \A n \in Connections : SF_vars(~aborted /\ PollerStep(n))

-----------------------------------------------------------------------------
\* The shape of the state; connected and bus change together.
TypeOK ==
  /\ \A s \in Slots :
       /\ channel[s].port \in Ports \cup {NoPort}
       /\ channel[s].devices \subseteq Devices
       /\ channel[s].bus \in 0 .. opened /\ channel[s].poll_thread \in 0 .. opened
       /\ channel[s].connected <=> channel[s].bus # 0
       /\ {channel[s].stop_requested, channel[s].poll_running} \subseteq BOOLEAN
  /\ \A n \in Connections :
       /\ poller[n].step \in {"none", "check", "device", "io", "exit", "ended"}
       /\ poller[n].due \subseteq Devices
  /\ \A c \in Callers :
       caller[c].step \in {"idle", "stop", "join", "clear", "open", "close", "relay"}
  /\ opened \in 0 .. MaxConnects /\ faults \in 0 .. MaxFaults
  /\ overlaps \subseteq {"slot", "port"}

\* Nobody is reading or writing on a bus that has been closed or replaced, unless
\* two connects or disconnects of one slot overlapped: the last section of
\* connectPort replaces the bus without io_lock.
BusOutlivesUse ==
  \/ "slot" \in overlaps
  \/ /\ \A n \in Connections :
          poller[n].step = "io" => channel[poller[n].slot].bus = poller[n].bus
     /\ \A c \in Callers :
          caller[c].step = "relay" => channel[caller[c].slot].bus = caller[c].bus

Busy(s) == \E c \in Callers : caller[c].op \in {"connect", "disconnect"} /\ caller[c].slot = s

\* A polling thread belongs to its slot or to the command that joins it, so that
\* none is left behind or overwritten while joinable, which would end the process;
\* and a connected slot is polled, by a thread that was not asked to stop.
PollerIsOwned ==
  \/ "slot" \in overlaps
  \/ /\ ~aborted
     /\ \A n \in Connections :
          poller[n].step \in {"check", "device", "io", "exit"} =>
            \/ channel[poller[n].slot].poll_thread = n
            \/ \E c \in Callers : caller[c].step = "join" /\ caller[c].join = n
     /\ \A s \in Slots :
          channel[s].connected /\ ~Busy(s) =>
            /\ poller[channel[s].poll_thread].step \in {"check", "device", "io"}
            /\ channel[s].poll_running /\ ~channel[s].stop_requested

\* No serial port is open in two slots, unless two connects to it overlapped: the
\* test at the start of connectPort is not repeated when the port is open.
OneSlotPerPort ==
  \/ "port" \in overlaps
  \/ \A s, t \in Slots :
       channel[s].connected /\ channel[t].connected /\ channel[s].port = channel[t].port
         => s = t

\* The devices of a connected slot are those the file has for it, so that a restart
\* finds them: a command whose write fails takes its change back.
DevicesAreSaved ==
  torn \/ \A s \in Slots : channel[s].connected => channel[s].devices = file.devices[s]

\* A command that stops a polling thread gets it to stop, unless a second command
\* for the slot overlapped and reset the stop flag.
StopEnds ==
  \A c \in Callers :
    caller[c].step = "join" ~> (caller[c].step # "join" \/ "slot" \in overlaps)

=============================================================================
