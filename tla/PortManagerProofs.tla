-------------------------- MODULE PortManagerProofs --------------------------
(***************************************************************************)
(* Proofs about PortManager, for any number of slots, ports, devices and   *)
(* connections and for both command threads.                               *)
(*                                                                         *)
(* The four invariants the runs check are not inductive.  The strengthened *)
(* invariant follows a command that connects or disconnects a slot through *)
(* its sections: what it has already stopped, closed and cleared, and that *)
(* everything it has left alone since the last section is still so.        *)
(***************************************************************************)
EXTENDS PortManager, TLAPS

Steps  == {"idle", "stop", "join", "clear", "open", "close", "relay"}
Polls  == {"check", "device", "io"}        \* the steps of a poller that goes on
Alive  == Polls \cup {"exit"}

Channel ==
  [port : Ports \cup {NoPort}, connected : BOOLEAN, bus : 0 .. MaxConnects,
   devices : SUBSET Devices, stop_requested : BOOLEAN, poll_running : BOOLEAN,
   poll_thread : 0 .. MaxConnects]
Poller ==
  [step : Alive \cup {"none", "ended"}, slot : Slots \cup {0}, due : SUBSET Devices,
   bus : 0 .. MaxConnects]
Caller ==
  [step : Steps, op : {"none", "connect", "disconnect", "relay"}, slot : Slots \cup {0},
   port : Ports \cup {NoPort}, id : 0 .. MaxConnects, join : 0 .. MaxConnects,
   bus : 0 .. MaxConnects]
File == [ports : [Slots -> Ports \cup {NoPort}], devices : [Slots -> SUBSET Devices]]

Types ==
  /\ channel \in [Slots -> Channel]
  /\ poller \in [Connections -> Poller]
  /\ caller \in [Callers -> Caller]
  /\ opened \in 0 .. MaxConnects /\ faults \in 0 .. MaxFaults
  /\ file \in File /\ todo \in [Slots -> Ports \cup {NoPort}]
  /\ overlaps \subseteq {"slot", "port"}
  /\ torn \in BOOLEAN /\ aborted \in BOOLEAN

\* A thread executes a connect or a disconnect.
Commands(w) == w.op \in {"connect", "disconnect"}

\* What a thread is doing fits the command it executes.
Fits(w) ==
  /\ w.step = "idle" <=> w.op = "none"
  /\ w.step = "relay" <=> w.op = "relay"
  /\ w.op = "connect" => /\ w.step \in {"stop", "join", "clear", "open"}
                         /\ w.port \in Ports /\ w.id # 0
  /\ w.op = "disconnect" => w.step \in {"stop", "join", "close"}
  /\ w.op # "none" => w.slot \in Slots
  /\ w.join # 0 => w.step = "join"

\* A bus is there while the port is connected, and devices only then.
Bused(ch) ==
  /\ ch.connected <=> ch.bus # 0
  /\ ~ch.connected => ch.devices = {}

Shapes ==
  /\ \A c \in Callers : Fits(caller[c])
  /\ \A s \in Slots : Bused(channel[s])
  /\ \A n \in Connections : poller[n].step # "none" => poller[n].slot \in Slots

\* A connection has a number of its own, and no thread before it is established.
Numbers ==
  /\ \A c \in Callers : caller[c].op = "connect" =>
       /\ caller[c].id <= opened
       /\ poller[caller[c].id].step = "none"
       /\ \A d \in Callers \ {c} : caller[d].op = "connect" => caller[d].id # caller[c].id
  /\ \A n \in Connections : poller[n].step # "none" => n <= opened
  /\ \A s \in Slots : channel[s].bus <= opened /\ channel[s].poll_thread <= opened

\* What the test at the start of a connect has found is still so.
PortsApart ==
  "port" \notin overlaps =>
    /\ \A c \in Callers : caller[c].op = "connect" =>
         /\ ~PortUsedByOtherSlot(caller[c].slot, caller[c].port)
         /\ \A d \in Callers \ {c} : caller[d].op = "connect" => caller[d].port # caller[c].port
    /\ \A s \in Slots : channel[s].connected => ~PortUsedByOtherSlot(s, channel[s].port)

\* One command at a time works on a slot.
Alone ==
  \A c, d \in Callers :
    Commands(caller[c]) /\ Commands(caller[d]) /\ caller[c].slot = caller[d].slot => c = d

\* A slot that no command has begun to stop.
Untouched(s) ==
  \A c \in Callers : Commands(caller[c]) /\ caller[c].slot = s => caller[c].step = "stop"

Polled(s) ==
  IF channel[s].connected
  THEN /\ channel[s].poll_thread # 0
       /\ poller[channel[s].poll_thread].step \in Polls
       /\ poller[channel[s].poll_thread].slot = s
       /\ channel[s].poll_running /\ ~channel[s].stop_requested
  ELSE channel[s].poll_thread = 0 /\ ~channel[s].poll_running

\* What a command has done to its slot so far.
Stopped(w) ==
  /\ w.step \in {"join", "clear", "open", "close"} => channel[w.slot].poll_thread = 0
  /\ w.step \in {"clear", "open", "close"} => ~channel[w.slot].poll_running
  /\ w.step = "open" => ~channel[w.slot].connected

Owned(n) ==
  \/ channel[poller[n].slot].poll_thread = n
  \/ \E c \in Callers : /\ caller[c].step = "join" /\ caller[c].join = n
                        /\ caller[c].slot = poller[n].slot

SlotsApart ==
  "slot" \notin overlaps =>
    /\ ~aborted
    /\ Alone
    /\ \A s \in Slots : Untouched(s) => Polled(s)
    /\ \A c \in Callers : Stopped(caller[c])
    /\ \A n \in Connections : poller[n].step \in Alive => Owned(n)
    /\ \A n \in Connections :
         poller[n].step = "io" => poller[n].bus # 0 /\ channel[poller[n].slot].bus = poller[n].bus
    /\ \A c \in Callers :
         caller[c].step = "relay" => caller[c].bus # 0 /\ channel[caller[c].slot].bus = caller[c].bus

IInv == Types /\ Shapes /\ Numbers /\ DevicesAreSaved /\ PortsApart /\ SlotsApart

-----------------------------------------------------------------------------
\* Records

\* The fields of the three kinds of records.
LEMMA CallerFields ==
  ASSUME NEW w \in Caller
  PROVE  /\ w.step \in Steps /\ w.op \in {"none", "connect", "disconnect", "relay"}
         /\ w.slot \in Slots \cup {0} /\ w.port \in Ports \cup {NoPort}
         /\ w.id \in Nat /\ w.join \in Nat /\ w.bus \in Nat
         /\ w.id \in 0 .. MaxConnects /\ w.join \in 0 .. MaxConnects
BY PortBoundsAssumption DEF Caller

\* ... of a slot,
LEMMA ChannelFields ==
  ASSUME NEW ch \in Channel
  PROVE  /\ ch.port \in Ports \cup {NoPort} /\ ch.devices \subseteq Devices
         /\ ch.connected \in BOOLEAN /\ ch.stop_requested \in BOOLEAN /\ ch.poll_running \in BOOLEAN
         /\ ch.bus \in Nat /\ ch.poll_thread \in Nat
         /\ ch.bus \in 0 .. MaxConnects /\ ch.poll_thread \in 0 .. MaxConnects
BY PortBoundsAssumption DEF Channel

\* ... and of a polling thread.
LEMMA PollerFields ==
  ASSUME NEW p \in Poller
  PROVE  /\ p.step \in Alive \cup {"none", "ended"} /\ p.slot \in Slots \cup {0}
         /\ p.due \subseteq Devices /\ p.bus \in Nat
BY PortBoundsAssumption DEF Poller

\* A thread moves on, the others do not.
LEMMA CallerMoves ==
  ASSUME Types, NEW c \in Callers, NEW w \in Caller, caller' = [caller EXCEPT ![c] = w]
  PROVE  /\ caller' \in [Callers -> Caller] /\ caller'[c] = w
         /\ \A d \in Callers \ {c} : caller'[d] = caller[d]
BY DEF Types

\* A slot changes, the others do not.
LEMMA ChannelMoves ==
  ASSUME Types, NEW s \in Slots, NEW ch \in Channel, channel' = [channel EXCEPT ![s] = ch]
  PROVE  /\ channel' \in [Slots -> Channel] /\ channel'[s] = ch
         /\ \A t \in Slots \ {s} : channel'[t] = channel[t]
BY DEF Types

\* A polling thread moves on, the others do not.
LEMMA PollerMoves ==
  ASSUME Types, NEW n \in Connections, NEW p \in Poller, poller' = [poller EXCEPT ![n] = p]
  PROVE  /\ poller' \in [Connections -> Poller] /\ poller'[n] = p
         /\ \A m \in Connections \ {n} : poller'[m] = poller[m]
BY DEF Types

-----------------------------------------------------------------------------
\* The sections of connectPort and disconnectPort

\* A thread that becomes idle leaves the others as they are.
LEMMA IdleFits == Idle \in Caller /\ Fits(Idle) /\ ~Commands(Idle) /\ Idle.step = "idle"
BY PortBoundsAssumption DEF Idle, Caller, Fits, Commands, Steps

\* A closed slot.
LEMMA ClosedFits ==
  /\ Closed \in Channel /\ Closed.bus = 0 /\ Closed.connected = FALSE /\ Closed.devices = {}
  /\ Closed.poll_running = FALSE /\ Closed.poll_thread = 0
BY PortBoundsAssumption DEF Closed, Channel

\* connectPort up to stopPolling; the main thread also ticks off the slot.
LEMMA BeginConnectInv ==
  ASSUME IInv, NEW c \in Callers, NEW s \in Slots, NEW p \in Ports, BeginConnect(c, s, p),
         todo' \in [Slots -> Ports \cup {NoPort}]
  PROVE  IInv'
<1> DEFINE w == [Idle EXCEPT !.step = "stop", !.op = "connect", !.slot = s, !.port = p,
                             !.id = opened']
<1>1. /\ opened \in Nat /\ opened < MaxConnects /\ opened' = opened + 1
      /\ UNCHANGED <<channel, poller, file, torn, faults, aborted>>
      /\ caller' = [caller EXCEPT ![c] = w] /\ caller[c].step = "idle"
      /\ overlaps' = overlaps \cup Meets(c, s, p) /\ ~PortUsedByOtherSlot(s, p)
  BY PortBoundsAssumption DEF IInv, Types, BeginConnect
<1>2. /\ w \in Caller /\ w.step = "stop" /\ w.op = "connect" /\ w.slot = s /\ w.port = p
      /\ w.id = opened + 1 /\ w.join = 0
  <2>1. opened' \in 0 .. MaxConnects
    BY <1>1, PortBoundsAssumption
  <2>2. w \in Caller
    BY <2>1, IdleFits DEF Caller, Steps
  <2>3. w.step = "stop" /\ w.op = "connect" /\ w.slot = s /\ w.port = p /\ w.id = opened'
    BY IdleFits DEF Caller
  <2>4. w.join = 0
    BY DEF Idle
  <2> QED BY <1>1, <2>2, <2>3, <2>4
<1> HIDE DEF w
<1>3. /\ caller' \in [Callers -> Caller] /\ caller'[c] = w
      /\ \A d \in Callers \ {c} : caller'[d] = caller[d]
  BY <1>1, <1>2, CallerMoves DEF IInv
<1>4. Types'
  BY <1>1, <1>3, PortBoundsAssumption DEF IInv, Types, Meets
<1>5. Shapes'
  <2>1. Fits(w)
    BY <1>2, PortBoundsAssumption, <1>1 DEF Fits
  <2> QED BY <1>1, <1>3, <2>1 DEF IInv, Shapes
<1>6. Numbers'
  <2>1. \A d \in Callers \ {c} : caller[d].op = "connect" => caller[d].id # w.id
    BY <1>1, <1>2, CallerFields DEF IInv, Types, Numbers
  <2>2. w.id \in Connections /\ poller[w.id].step = "none"
    BY <1>1, <1>2, PortBoundsAssumption DEF IInv, Numbers, Connections
  <2>3. \A d \in Callers \ {c} : caller[d].op = "connect" => caller[d].id <= opened'
    BY <1>1, CallerFields DEF IInv, Types, Numbers
  <2>4. \A n \in Connections : poller[n].step # "none" => n <= opened'
    BY <1>1, PortBoundsAssumption DEF IInv, Numbers, Connections
  <2>5. \A t \in Slots : channel[t].bus <= opened' /\ channel[t].poll_thread <= opened'
    BY <1>1, ChannelFields DEF IInv, Types, Numbers
  <2>6. w.id <= opened'
    BY <1>1, <1>2
  <2> QED BY <1>1, <1>2, <1>3, <2>1, <2>2, <2>3, <2>4, <2>5, <2>6 DEF IInv, Numbers
<1>7. DevicesAreSaved'
  BY <1>1 DEF IInv, DevicesAreSaved
<1>8. PortsApart'
  <2> SUFFICES ASSUME "port" \notin overlaps' PROVE PortsApart'
    BY DEF PortsApart
  <2>1. "port" \notin overlaps
    BY <1>1
  <2>2. \A d \in Callers \ {c} : caller[d].op = "connect" => caller[d].port # p
    BY <1>1, PortsAssumption DEF Meets
  <2> QED BY <1>1, <1>2, <1>3, <2>1, <2>2 DEF IInv, PortsApart, PortUsedByOtherSlot
<1>9. SlotsApart'
  <2> SUFFICES ASSUME "slot" \notin overlaps' PROVE SlotsApart'
    BY DEF SlotsApart
  <2>1. "slot" \notin overlaps
    BY <1>1
  <2>2. \A d \in Callers \ {c} : Commands(caller[d]) => caller[d].slot # s
    BY <1>1 DEF Meets, Commands
  <2>3. Alone'
    BY <1>2, <1>3, <2>1, <2>2 DEF IInv, SlotsApart, Alone
  <2>4. \A t \in Slots : Untouched(t)' => Untouched(t)
    BY <1>1, <1>3, IdleFits DEF IInv, Shapes, Fits, Untouched, Commands
  <2>5. \A t \in Slots : Untouched(t)' => Polled(t)'
    BY <1>1, <2>1, <2>4 DEF IInv, SlotsApart, Polled
  <2>6. \A d \in Callers : Stopped(caller[d])'
    BY <1>1, <1>2, <1>3, <2>1 DEF IInv, SlotsApart, Stopped
  <2>7. \A n \in Connections : poller'[n].step \in Alive => Owned(n)'
    BY <1>1, <1>3, <2>1 DEF IInv, SlotsApart, Owned
  <2>8. \A d \in Callers : caller'[d].step = "relay" =>
          caller'[d].bus # 0 /\ channel'[caller'[d].slot].bus = caller'[d].bus
    BY <1>1, <1>2, <1>3, <2>1 DEF IInv, SlotsApart
  <2> QED BY <1>1, <2>1, <2>3, <2>5, <2>6, <2>7, <2>8 DEF IInv, SlotsApart
<1> QED BY <1>4, <1>5, <1>6, <1>7, <1>8, <1>9 DEF IInv

\* A thread begins or ends something other than a connect, and nothing else changes.
LEMMA CallerFrame ==
  ASSUME IInv, NEW c \in Callers, NEW w \in Caller, caller' = [caller EXCEPT ![c] = w],
         Fits(w), w.op # "connect",
         UNCHANGED <<channel, poller, opened, file, todo, torn, faults, aborted>>,
         overlaps' \subseteq {"slot", "port"}, overlaps \subseteq overlaps'
  PROVE  /\ caller'[c] = w /\ \A d \in Callers \ {c} : caller'[d] = caller[d]
         /\ Types' /\ Shapes' /\ Numbers' /\ DevicesAreSaved' /\ PortsApart'
<1>1. /\ caller' \in [Callers -> Caller] /\ caller'[c] = w
      /\ \A d \in Callers \ {c} : caller'[d] = caller[d]
  BY CallerMoves DEF IInv
<1>2. Types'
  BY <1>1 DEF IInv, Types
<1>3. Shapes'
  BY <1>1 DEF IInv, Shapes
<1>4. Numbers'
  BY <1>1 DEF IInv, Numbers
<1>5. DevicesAreSaved'
  BY DEF IInv, DevicesAreSaved
<1>6. PortsApart'
  BY <1>1 DEF IInv, PortsApart, PortUsedByOtherSlot
<1> QED BY <1>1, <1>2, <1>3, <1>4, <1>5, <1>6

\* disconnectPort up to stopPolling.
LEMMA BeginDisconnectInv ==
  ASSUME IInv, NEW c \in Callers, NEW s \in Slots, BeginDisconnect(c, s)
  PROVE  IInv'
<1> DEFINE w == [Idle EXCEPT !.step = "stop", !.op = "disconnect", !.slot = s]
<1>1. /\ UNCHANGED <<channel, poller, opened, file, todo, torn, faults, aborted>>
      /\ caller' = [caller EXCEPT ![c] = w] /\ caller[c].step = "idle"
      /\ overlaps' = overlaps \cup Meets(c, s, NoPort)
  BY DEF BeginDisconnect
<1>2. /\ w \in Caller /\ w.step = "stop" /\ w.op = "disconnect" /\ w.slot = s /\ w.join = 0
  <2>1. w \in Caller
    BY IdleFits DEF Caller, Steps
  <2>2. w.step = "stop" /\ w.op = "disconnect" /\ w.slot = s
    BY IdleFits DEF Caller
  <2>3. w.join = 0
    BY DEF Idle
  <2> QED BY <2>1, <2>2, <2>3
<1> HIDE DEF w
<1>3. Fits(w)
  BY <1>2 DEF Fits
<1>4. overlaps' \subseteq {"slot", "port"} /\ overlaps \subseteq overlaps'
  BY <1>1 DEF Meets, IInv, Types
<1>5. /\ caller'[c] = w /\ \A d \in Callers \ {c} : caller'[d] = caller[d]
      /\ Types' /\ Shapes' /\ Numbers' /\ DevicesAreSaved' /\ PortsApart'
  BY <1>1, <1>2, <1>3, <1>4, CallerFrame
<1>9. SlotsApart'
  <2> SUFFICES ASSUME "slot" \notin overlaps' PROVE SlotsApart'
    BY DEF SlotsApart
  <2>1. "slot" \notin overlaps
    BY <1>1
  <2>2. \A d \in Callers \ {c} : Commands(caller[d]) => caller[d].slot # s
    BY <1>1 DEF Meets, Commands
  <2>3. Alone'
    BY <1>2, <1>5, <2>1, <2>2 DEF IInv, SlotsApart, Alone
  <2>4. \A t \in Slots : Untouched(t)' => Untouched(t)
    BY <1>1, <1>5 DEF IInv, Shapes, Fits, Untouched, Commands
  <2>5. \A t \in Slots : Untouched(t)' => Polled(t)'
    BY <1>1, <2>1, <2>4 DEF IInv, SlotsApart, Polled
  <2>6. \A d \in Callers : Stopped(caller[d])'
    BY <1>1, <1>2, <1>5, <2>1 DEF IInv, SlotsApart, Stopped
  <2>7. \A n \in Connections : poller'[n].step \in Alive => Owned(n)'
    BY <1>1, <1>5, <2>1 DEF IInv, SlotsApart, Owned
  <2>8. \A d \in Callers : caller'[d].step = "relay" =>
          caller'[d].bus # 0 /\ channel'[caller'[d].slot].bus = caller'[d].bus
    BY <1>1, <1>2, <1>5, <2>1 DEF IInv, SlotsApart
  <2> QED BY <1>1, <2>1, <2>3, <2>5, <2>6, <2>7, <2>8 DEF IInv, SlotsApart
<1> QED BY <1>5, <1>9 DEF IInv

\* The port cannot be opened: the slot is left as clearSlot has left it.
LEMMA OpenFailsInv ==
  ASSUME IInv, NEW c \in Callers, OpenFails(c)
  PROVE  IInv'
<1>1. /\ UNCHANGED <<channel, poller, opened, file, todo, torn, faults, aborted, overlaps>>
      /\ caller' = [caller EXCEPT ![c] = Idle] /\ caller[c].step = "open"
  BY DEF OpenFails
<1>2. overlaps' \subseteq {"slot", "port"} /\ overlaps \subseteq overlaps' /\ Idle.op # "connect"
  BY <1>1, IdleFits DEF IInv, Types, Commands
<1>5. /\ caller'[c] = Idle /\ \A d \in Callers \ {c} : caller'[d] = caller[d]
      /\ Types' /\ Shapes' /\ Numbers' /\ DevicesAreSaved' /\ PortsApart'
  BY <1>1, <1>2, IdleFits, CallerFrame
<1>9. SlotsApart'
  <2> SUFFICES ASSUME "slot" \notin overlaps' PROVE SlotsApart'
    BY DEF SlotsApart
  <2>1. "slot" \notin overlaps
    BY <1>1
  <2>3. Alone'
    BY <1>5, <2>1, IdleFits DEF IInv, SlotsApart, Alone
  <2> PICK s \in Slots : s = caller[c].slot
    BY <1>1 DEF IInv, Shapes, Fits
  <2>4. Polled(s)'
    BY <1>1, <2>1 DEF IInv, SlotsApart, Stopped, Polled
  <2>5. \A t \in Slots : Untouched(t)' /\ t # s => Untouched(t)
    BY <1>1, <1>5 DEF Untouched
  <2>6. \A t \in Slots : Untouched(t)' => Polled(t)'
    BY <1>1, <2>1, <2>4, <2>5 DEF IInv, SlotsApart, Polled
  <2>7. \A d \in Callers : Stopped(caller[d])'
    BY <1>1, <1>5, <2>1, IdleFits DEF IInv, SlotsApart, Stopped
  <2>8. \A n \in Connections : poller'[n].step \in Alive => Owned(n)'
    BY <1>1, <1>5, <2>1 DEF IInv, SlotsApart, Owned
  <2>9. \A d \in Callers : caller'[d].step = "relay" =>
          caller'[d].bus # 0 /\ channel'[caller'[d].slot].bus = caller'[d].bus
    BY <1>1, <1>5, <2>1, IdleFits DEF IInv, SlotsApart
  <2> QED BY <1>1, <2>1, <2>3, <2>6, <2>7, <2>8, <2>9 DEF IInv, SlotsApart
<1> QED BY <1>5, <1>9 DEF IInv

\* A relay is switched on a bus that is there.
LEMMA BeginRelayInv ==
  ASSUME IInv, NEW c \in Callers, NEW s \in Slots, BeginRelay(c, s)
  PROVE  IInv'
<1> DEFINE w == [Idle EXCEPT !.step = "relay", !.op = "relay", !.slot = s, !.bus = channel[s].bus]
<1>1. /\ UNCHANGED <<channel, poller, opened, file, todo, torn, faults, aborted, overlaps>>
      /\ caller' = [caller EXCEPT ![c] = w] /\ caller[c].step = "idle" /\ channel[s].connected
  BY DEF BeginRelay
<1>2. channel[s] \in Channel /\ channel[s].bus \in 0 .. MaxConnects /\ channel[s].bus # 0
  BY <1>1, ChannelFields DEF IInv, Types, Shapes, Bused
<1>3. /\ w \in Caller /\ w.step = "relay" /\ w.op = "relay" /\ w.slot = s /\ w.join = 0
      /\ w.bus = channel[s].bus
  <2>1. w \in Caller
    BY <1>2, IdleFits DEF Caller, Steps
  <2>2. w.step = "relay" /\ w.op = "relay" /\ w.slot = s /\ w.bus = channel[s].bus
    BY IdleFits DEF Caller
  <2>3. w.join = 0
    BY DEF Idle
  <2> QED BY <2>1, <2>2, <2>3
<1> HIDE DEF w
<1>4. /\ Fits(w) /\ ~Commands(w) /\ overlaps' \subseteq {"slot", "port"}
      /\ overlaps \subseteq overlaps'
  BY <1>1, <1>3 DEF Fits, Commands, IInv, Types
<1>5. /\ caller'[c] = w /\ \A d \in Callers \ {c} : caller'[d] = caller[d]
      /\ Types' /\ Shapes' /\ Numbers' /\ DevicesAreSaved' /\ PortsApart'
  BY <1>1, <1>3, <1>4, CallerFrame
<1>9. SlotsApart'
  <2> SUFFICES ASSUME "slot" \notin overlaps' PROVE SlotsApart'
    BY DEF SlotsApart
  <2>1. "slot" \notin overlaps
    BY <1>1
  <2>3. Alone'
    BY <1>4, <1>5, <2>1 DEF IInv, SlotsApart, Alone
  <2>4. \A t \in Slots : Untouched(t)' => Untouched(t)
    BY <1>1, <1>5 DEF IInv, Shapes, Fits, Untouched, Commands
  <2>5. \A t \in Slots : Untouched(t)' => Polled(t)'
    BY <1>1, <2>1, <2>4 DEF IInv, SlotsApart, Polled
  <2>6. \A d \in Callers : Stopped(caller[d])'
    BY <1>1, <1>3, <1>5, <2>1 DEF IInv, SlotsApart, Stopped
  <2>7. \A n \in Connections : poller'[n].step \in Alive => Owned(n)'
    BY <1>1, <1>5, <2>1 DEF IInv, SlotsApart, Owned
  <2>8. \A d \in Callers : caller'[d].step = "relay" =>
          caller'[d].bus # 0 /\ channel'[caller'[d].slot].bus = caller'[d].bus
    BY <1>1, <1>2, <1>3, <1>5, <2>1 DEF IInv, SlotsApart
  <2> QED BY <1>1, <2>1, <2>3, <2>5, <2>6, <2>7, <2>8 DEF IInv, SlotsApart
<1> QED BY <1>5, <1>9 DEF IInv

\* The relay has been written.
LEMMA EndRelayInv ==
  ASSUME IInv, NEW c \in Callers, EndRelay(c)
  PROVE  IInv'
<1>1. /\ UNCHANGED <<channel, poller, opened, file, todo, torn, faults, aborted, overlaps>>
      /\ caller' = [caller EXCEPT ![c] = Idle] /\ caller[c].step = "relay"
  BY DEF EndRelay
<1>2. overlaps' \subseteq {"slot", "port"} /\ overlaps \subseteq overlaps' /\ Idle.op # "connect"
  BY <1>1, IdleFits DEF IInv, Types, Commands
<1>5. /\ caller'[c] = Idle /\ \A d \in Callers \ {c} : caller'[d] = caller[d]
      /\ Types' /\ Shapes' /\ Numbers' /\ DevicesAreSaved' /\ PortsApart'
  BY <1>1, <1>2, IdleFits, CallerFrame
<1>9. SlotsApart'
  <2> SUFFICES ASSUME "slot" \notin overlaps' PROVE SlotsApart'
    BY DEF SlotsApart
  <2>1. "slot" \notin overlaps
    BY <1>1
  <2>3. Alone'
    BY <1>5, <2>1, IdleFits DEF IInv, SlotsApart, Alone
  <2>4. \A t \in Slots : Untouched(t)' => Untouched(t)
    BY <1>1, <1>5 DEF IInv, Shapes, Fits, Untouched, Commands
  <2>5. \A t \in Slots : Untouched(t)' => Polled(t)'
    BY <1>1, <2>1, <2>4 DEF IInv, SlotsApart, Polled
  <2>7. \A d \in Callers : Stopped(caller[d])'
    BY <1>1, <1>5, <2>1, IdleFits DEF IInv, SlotsApart, Stopped
  <2>8. \A n \in Connections : poller'[n].step \in Alive => Owned(n)'
    BY <1>1, <1>5, <2>1 DEF IInv, SlotsApart, Owned
  <2>9. \A d \in Callers : caller'[d].step = "relay" =>
          caller'[d].bus # 0 /\ channel'[caller'[d].slot].bus = caller'[d].bus
    BY <1>1, <1>5, <2>1, IdleFits DEF IInv, SlotsApart
  <2> QED BY <1>1, <2>1, <2>3, <2>5, <2>7, <2>8, <2>9 DEF IInv, SlotsApart
<1> QED BY <1>5, <1>9 DEF IInv

\* A section of a command changes its slot: it goes on or is done, and opens nothing.
LEMMA SectionFrame ==
  ASSUME IInv, NEW c \in Callers, NEW w \in Caller, caller' = [caller EXCEPT ![c] = w],
         NEW s \in Slots, NEW ch \in Channel, channel' = [channel EXCEPT ![s] = ch],
         UNCHANGED <<poller, opened, file, todo, overlaps, torn, faults, aborted>>,
         Fits(w),
         w.op = "connect" => /\ caller[c].op = "connect" /\ w.id = caller[c].id
                             /\ w.slot = caller[c].slot /\ w.port = caller[c].port,
         Bused(ch), ch.bus \in {0, channel[s].bus}, ch.poll_thread \in {0, channel[s].poll_thread},
         ch.connected => /\ channel[s].connected /\ ch.port = channel[s].port
                         /\ ch.devices = channel[s].devices
  PROVE  /\ caller'[c] = w /\ \A d \in Callers \ {c} : caller'[d] = caller[d]
         /\ channel'[s] = ch /\ \A t \in Slots \ {s} : channel'[t] = channel[t]
         /\ Types' /\ Shapes' /\ Numbers' /\ DevicesAreSaved' /\ PortsApart'
<1>1. /\ caller' \in [Callers -> Caller] /\ caller'[c] = w
      /\ \A d \in Callers \ {c} : caller'[d] = caller[d]
  BY CallerMoves DEF IInv
<1>2. /\ channel' \in [Slots -> Channel] /\ channel'[s] = ch
      /\ \A t \in Slots \ {s} : channel'[t] = channel[t]
  BY ChannelMoves DEF IInv
<1>3. Types'
  BY <1>1, <1>2 DEF IInv, Types
<1>4. Shapes'
  BY <1>1, <1>2 DEF IInv, Shapes
<1>5. Numbers'
  <2>1. opened \in Nat
    BY PortBoundsAssumption DEF IInv, Types
  <2>2. \A t \in Slots : channel'[t].bus <= opened /\ channel'[t].poll_thread <= opened
    BY <1>2, <2>1 DEF IInv, Numbers
  <2> QED BY <1>1, <2>2 DEF IInv, Numbers
<1>6. DevicesAreSaved'
  BY <1>2 DEF IInv, DevicesAreSaved
<1>7. PortsApart'
  <2>1. \A t \in Slots : channel'[t].connected =>
          channel[t].connected /\ channel'[t].port = channel[t].port
    BY <1>2
  <2>2. \A t \in Slots : \A p : PortUsedByOtherSlot(t, p)' => PortUsedByOtherSlot(t, p)
    BY <2>1 DEF PortUsedByOtherSlot
  <2> SUFFICES ASSUME "port" \notin overlaps' PROVE PortsApart'
    BY DEF PortsApart
  <2>3. \A d \in Callers : caller'[d].op = "connect" =>
          /\ caller[d].op = "connect" /\ caller[d].slot \in Slots
          /\ caller'[d].slot = caller[d].slot /\ caller'[d].port = caller[d].port
    BY <1>1 DEF IInv, Shapes, Fits
  <2>4. \A d \in Callers : caller'[d].op = "connect" =>
          ~PortUsedByOtherSlot(caller[d].slot, caller[d].port)
    BY <2>3 DEF IInv, PortsApart
  <2>5. \A d \in Callers : caller'[d].op = "connect" =>
          ~PortUsedByOtherSlot(caller[d].slot, caller[d].port)'
    BY <2>1, <2>3, <2>4 DEF PortUsedByOtherSlot
  <2>6. \A d \in Callers : caller'[d].op = "connect" =>
          \A e \in Callers \ {d} : caller'[e].op = "connect" => caller'[e].port # caller'[d].port
    BY <2>3 DEF IInv, PortsApart
  <2>7. \A t \in Slots : channel'[t].connected => ~PortUsedByOtherSlot(t, channel[t].port)'
    BY <2>1 DEF IInv, PortsApart, PortUsedByOtherSlot
  <2> QED BY <2>5, <2>6, <2>7 DEF PortsApart
<1> QED BY <1>1, <1>2, <1>3, <1>4, <1>5, <1>6, <1>7

\* A thread between two sections executes a command on a slot.
LEMMA InSection ==
  ASSUME IInv, NEW d \in Callers,
         caller[d].step \in {"stop", "join", "clear", "open", "close"}
  PROVE  Commands(caller[d]) /\ caller[d].slot \in Slots /\ caller[d].op # "relay"
BY CallerFields DEF IInv, Types, Shapes, Fits, Commands

\* A command leaves the slots of the others as they were.
LEMMA OthersStopped ==
  ASSUME IInv, NEW c \in Callers, NEW d \in Callers \ {c}, NEW s \in Slots,
         Commands(caller[d]) => caller[d].slot # s,
         \A t \in Slots \ {s} : channel'[t] = channel[t], caller'[d] = caller[d],
         Stopped(caller[d])
  PROVE  Stopped(caller[d])'
<1>1. CASE caller[d].step \in {"join", "clear", "open", "close"}
  BY <1>1, InSection DEF Stopped
<1>2. CASE caller[d].step \notin {"join", "clear", "open", "close"}
  BY <1>2 DEF Stopped
<1> QED BY <1>1, <1>2

\* stopPolling, first section: the command takes over the slot's thread.
LEMMA RequestStopInv ==
  ASSUME IInv, NEW c \in Callers, RequestStop(c)
  PROVE  IInv'
<1> PICK s \in Slots : s = caller[c].slot
  BY DEF RequestStop, IInv, Shapes, Fits
<1> DEFINE ch == [channel[s] EXCEPT !.stop_requested = TRUE, !.poll_thread = 0]
           w  == [caller[c] EXCEPT !.step = "join", !.join = channel[s].poll_thread]
<1>1. /\ UNCHANGED <<poller, opened, file, todo, overlaps, torn, faults, aborted>>
      /\ caller[c].step = "stop" /\ caller[c] \in Caller /\ channel[s] \in Channel
      /\ Fits(caller[c]) /\ Bused(channel[s])
  BY DEF RequestStop, IInv, Types, Shapes
<1>2. /\ channel' = [channel EXCEPT ![s] = ch] /\ caller' = [caller EXCEPT ![c] = w]
  BY <1>1 DEF RequestStop, IInv, Types
<1>3. /\ ch \in Channel /\ ch.stop_requested = TRUE /\ ch.poll_thread = 0
      /\ ch.bus = channel[s].bus /\ ch.connected = channel[s].connected
      /\ ch.port = channel[s].port /\ ch.devices = channel[s].devices
      /\ ch.poll_running = channel[s].poll_running
  <2>1. 0 \in 0 .. MaxConnects
    BY PortBoundsAssumption
  <2>2. ch \in Channel
    BY <1>1, <2>1 DEF Channel
  <2>3. /\ ch.stop_requested = TRUE /\ ch.poll_thread = 0
        /\ ch.bus = channel[s].bus /\ ch.connected = channel[s].connected
        /\ ch.port = channel[s].port /\ ch.devices = channel[s].devices
        /\ ch.poll_running = channel[s].poll_running
    BY <1>1 DEF Channel
  <2> QED BY <2>2, <2>3
<1>4. /\ w \in Caller /\ w.step = "join" /\ w.join = channel[s].poll_thread
      /\ w.op = caller[c].op /\ w.slot = s /\ w.port = caller[c].port /\ w.id = caller[c].id
  BY <1>1, ChannelFields DEF Caller, Steps
<1> HIDE DEF ch, w
<1>5. Fits(w) /\ Bused(ch)
  BY <1>1, <1>3, <1>4 DEF Fits, Bused
<1>6. /\ caller'[c] = w /\ \A d \in Callers \ {c} : caller'[d] = caller[d]
      /\ channel'[s] = ch /\ \A t \in Slots \ {s} : channel'[t] = channel[t]
      /\ Types' /\ Shapes' /\ Numbers' /\ DevicesAreSaved' /\ PortsApart'
  BY ZenonT(60), <1>1, <1>2, <1>3, <1>4, <1>5, SectionFrame
<1>9. SlotsApart'
  <2> SUFFICES ASSUME "slot" \notin overlaps' PROVE SlotsApart'
    BY DEF SlotsApart
  <2>1. "slot" \notin overlaps /\ Alone
    BY <1>1 DEF IInv, SlotsApart
  <2>2. Commands(caller[c]) /\ Commands(w)
    BY <1>1, <1>4, CallerFields DEF Fits, Commands
  <2>3. Alone'
    BY <1>4, <1>6, <2>1, <2>2 DEF Alone
  <2>4. ~Untouched(s)'
    BY <1>4, <1>6, <2>2 DEF Untouched
  <2>5. \A t \in Slots \ {s} : Untouched(t)' => Untouched(t)
    BY <1>1, <1>6 DEF Untouched
  <2>6. \A t \in Slots : Untouched(t)' => Polled(t)'
    BY <1>1, <1>6, <2>1, <2>4, <2>5 DEF IInv, SlotsApart, Polled
  <2>7. \A d \in Callers \ {c} : Commands(caller[d]) => caller[d].slot # s
    BY <2>1, <2>2 DEF Alone
  <2>8. \A d \in Callers : Stopped(caller[d])'
    <3> SUFFICES ASSUME NEW d \in Callers PROVE Stopped(caller[d])'
      OBVIOUS
    <3>1. CASE d = c
      BY <1>3, <1>4, <1>6, <3>1 DEF Stopped
    <3>2. CASE d # c
      <4>1. Stopped(caller[d])
        BY <2>1 DEF IInv, SlotsApart
      <4> QED BY <1>6, <2>7, <3>2, <4>1, OthersStopped
    <3> QED BY <3>1, <3>2
  <2>9. \A n \in Connections : poller'[n].step \in Alive => Owned(n)'
    <3> SUFFICES ASSUME NEW n \in Connections, poller[n].step \in Alive PROVE Owned(n)'
      BY <1>1
    <3>1. Owned(n) /\ poller[n].slot \in Slots
      BY <2>1 DEF IInv, SlotsApart, Shapes, Alive, Polls
    <3>2. CASE channel[poller[n].slot].poll_thread = n /\ poller[n].slot = s
      BY <1>1, <1>4, <1>6, <3>2 DEF Owned
    <3>3. CASE channel[poller[n].slot].poll_thread = n /\ poller[n].slot # s
      BY <1>1, <1>6, <3>1, <3>3 DEF Owned
    <3>4. CASE \E d \in Callers : /\ caller[d].step = "join" /\ caller[d].join = n
                                  /\ caller[d].slot = poller[n].slot
      BY <1>1, <1>6, <3>4 DEF Owned
    <3> QED BY <3>1, <3>2, <3>3, <3>4 DEF Owned
  <2>10. \A n \in Connections : poller'[n].step = "io" =>
           poller'[n].bus # 0 /\ channel'[poller'[n].slot].bus = poller'[n].bus
    BY <1>1, <1>3, <1>6, <2>1 DEF IInv, SlotsApart, Shapes
  <2>11. \A d \in Callers : caller'[d].step = "relay" =>
           caller'[d].bus # 0 /\ channel'[caller'[d].slot].bus = caller'[d].bus
    BY <1>1, <1>3, <1>4, <1>6, <2>1 DEF IInv, SlotsApart, Shapes, Fits
  <2> QED BY <1>1, <2>1, <2>3, <2>6, <2>8, <2>9, <2>10, <2>11 DEF IInv, SlotsApart
<1> QED BY <1>6, <1>9 DEF IInv

\* The sections that keep the slot's thread: what the command has stopped stays
\* so, nobody uses a bus that it closes, and when it is done the slot is closed.
LEMMA SectionApart ==
  ASSUME IInv, "slot" \notin overlaps, NEW c \in Callers, NEW s \in Slots,
         caller[c].slot = s, Commands(caller[c]), NEW w \in Caller, NEW ch \in Channel,
         caller'[c] = w, \A d \in Callers \ {c} : caller'[d] = caller[d],
         channel'[s] = ch, \A t \in Slots \ {s} : channel'[t] = channel[t],
         UNCHANGED <<poller, overlaps, aborted>>,
         Commands(w) => w.slot = s /\ w.step # "stop",
         w.step # "relay", Stopped(caller[c])',
         ~Commands(w) => Polled(s)',
         ch.poll_thread = channel[s].poll_thread,
         caller[c].step = "join" =>
           \A n \in Connections : poller[n].step \in Alive => caller[c].join # n,
         ch.bus = channel[s].bus \/ IoFree(s)
  PROVE  SlotsApart'
<1>1. Alone
  BY DEF IInv, SlotsApart
<1>2. Alone'
  BY <1>1 DEF Alone
<1>3. \A d \in Callers \ {c} : Commands(caller[d]) => caller[d].slot # s
  BY <1>1 DEF Alone
<1>4. \A t \in Slots : Untouched(t)' => Polled(t)'
  <2> SUFFICES ASSUME NEW t \in Slots, Untouched(t)' PROVE Polled(t)'
    OBVIOUS
  <2>1. CASE t = s
    BY <2>1 DEF Untouched
  <2>2. CASE t # s
    <3>1. Untouched(t)
      BY <2>2 DEF Untouched
    <3> QED BY <2>2, <3>1 DEF IInv, SlotsApart, Polled
  <2> QED BY <2>1, <2>2
<1>5. \A d \in Callers : Stopped(caller[d])'
  <2> SUFFICES ASSUME NEW d \in Callers \ {c} PROVE Stopped(caller[d])'
    OBVIOUS
  <2>1. Stopped(caller[d])
    BY DEF IInv, SlotsApart
  <2> QED BY <1>3, <2>1, OthersStopped
<1>6. \A n \in Connections : poller'[n].step \in Alive => Owned(n)'
  <2> SUFFICES ASSUME NEW n \in Connections, poller[n].step \in Alive PROVE Owned(n)'
    OBVIOUS
  <2>1. Owned(n) /\ poller[n].slot \in Slots
    BY DEF IInv, SlotsApart, Shapes, Alive, Polls
  <2>2. CASE channel[poller[n].slot].poll_thread = n
    BY <2>1, <2>2 DEF Owned
  <2>3. CASE \E d \in Callers : /\ caller[d].step = "join" /\ caller[d].join = n
                                /\ caller[d].slot = poller[n].slot
    BY <2>3 DEF Owned
  <2> QED BY <2>1, <2>2, <2>3 DEF Owned
<1>7. \A n \in Connections : poller'[n].step = "io" =>
        poller'[n].bus # 0 /\ channel'[poller'[n].slot].bus = poller'[n].bus
  BY DEF IInv, SlotsApart, Shapes, IoFree
<1>8. \A d \in Callers : caller'[d].step = "relay" =>
        caller'[d].bus # 0 /\ channel'[caller'[d].slot].bus = caller'[d].bus
  <2> SUFFICES ASSUME NEW d \in Callers \ {c}, caller[d].step = "relay"
               PROVE  caller[d].bus # 0 /\ channel'[caller[d].slot].bus = caller[d].bus
    OBVIOUS
  <2>1. /\ caller[d].slot \in Slots /\ caller[d].bus # 0
        /\ channel[caller[d].slot].bus = caller[d].bus
    BY DEF IInv, SlotsApart, Shapes, Fits
  <2> QED BY <2>1 DEF IoFree
<1> QED BY <1>2, <1>4, <1>5, <1>6, <1>7, <1>8 DEF IInv, SlotsApart

\* stopPolling, after the join: the slot has no thread any more.
LEMMA StopPollingInv ==
  ASSUME IInv, NEW c \in Callers, StopPolling(c)
  PROVE  IInv'
<1>0. Commands(caller[c]) /\ caller[c].slot \in Slots
  BY InSection DEF StopPolling
<1> PICK s \in Slots : s = caller[c].slot
  BY <1>0
<1> DEFINE ch == [channel[s] EXCEPT !.stop_requested = FALSE, !.poll_running = FALSE]
           w  == [caller[c] EXCEPT !.join = 0,
                                   !.step = IF caller[c].op = "connect" THEN "clear" ELSE "close"]
<1>1. /\ UNCHANGED <<poller, opened, file, todo, overlaps, torn, faults, aborted>>
      /\ caller[c].step = "join" /\ caller[c] \in Caller /\ channel[s] \in Channel
      /\ Fits(caller[c]) /\ Bused(channel[s]) /\ Joined(c)
  BY DEF StopPolling, IInv, Types, Shapes
<1>2. /\ channel' = [channel EXCEPT ![s] = ch] /\ caller' = [caller EXCEPT ![c] = w]
  BY <1>1 DEF StopPolling, IInv, Types
<1>3. /\ ch \in Channel /\ ch.poll_thread = channel[s].poll_thread
      /\ ch.bus = channel[s].bus /\ ch.connected = channel[s].connected
      /\ ch.port = channel[s].port /\ ch.devices = channel[s].devices
      /\ ch.poll_running = FALSE
  BY <1>1 DEF Channel
<1>4. /\ w \in Caller /\ w.step = (IF caller[c].op = "connect" THEN "clear" ELSE "close")
      /\ w.join = 0 /\ w.op = caller[c].op /\ w.slot = s
      /\ w.port = caller[c].port /\ w.id = caller[c].id
  <2>1. 0 \in 0 .. MaxConnects
    BY PortBoundsAssumption
  <2> QED BY <1>1, <2>1 DEF Caller, Steps
<1> HIDE DEF ch, w
<1>5. Fits(w) /\ Bused(ch)
  BY <1>0, <1>1, <1>3, <1>4 DEF Fits, Bused, Commands
<1>6. /\ caller'[c] = w /\ \A d \in Callers \ {c} : caller'[d] = caller[d]
      /\ channel'[s] = ch /\ \A t \in Slots \ {s} : channel'[t] = channel[t]
      /\ Types' /\ Shapes' /\ Numbers' /\ DevicesAreSaved' /\ PortsApart'
  BY <1>1, <1>2, <1>3, <1>4, <1>5, SectionFrame
<1>9. SlotsApart'
  <2> SUFFICES ASSUME "slot" \notin overlaps' PROVE SlotsApart'
    BY DEF SlotsApart
  <2>1. "slot" \notin overlaps /\ Stopped(caller[c])
    BY <1>1 DEF IInv, SlotsApart
  <2>2. Stopped(caller[c])'
    BY <1>1, <1>3, <1>4, <1>6, <2>1 DEF Stopped
  <2>3. Commands(w) /\ w.step # "stop" /\ w.step # "relay"
    BY <1>0, <1>4 DEF Commands
  <2>4. \A n \in Connections : poller[n].step \in Alive => caller[c].join # n
    BY <1>1 DEF Joined, Alive, Polls, Connections
  <2> QED BY <1>0, <1>1, <1>3, <1>4, <1>6, <2>1, <2>2, <2>3, <2>4, SectionApart
<1> QED BY <1>6, <1>9 DEF IInv

\* clearSlot: under io_lock, so that nobody uses the bus that it closes.
LEMMA ClearSlotInv ==
  ASSUME IInv, NEW c \in Callers, ClearSlot(c)
  PROVE  IInv'
<1>0. Commands(caller[c]) /\ caller[c].slot \in Slots
  BY InSection DEF ClearSlot
<1> PICK s \in Slots : s = caller[c].slot
  BY <1>0
<1> DEFINE ch == [Closed EXCEPT !.poll_thread = channel[s].poll_thread]
           w  == [caller[c] EXCEPT !.step = "open"]
<1>1. /\ UNCHANGED <<poller, opened, file, todo, overlaps, torn, faults, aborted>>
      /\ caller[c].step = "clear" /\ caller[c] \in Caller /\ channel[s] \in Channel
      /\ Fits(caller[c]) /\ IoFree(s)
  BY DEF ClearSlot, IInv, Types, Shapes
<1>2. /\ channel' = [channel EXCEPT ![s] = ch] /\ caller' = [caller EXCEPT ![c] = w]
  BY <1>1 DEF ClearSlot, IInv, Types
<1>3. /\ ch \in Channel /\ ch.poll_thread = channel[s].poll_thread
      /\ ch.bus = 0 /\ ch.connected = FALSE /\ ch.devices = {} /\ ch.poll_running = FALSE
  BY <1>1, ChannelFields, ClosedFits DEF Channel
<1>4. /\ w \in Caller /\ w.step = "open"
      /\ w.join = caller[c].join /\ w.op = caller[c].op /\ w.slot = s
      /\ w.port = caller[c].port /\ w.id = caller[c].id
  BY <1>1 DEF Caller, Steps
<1> HIDE DEF ch, w
<1>5. Fits(w) /\ Bused(ch)
  BY <1>0, <1>1, <1>3, <1>4 DEF Fits, Bused, Commands
<1>6. /\ caller'[c] = w /\ \A d \in Callers \ {c} : caller'[d] = caller[d]
      /\ channel'[s] = ch /\ \A t \in Slots \ {s} : channel'[t] = channel[t]
      /\ Types' /\ Shapes' /\ Numbers' /\ DevicesAreSaved' /\ PortsApart'
  BY <1>1, <1>2, <1>3, <1>4, <1>5, SectionFrame
<1>9. SlotsApart'
  <2> SUFFICES ASSUME "slot" \notin overlaps' PROVE SlotsApart'
    BY DEF SlotsApart
  <2>1. "slot" \notin overlaps /\ Stopped(caller[c])
    BY <1>1 DEF IInv, SlotsApart
  <2>2. Stopped(caller[c])'
    BY <1>1, <1>3, <1>4, <1>6, <2>1 DEF Stopped
  <2>3. Commands(w) /\ w.step # "stop" /\ w.step # "relay" /\ caller[c].step # "join"
    BY <1>0, <1>1, <1>4 DEF Commands
  <2> QED BY <1>0, <1>1, <1>3, <1>4, <1>6, <2>1, <2>2, <2>3, SectionApart
<1> QED BY <1>6, <1>9 DEF IInv

\* disconnectPort, last section.
LEMMA FinishDisconnectInv ==
  ASSUME IInv, NEW c \in Callers, FinishDisconnect(c)
  PROVE  IInv'
<1>0. Commands(caller[c]) /\ caller[c].slot \in Slots
  BY InSection DEF FinishDisconnect
<1> PICK s \in Slots : s = caller[c].slot
  BY <1>0
<1> DEFINE ch == [Closed EXCEPT !.port = channel[s].port, !.poll_thread = channel[s].poll_thread]
           w  == Idle
<1>1. /\ UNCHANGED <<poller, opened, file, todo, overlaps, torn, faults, aborted>>
      /\ caller[c].step = "close" /\ caller[c] \in Caller /\ channel[s] \in Channel /\ IoFree(s)
  BY DEF FinishDisconnect, IInv, Types, Shapes
<1>2. /\ channel' = [channel EXCEPT ![s] = ch] /\ caller' = [caller EXCEPT ![c] = w]
  BY <1>1 DEF FinishDisconnect, IInv, Types
<1>3. /\ ch \in Channel /\ ch.poll_thread = channel[s].poll_thread
      /\ ch.bus = 0 /\ ch.connected = FALSE /\ ch.devices = {} /\ ch.poll_running = FALSE
  BY <1>1, ChannelFields, ClosedFits DEF Channel
<1>4. w \in Caller /\ Fits(w) /\ ~Commands(w) /\ w.step = "idle" /\ w.op = "none"
  BY IdleFits DEF Fits
<1> HIDE DEF ch, w
<1>5. /\ Bused(ch) /\ ch.bus \in {0, channel[s].bus}
      /\ ch.poll_thread \in {0, channel[s].poll_thread}
      /\ w.op = "connect" => /\ caller[c].op = "connect" /\ w.id = caller[c].id
                             /\ w.slot = caller[c].slot /\ w.port = caller[c].port
      /\ ch.connected => /\ channel[s].connected /\ ch.port = channel[s].port
                         /\ ch.devices = channel[s].devices
  BY <1>3, <1>4 DEF Bused
<1>6. /\ caller'[c] = w /\ \A d \in Callers \ {c} : caller'[d] = caller[d]
      /\ channel'[s] = ch /\ \A t \in Slots \ {s} : channel'[t] = channel[t]
      /\ Types' /\ Shapes' /\ Numbers' /\ DevicesAreSaved' /\ PortsApart'
  <2>1. w \in Caller /\ Fits(w) /\ ch \in Channel
    BY <1>3, <1>4
  <2>2. UNCHANGED <<poller, opened, file, todo, overlaps, torn, faults, aborted>>
    BY <1>1
  <2>3. /\ Types' /\ Shapes' /\ Numbers' /\ DevicesAreSaved' /\ PortsApart'
    BY <1>2, <1>5, <2>1, <2>2, SectionFrame
  <2>4. /\ caller'[c] = w /\ \A d \in Callers \ {c} : caller'[d] = caller[d]
    BY <1>2, <2>1, CallerMoves DEF IInv
  <2>5. /\ channel'[s] = ch /\ \A t \in Slots \ {s} : channel'[t] = channel[t]
    BY <1>2, <2>1, ChannelMoves DEF IInv
  <2> QED BY <2>3, <2>4, <2>5
<1>9. SlotsApart'
  <2> SUFFICES ASSUME "slot" \notin overlaps' PROVE SlotsApart'
    BY DEF SlotsApart
  <2>1. "slot" \notin overlaps /\ Stopped(caller[c])
    BY <1>1 DEF IInv, SlotsApart
  <2>2. Stopped(caller[c])' /\ Polled(s)'
    BY <1>1, <1>3, <1>4, <1>6, <2>1 DEF Stopped, Polled
  <2>3. w.step # "relay" /\ caller[c].step # "join"
    BY <1>1, <1>4
  <2> QED BY <1>0, <1>1, <1>3, <1>4, <1>6, <2>1, <2>2, <2>3, SectionApart
<1> QED BY <1>6, <1>9 DEF IInv

-----------------------------------------------------------------------------
\* The configuration file

\* writeConfigLocked writes the devices of all slots.
LEMMA ContentIs ==
  ASSUME NEW ch \in [Slots -> Channel]
  PROVE  Content(ch) \in File /\ \A s \in Slots : Content(ch).devices[s] = ch[s].devices
BY ChannelFields DEF Content, File

\* A write succeeds, changes nothing, or leaves a file that cannot be read.
LEMMA FileMoves ==
  ASSUME Types, NEW content \in File, Written(content) \/ NotWritten
  PROVE  /\ file' \in File /\ faults' \in 0 .. MaxFaults /\ torn' \in BOOLEAN
         /\ ~torn' => ~torn /\ file' \in {file, content}
<1>1. EmptyFile \in File
  BY DEF EmptyFile, File
<1>2. CASE Written(content)
  BY <1>2 DEF Written, Types
<1>3. CASE NotWritten
  <2>1. faults' \in 0 .. MaxFaults
    BY <1>3, PortBoundsAssumption DEF NotWritten, Types
  <2>2. \/ file' = file /\ torn' = torn
        \/ file' = EmptyFile /\ torn' = TRUE
    BY <1>3 DEF NotWritten
  <2>3. file' \in File /\ torn' \in BOOLEAN
    BY <1>1, <2>2 DEF Types
  <2>4. ~torn' => ~torn /\ file' = file
    BY <2>2
  <2> QED BY <2>1, <2>3, <2>4
<1> QED BY <1>2, <1>3

\* What the last section of connectPort makes of its slot, and the thread it starts.
Establishes(c, s, n, z) ==
  /\ channel' = [channel EXCEPT ![s] = z]
  /\ z.port = caller[c].port /\ z.bus = n /\ z.connected = TRUE
  /\ z.stop_requested = FALSE /\ z.poll_running = TRUE
  /\ z.devices = channel[s].devices \cup file.devices[s]
  /\ \/ /\ channel[s].poll_running /\ z.poll_thread = channel[s].poll_thread
        /\ UNCHANGED <<poller, aborted>>
     \/ /\ ~channel[s].poll_running /\ z.poll_thread = n
        /\ poller' = [poller EXCEPT ![n] = [NotStarted EXCEPT !.step = "check", !.slot = s]]
        /\ aborted' = (channel[s].poll_thread # 0)

\* It does so.
LEMMA FinishConnectDoes ==
  ASSUME IInv, NEW c \in Callers, FinishConnect(c), NEW s \in Slots, s = caller[c].slot,
         NEW n \in Connections, n = caller[c].id
  PROVE  \E z \in Channel : Establishes(c, s, n, z)
<1> DEFINE ch == [channel[s] EXCEPT !.port = caller[c].port, !.bus = n, !.connected = TRUE,
                                    !.stop_requested = FALSE, !.devices = LoadDevices(s)]
           z == [ch EXCEPT !.poll_running = TRUE, !.poll_thread = n]
<1>1. /\ channel[s] \in Channel /\ caller[c].port \in Ports \cup {NoPort} /\ n \in 0 .. MaxConnects
      /\ LoadDevices(s) \in SUBSET Devices
      /\ LoadDevices(s) = channel[s].devices \cup file.devices[s]
  <2>1. channel[s] \in Channel /\ caller[c] \in Caller /\ file.devices \in [Slots -> SUBSET Devices]
    BY DEF IInv, Types, File
  <2>2. channel[s].devices \subseteq Devices /\ caller[c].port \in Ports \cup {NoPort}
    BY <2>1, ChannelFields, CallerFields
  <2>3. n \in 0 .. MaxConnects
    BY PortBoundsAssumption DEF Connections
  <2> QED BY <2>1, <2>2, <2>3 DEF LoadDevices
<1> HIDE DEF LoadDevices
<1>2. /\ ch \in Channel /\ ch.port = caller[c].port /\ ch.bus = n /\ ch.connected = TRUE
      /\ ch.stop_requested = FALSE /\ ch.devices = LoadDevices(s)
      /\ ch.poll_running = channel[s].poll_running /\ ch.poll_thread = channel[s].poll_thread
  <2>1. ch \in Channel
    BY <1>1 DEF Channel
  <2>2. /\ ch.port = caller[c].port /\ ch.bus = n /\ ch.connected = TRUE
        /\ ch.stop_requested = FALSE /\ ch.devices = LoadDevices(s)
    BY <1>1 DEF Channel
  <2>3. ch.poll_running = channel[s].poll_running /\ ch.poll_thread = channel[s].poll_thread
    BY <1>1 DEF Channel
  <2> QED BY <2>1, <2>2, <2>3
<1>3. StartPolling(s, ch, n)
  BY DEF FinishConnect
<1> HIDE DEF ch
<1>4. /\ z \in Channel /\ z.port = ch.port /\ z.bus = ch.bus /\ z.connected = ch.connected
      /\ z.stop_requested = ch.stop_requested /\ z.devices = ch.devices
      /\ z.poll_running = TRUE /\ z.poll_thread = n
  BY <1>1, <1>2 DEF Channel
<1>5. CASE ch.poll_running
  <2>1. /\ channel' = [channel EXCEPT ![s] = ch] /\ UNCHANGED <<poller, aborted>>
    BY <1>3, <1>5 DEF StartPolling
  <2>2. channel[s].poll_running /\ ch.poll_running = TRUE
    BY <1>2, <1>5, ChannelFields
  <2> QED BY <1>1, <1>2, <2>1, <2>2 DEF Establishes
<1>6. CASE ~ch.poll_running
  <2>1. /\ channel' = [channel EXCEPT ![s] = z]
        /\ poller' = [poller EXCEPT ![n] = [NotStarted EXCEPT !.step = "check", !.slot = s]]
        /\ aborted' = (ch.poll_thread # 0)
    BY <1>3, <1>6 DEF StartPolling
  <2>2. ~channel[s].poll_running
    BY <1>2, <1>6
  <2> HIDE DEF z
  <2> QED BY <1>1, <1>2, <1>4, <2>1, <2>2 DEF Establishes
<1> QED BY <1>5, <1>6

\* connectPort, last section: the port is nobody else's, the slot had no thread
\* and nobody uses a bus of it, and the devices are those of the file.
LEMMA FinishConnectInv ==
  ASSUME IInv, NEW c \in Callers, FinishConnect(c)
  PROVE  IInv'
<1>0. /\ Commands(caller[c]) /\ caller[c].slot \in Slots /\ caller[c].step = "open"
      /\ caller[c].op = "connect" /\ caller[c].id \in Connections
  <2>1. caller[c].step = "open" /\ Fits(caller[c]) /\ caller[c] \in Caller
    BY DEF FinishConnect, IInv, Shapes, Types
  <2>2. Commands(caller[c]) /\ caller[c].slot \in Slots
    BY <2>1, InSection
  <2>3. caller[c].op = "connect" /\ caller[c].id # 0 /\ caller[c].id \in 0 .. MaxConnects
    BY <2>1, <2>2, CallerFields DEF Fits, Commands
  <2> QED BY <2>1, <2>2, <2>3, PortBoundsAssumption DEF Connections
<1> PICK s \in Slots : s = caller[c].slot
  BY <1>0
<1> PICK n \in Connections : n = caller[c].id
  BY <1>0
<1> PICK z \in Channel : Establishes(c, s, n, z)
  BY FinishConnectDoes
<1> USE DEF Establishes
<1> DEFINE w == Idle
           q == [NotStarted EXCEPT !.step = "check", !.slot = s]
<1>1. /\ UNCHANGED <<opened, todo, overlaps>> /\ caller' = [caller EXCEPT ![c] = w]
      /\ Written(Content(channel')) \/ NotWritten
  BY DEF FinishConnect
<1>2. w \in Caller /\ Fits(w) /\ ~Commands(w) /\ w.step = "idle" /\ w.op = "none"
  BY IdleFits DEF Fits
<1>3. q \in Poller /\ q.step = "check" /\ q.slot = s
  <2>1. NotStarted \in Poller
    BY PortBoundsAssumption DEF NotStarted, Poller
  <2> QED BY <2>1 DEF Poller, Alive, Polls
<1> HIDE DEF w, q
<1>4. /\ caller' \in [Callers -> Caller] /\ caller'[c] = w
      /\ \A d \in Callers \ {c} : caller'[d] = caller[d]
  BY <1>1, <1>2, CallerMoves DEF IInv
<1>5. /\ channel' \in [Slots -> Channel] /\ channel'[s] = z
      /\ \A t \in Slots \ {s} : channel'[t] = channel[t]
  BY ChannelMoves DEF IInv
<1>6. /\ poller' \in [Connections -> Poller]
      /\ \A m \in Connections \ {n} : poller'[m] = poller[m]
      /\ poller'[n] \in {poller[n], q}
      /\ ~channel[s].poll_running => poller'[n] = q
  <2>1. CASE poller' = poller /\ channel[s].poll_running
    BY <2>1 DEF IInv, Types
  <2>2. CASE poller' = [poller EXCEPT ![n] = q]
    BY <1>3, <2>2, PollerMoves DEF IInv
  <2> QED BY <2>1, <2>2 DEF q
<1>7. /\ file' \in File /\ faults' \in 0 .. MaxFaults /\ torn' \in BOOLEAN
      /\ ~torn' => ~torn /\ file' \in {file, Content(channel')}
      /\ \A t \in Slots : Content(channel').devices[t] = channel'[t].devices
  <2>1. Content(channel') \in File /\ \A t \in Slots : Content(channel').devices[t] = channel'[t].devices
    BY <1>5, ContentIs
  <2> QED BY <1>1, <2>1, FileMoves DEF IInv
<1>8. Types'
  <2>1. aborted' \in BOOLEAN
    BY DEF IInv, Types
  <2> QED BY <1>1, <1>4, <1>5, <1>6, <1>7, <2>1 DEF IInv, Types
<1>9. n # 0 /\ n <= opened /\ opened \in Nat /\ poller[n].step = "none"
  BY <1>0, PortBoundsAssumption DEF Connections, IInv, Types, Numbers
<1>10. Shapes'
  <2>1. Bused(z)
    BY <1>9 DEF Bused
  <2>2. \A m \in Connections : poller'[m].step # "none" => poller'[m].slot \in Slots
    BY <1>3, <1>6 DEF IInv, Shapes
  <2> QED BY <1>2, <1>4, <1>5, <2>1, <2>2 DEF IInv, Shapes
<1>11. Numbers'
  <2>1. \A d \in Callers : caller'[d].op = "connect" =>
          /\ d # c /\ caller[d].op = "connect" /\ caller'[d] = caller[d] /\ caller[d].id # n
          /\ caller[d].id \in Connections
    <3> SUFFICES ASSUME NEW d \in Callers, caller'[d].op = "connect"
                 PROVE  /\ d # c /\ caller[d].op = "connect" /\ caller'[d] = caller[d]
                        /\ caller[d].id # n /\ caller[d].id \in Connections
      OBVIOUS
    <3>1. d # c /\ caller[d].op = "connect" /\ caller'[d] = caller[d]
      BY <1>2, <1>4
    <3>2. caller[d].id # n
      BY <1>0, <3>1 DEF IInv, Numbers
    <3>3. caller[d].id # 0 /\ caller[d].id \in 0 .. MaxConnects
      BY <3>1, CallerFields DEF IInv, Types, Shapes, Fits
    <3> QED BY <3>1, <3>2, <3>3, PortBoundsAssumption DEF Connections
  <2>2. \A t \in Slots : channel'[t].bus <= opened /\ channel'[t].poll_thread <= opened
    BY <1>5, <1>9 DEF IInv, Numbers
  <2>3. \A m \in Connections : poller'[m].step # "none" => m <= opened
    BY <1>6, <1>9 DEF IInv, Numbers
  <2>4. \A d \in Callers : caller'[d].op = "connect" =>
          caller[d].id <= opened /\ poller'[caller[d].id].step = "none"
    BY <1>6, <2>1 DEF IInv, Numbers
  <2>5. \A d \in Callers : caller'[d].op = "connect" =>
          \A e \in Callers \ {d} : caller'[e].op = "connect" => caller'[e].id # caller'[d].id
    BY <2>1 DEF IInv, Numbers
  <2> QED BY <1>1, <2>1, <2>2, <2>3, <2>4, <2>5 DEF Numbers
<1>12. DevicesAreSaved'
  <2> SUFFICES ASSUME ~torn', NEW t \in Slots, channel'[t].connected
               PROVE  channel'[t].devices = file'.devices[t]
    BY DEF DevicesAreSaved
  <2>1. CASE file' = Content(channel')
    BY <1>7, <2>1
  <2>2. CASE file' = file
    <3>1. \A r \in Slots : channel[r].connected => channel[r].devices = file.devices[r]
      BY <1>7 DEF IInv, DevicesAreSaved
    <3>2. channel[s].connected \/ channel[s].devices = {}
      BY DEF IInv, Shapes, Bused
    <3>3. CASE t = s
      <4>1. channel'[t].devices = channel[s].devices \cup file.devices[s]
        BY <1>5, <3>3
      <4>2. channel[s].devices \subseteq file.devices[s]
        BY <3>1, <3>2
      <4> QED BY <2>2, <3>3, <4>1, <4>2
    <3>4. CASE t # s
      BY <1>5, <2>2, <3>1, <3>4
    <3> QED BY <3>3, <3>4
  <2> QED BY <1>7, <2>1, <2>2
<1>13. PortsApart'
  <2> SUFFICES ASSUME "port" \notin overlaps' PROVE PortsApart'
    BY DEF PortsApart
  <2>1. "port" \notin overlaps /\ ~PortUsedByOtherSlot(s, z.port)
    BY <1>0, <1>1 DEF IInv, PortsApart
  <2>2. \A d \in Callers : caller'[d].op = "connect" =>
          /\ d # c /\ caller[d].op = "connect" /\ caller'[d] = caller[d]
          /\ caller[d].port # z.port /\ ~PortUsedByOtherSlot(caller[d].slot, caller[d].port)
    <3>1. \A d \in Callers : caller'[d].op = "connect" =>
            d # c /\ caller[d].op = "connect" /\ caller'[d] = caller[d]
      BY <1>2, <1>4
    <3> QED BY <1>0, <2>1, <3>1 DEF IInv, PortsApart
  <2>3. \A d \in Callers : caller'[d].op = "connect" =>
          ~PortUsedByOtherSlot(caller[d].slot, caller[d].port)'
    BY <1>4, <1>5, <2>2 DEF PortUsedByOtherSlot
  <2>4. \A d \in Callers : caller'[d].op = "connect" =>
          \A e \in Callers \ {d} : caller'[e].op = "connect" => caller'[e].port # caller'[d].port
    BY <2>1, <2>2 DEF IInv, PortsApart
  <2>5. \A t \in Slots : channel'[t].connected => ~PortUsedByOtherSlot(t, channel[t].port)'
    BY <1>5, <2>1 DEF IInv, PortsApart, PortUsedByOtherSlot
  <2> QED BY <2>3, <2>4, <2>5 DEF PortsApart
<1>14. SlotsApart'
  <2> SUFFICES ASSUME "slot" \notin overlaps' PROVE SlotsApart'
    BY DEF SlotsApart
  <2>1. "slot" \notin overlaps /\ Stopped(caller[c]) /\ Alone
    BY <1>1 DEF IInv, SlotsApart
  <2>2. channel[s].poll_thread = 0 /\ ~channel[s].poll_running /\ ~channel[s].connected
    BY <1>0, <2>1 DEF Stopped
  <2>3. poller'[n] = q /\ ~aborted' /\ z.poll_thread = n /\ channel[s].bus = 0
    BY <1>6, <2>2 DEF IInv, Shapes, Bused
  <2>4. Alone'
    BY <1>2, <1>4, <2>1 DEF Alone
  <2>5. \A d \in Callers \ {c} : Commands(caller[d]) => caller[d].slot # s
    BY <1>0, <2>1 DEF Alone
  <2>6. \A t \in Slots : Untouched(t)' => Polled(t)'
    <3> SUFFICES ASSUME NEW t \in Slots, Untouched(t)' PROVE Polled(t)'
      OBVIOUS
    <3>1. CASE t = s
      BY <1>3, <1>5, <1>9, <2>3, <3>1 DEF Polled, Polls
    <3>2. CASE t # s
      <4>1. Untouched(t)
        BY <1>0, <1>4, <3>2 DEF Untouched
      <4>2. Polled(t) /\ channel'[t] = channel[t] /\ channel[t].poll_thread \in 0 .. MaxConnects
        BY <1>5, <2>1, <3>2, <4>1, ChannelFields DEF IInv, SlotsApart, Types
      <4>3. CASE channel[t].connected
        <5>1. channel[t].poll_thread \in Connections /\ channel[t].poll_thread # n
          BY <1>9, <4>2, <4>3, PortBoundsAssumption DEF Polled, Polls, Connections
        <5> QED BY <1>6, <4>2, <4>3, <5>1 DEF Polled
      <4>4. CASE ~channel[t].connected
        BY <4>2, <4>4 DEF Polled
      <4> QED BY <4>3, <4>4
    <3> QED BY <3>1, <3>2
  <2>7. \A d \in Callers : Stopped(caller[d])'
    <3> SUFFICES ASSUME NEW d \in Callers PROVE Stopped(caller[d])'
      OBVIOUS
    <3>1. CASE d = c
      BY <1>2, <1>4, <3>1 DEF Stopped
    <3>2. CASE d # c
      <4>1. Stopped(caller[d])
        BY <2>1 DEF IInv, SlotsApart
      <4> QED BY <1>4, <1>5, <2>5, <3>2, <4>1, OthersStopped
    <3> QED BY <3>1, <3>2
  <2>8. \A m \in Connections : poller'[m].step \in Alive => Owned(m)'
    <3> SUFFICES ASSUME NEW m \in Connections, poller'[m].step \in Alive PROVE Owned(m)'
      OBVIOUS
    <3>1. CASE m = n
      BY <1>3, <1>5, <2>3, <3>1 DEF Owned
    <3>2. CASE m # n
      <4>1. Owned(m) /\ poller[m].slot \in Slots /\ poller'[m] = poller[m] /\ m # 0
        BY <1>6, <2>1, <3>2 DEF IInv, SlotsApart, Shapes, Alive, Polls, Connections
      <4>2. CASE channel[poller[m].slot].poll_thread = m
        BY <1>5, <2>2, <4>1, <4>2 DEF Owned
      <4>3. CASE \E d \in Callers : /\ caller[d].step = "join" /\ caller[d].join = m
                                    /\ caller[d].slot = poller[m].slot
        BY <1>0, <1>4, <4>1, <4>3 DEF Owned
      <4> QED BY <4>1, <4>2, <4>3 DEF Owned
    <3> QED BY <3>1, <3>2
  <2>9. \A m \in Connections : poller'[m].step = "io" =>
          poller'[m].bus # 0 /\ channel'[poller'[m].slot].bus = poller'[m].bus
    <3> SUFFICES ASSUME NEW m \in Connections, poller'[m].step = "io"
                 PROVE  poller'[m].bus # 0 /\ channel'[poller'[m].slot].bus = poller'[m].bus
      OBVIOUS
    <3>1. poller'[m] = poller[m]
      BY <1>3, <1>6, <2>3
    <3>2. poller[m].bus # 0 /\ channel[poller[m].slot].bus = poller[m].bus /\ poller[m].slot \in Slots
      BY <2>1, <3>1 DEF IInv, SlotsApart, Shapes
    <3> QED BY <1>5, <2>3, <3>1, <3>2
  <2>10. \A d \in Callers : caller'[d].step = "relay" =>
           caller'[d].bus # 0 /\ channel'[caller'[d].slot].bus = caller'[d].bus
    <3> SUFFICES ASSUME NEW d \in Callers, caller'[d].step = "relay"
                 PROVE  caller'[d].bus # 0 /\ channel'[caller'[d].slot].bus = caller'[d].bus
      OBVIOUS
    <3>1. caller'[d] = caller[d]
      BY <1>2, <1>4
    <3>2. caller[d].bus # 0 /\ channel[caller[d].slot].bus = caller[d].bus /\ caller[d].slot \in Slots
      BY <2>1, <3>1 DEF IInv, SlotsApart, Shapes, Fits
    <3> QED BY <1>5, <2>3, <3>1, <3>2
  <2> QED BY <2>3, <2>4, <2>6, <2>7, <2>8, <2>9, <2>10 DEF SlotsApart
<1> QED BY <1>8, <1>10, <1>11, <1>12, <1>13, <1>14 DEF IInv

\* A command that holds the lock throughout changes devices and the file only.
LEMMA DeviceFrame ==
  ASSUME IInv, channel' \in [Slots -> Channel],
         \A t \in Slots : /\ channel'[t].port = channel[t].port /\ channel'[t].bus = channel[t].bus
                          /\ channel'[t].connected = channel[t].connected
                          /\ channel'[t].stop_requested = channel[t].stop_requested
                          /\ channel'[t].poll_running = channel[t].poll_running
                          /\ channel'[t].poll_thread = channel[t].poll_thread,
         \A t \in Slots : Bused(channel'[t]),
         UNCHANGED <<poller, caller, opened, todo, overlaps, aborted>>,
         file' \in File, faults' \in 0 .. MaxFaults, torn' \in BOOLEAN, DevicesAreSaved'
  PROVE  IInv'
<1>1. Types'
  BY DEF IInv, Types
<1>2. Shapes'
  BY DEF IInv, Shapes
<1>3. Numbers'
  BY DEF IInv, Numbers
<1>4. PortsApart'
  <2> SUFFICES ASSUME "port" \notin overlaps' PROVE PortsApart'
    BY DEF PortsApart
  <2>1. \A t \in Slots : \A p : PortUsedByOtherSlot(t, p)' <=> PortUsedByOtherSlot(t, p)
    BY DEF PortUsedByOtherSlot
  <2>2. \A c \in Callers : caller[c].op = "connect" => caller[c].slot \in Slots
    BY DEF IInv, Shapes, Fits
  <2>3. \A c \in Callers : caller[c].op = "connect" =>
          /\ ~PortUsedByOtherSlot(caller[c].slot, caller[c].port)'
          /\ \A d \in Callers \ {c} : caller[d].op = "connect" => caller[d].port # caller[c].port
    BY <2>1, <2>2 DEF IInv, PortsApart, PortUsedByOtherSlot
  <2>4. \A t \in Slots : channel[t].connected => ~PortUsedByOtherSlot(t, channel[t].port)'
    BY <2>1 DEF IInv, PortsApart, PortUsedByOtherSlot
  <2> QED BY <2>3, <2>4 DEF PortsApart
<1>5. SlotsApart'
  <2> SUFFICES ASSUME "slot" \notin overlaps' PROVE SlotsApart'
    BY DEF SlotsApart
  <2>1. Alone' /\ ~aborted'
    BY DEF IInv, SlotsApart, Alone
  <2>2. \A t \in Slots : Untouched(t)' => Polled(t)'
    BY DEF IInv, SlotsApart, Untouched, Polled
  <2>3. \A c \in Callers : Stopped(caller[c])'
    <3> SUFFICES ASSUME NEW c \in Callers PROVE Stopped(caller[c])'
      OBVIOUS
    <3>1. Stopped(caller[c])
      BY DEF IInv, SlotsApart
    <3>2. CASE caller[c].step \in {"join", "clear", "open", "close"}
      BY <3>1, <3>2, InSection DEF Stopped
    <3>3. CASE caller[c].step \notin {"join", "clear", "open", "close"}
      BY <3>3 DEF Stopped
    <3> QED BY <3>2, <3>3
  <2>4. \A n \in Connections : poller[n].step \in Alive => Owned(n)'
    BY DEF IInv, SlotsApart, Owned, Shapes, Alive, Polls
  <2>5. \A n \in Connections : poller[n].step = "io" =>
          poller[n].bus # 0 /\ channel'[poller[n].slot].bus = poller[n].bus
    BY DEF IInv, SlotsApart, Shapes
  <2>6. \A c \in Callers : caller[c].step = "relay" =>
          caller[c].bus # 0 /\ channel'[caller[c].slot].bus = caller[c].bus
    BY DEF IInv, SlotsApart, Shapes, Fits
  <2> QED BY <2>1, <2>2, <2>3, <2>4, <2>5, <2>6 DEF SlotsApart
<1> QED BY <1>1, <1>2, <1>3, <1>4, <1>5 DEF IInv

\* The devices of one connected slot.
LEMMA WithIs ==
  ASSUME IInv, NEW s \in Slots, NEW ds \in SUBSET Devices
  PROVE  /\ With(s, ds) \in [Slots -> Channel]
         /\ With(s, ds)[s].devices = ds
         /\ \A t \in Slots : LET a == With(s, ds)[t] b == channel[t] IN
              /\ t # s => a.devices = b.devices
              /\ a.port = b.port /\ a.bus = b.bus /\ a.connected = b.connected
              /\ a.stop_requested = b.stop_requested /\ a.poll_running = b.poll_running
              /\ a.poll_thread = b.poll_thread
<1>1. channel \in [Slots -> Channel]
  BY DEF IInv, Types
<1>2. With(s, ds) \in [Slots -> Channel]
  BY <1>1 DEF With, Channel
<1>3. /\ \A t \in Slots \ {s} : With(s, ds)[t] = channel[t]
      /\ With(s, ds)[s] = [channel[s] EXCEPT !.devices = ds]
  BY <1>1 DEF With
<1>4. LET a == [channel[s] EXCEPT !.devices = ds] b == channel[s] IN
        /\ a.devices = ds
        /\ a.port = b.port /\ a.bus = b.bus /\ a.connected = b.connected
        /\ a.stop_requested = b.stop_requested /\ a.poll_running = b.poll_running
        /\ a.poll_thread = b.poll_thread
  BY <1>1 DEF Channel
<1> QED BY <1>2, <1>3, <1>4

\* addDevice and removeDevice: the slot has the new devices and the file too, or
\* the write has failed and the slot has the old ones.
LEMMA DevicesInv ==
  ASSUME IInv, NEW s \in Slots, NEW ds \in SUBSET Devices, channel[s].connected,
         \/ channel' = With(s, ds) /\ Written(Content(With(s, ds)))
         \/ UNCHANGED channel /\ NotWritten,
         UNCHANGED deviceUnchanged
  PROVE  IInv'
<1> DEFINE new == With(s, ds)
<1>1. UNCHANGED <<poller, caller, opened, todo, overlaps, aborted>>
  BY DEF deviceUnchanged
<1>2. /\ new \in [Slots -> Channel] /\ new[s].devices = ds
      /\ \A t \in Slots : /\ t # s => new[t].devices = channel[t].devices
                          /\ new[t].port = channel[t].port /\ new[t].bus = channel[t].bus
                          /\ new[t].connected = channel[t].connected
                          /\ new[t].stop_requested = channel[t].stop_requested
                          /\ new[t].poll_running = channel[t].poll_running
                          /\ new[t].poll_thread = channel[t].poll_thread
  BY WithIs
<1> HIDE DEF new
<1>3. Content(new) \in File /\ \A t \in Slots : Content(new).devices[t] = new[t].devices
  BY <1>2, ContentIs
<1>4. CASE channel' = new /\ Written(Content(new))
  <2>1. file' = Content(new) /\ torn' = torn /\ faults' = faults
    BY <1>4 DEF Written
  <2>2. DevicesAreSaved'
    BY <1>3, <1>4, <2>1 DEF DevicesAreSaved
  <2>3. \A t \in Slots : Bused(channel'[t])
    BY <1>2, <1>4 DEF IInv, Shapes, Bused
  <2>4. file' \in File /\ faults' \in 0 .. MaxFaults /\ torn' \in BOOLEAN
    BY <1>3, <2>1 DEF IInv, Types
  <2> QED BY <1>1, <1>2, <1>4, <2>2, <2>3, <2>4, DeviceFrame
<1>5. CASE UNCHANGED channel /\ NotWritten
  <2>1. /\ file' \in File /\ faults' \in 0 .. MaxFaults /\ torn' \in BOOLEAN
        /\ ~torn' => ~torn /\ file' = file
    BY <1>3, <1>5, FileMoves DEF IInv, NotWritten, Types
  <2>2. DevicesAreSaved'
    BY <1>5, <2>1 DEF IInv, DevicesAreSaved
  <2>3. channel' \in [Slots -> Channel] /\ \A t \in Slots : Bused(channel'[t])
    BY <1>5 DEF IInv, Types, Shapes
  <2> QED BY <1>1, <1>5, <2>1, <2>2, <2>3, DeviceFrame
<1> QED BY <1>4, <1>5 DEF new

\* setDeviceThreshold and saveOfflineCacheConfig write the file and no slot.
LEMMA FileOnlyInv ==
  ASSUME IInv, UNCHANGED <<channel, deviceUnchanged>>,
         Written(Content(channel)) \/ Written(file) \/ NotWritten
  PROVE  IInv'
<1>1. UNCHANGED <<poller, caller, opened, todo, overlaps, aborted>> /\ channel' = channel
  BY DEF deviceUnchanged
<1>2. /\ channel \in [Slots -> Channel] /\ file \in File /\ Content(channel) \in File
      /\ \A t \in Slots : Content(channel).devices[t] = channel[t].devices
  BY ContentIs DEF IInv, Types
<1>3. /\ file' \in File /\ faults' \in 0 .. MaxFaults /\ torn' \in BOOLEAN
      /\ ~torn' => ~torn /\ file' \in {file, Content(channel)}
  <2>1. CASE Written(Content(channel)) \/ NotWritten
    BY <1>2, <2>1, FileMoves DEF IInv
  <2>2. CASE Written(file)
    BY <1>2, <2>2, FileMoves DEF IInv
  <2> QED BY <2>1, <2>2
<1>4. DevicesAreSaved'
  BY <1>1, <1>2, <1>3 DEF IInv, DevicesAreSaved
<1>5. \A t \in Slots : Bused(channel'[t])
  BY <1>1 DEF IInv, Shapes
<1> QED BY <1>1, <1>2, <1>3, <1>4, <1>5, DeviceFrame

-----------------------------------------------------------------------------
\* The polling threads

\* The thread of a slot goes on: no command has begun to stop it.
LEMMA OwnThread ==
  ASSUME IInv, "slot" \notin overlaps, NEW n \in Connections, NEW s \in Slots,
         channel[s].poll_thread = n
  PROVE  Polled(s) /\ channel[s].connected
<1>1. n # 0
  BY PortBoundsAssumption DEF Connections
<1>2. Untouched(s)
  <2> SUFFICES ASSUME NEW c \in Callers, Commands(caller[c]), caller[c].slot = s,
                      caller[c].step # "stop"
               PROVE  FALSE
    BY DEF Untouched
  <2>1. caller[c].step \in {"join", "clear", "open", "close"}
    BY DEF IInv, Shapes, Fits, Commands
  <2>2. Stopped(caller[c])
    BY DEF IInv, SlotsApart
  <2> QED BY <1>1, <2>1, <2>2 DEF Stopped
<1>3. Polled(s)
  BY <1>2 DEF IInv, SlotsApart
<1> QED BY <1>1, <1>3 DEF Polled

\* A polling thread moves on within its loop, or leaves it when it is not the
\* slot's any more.
LEMMA PollerFrame ==
  ASSUME IInv, NEW n \in Connections, NEW q \in Poller, poller' = [poller EXCEPT ![n] = q],
         UNCHANGED <<channel, caller, opened, file, todo, overlaps, torn, faults, aborted>>,
         poller[n].step \in Alive, q.step \in Alive, q.slot = poller[n].slot,
         "slot" \notin overlaps =>
           /\ q.step = "io" => q.bus # 0 /\ channel[q.slot].bus = q.bus
           /\ q.step = "exit" => channel[q.slot].poll_thread # n
  PROVE  IInv'
<1>1. /\ poller' \in [Connections -> Poller] /\ poller'[n] = q
      /\ \A m \in Connections \ {n} : poller'[m] = poller[m]
  BY PollerMoves DEF IInv
<1>2. Types'
  BY <1>1 DEF IInv, Types
<1>3. Shapes'
  BY <1>1 DEF IInv, Shapes, Alive, Polls
<1>4. Numbers'
  <2>1. \A c \in Callers : caller[c].op = "connect" =>
          caller[c].id # n /\ caller[c].id \in Connections
    <3> SUFFICES ASSUME NEW c \in Callers, caller[c].op = "connect"
                 PROVE  caller[c].id # n /\ caller[c].id \in Connections
      OBVIOUS
    <3>1. caller[c].id # 0 /\ caller[c].id \in 0 .. MaxConnects
      BY CallerFields DEF IInv, Types, Shapes, Fits
    <3>2. poller[caller[c].id].step = "none"
      BY DEF IInv, Numbers
    <3> QED BY <3>1, <3>2, PortBoundsAssumption DEF Connections, Alive, Polls
  <2>2. n <= opened
    BY DEF IInv, Numbers, Alive, Polls
  <2> QED BY <1>1, <2>1, <2>2 DEF IInv, Numbers
<1>5. DevicesAreSaved' /\ PortsApart'
  BY DEF IInv, DevicesAreSaved, PortsApart, PortUsedByOtherSlot
<1>6. SlotsApart'
  <2> SUFFICES ASSUME "slot" \notin overlaps PROVE SlotsApart'
    BY DEF SlotsApart
  <2>1. Alone' /\ ~aborted'
    BY DEF IInv, SlotsApart, Alone
  <2>2. \A t \in Slots : Untouched(t)' => Polled(t)'
    <3> SUFFICES ASSUME NEW t \in Slots, Untouched(t) PROVE Polled(t)'
      BY DEF Untouched
    <3>1. Polled(t)
      BY DEF IInv, SlotsApart
    <3>2. CASE channel[t].connected
      <4>1. channel[t].poll_thread \in Connections
        BY <3>1, <3>2, ChannelFields, PortBoundsAssumption
           DEF IInv, Types, Polled, Connections
      <4>2. CASE channel[t].poll_thread = n
        <5>1. q.slot = t /\ q.step \in Polls
          BY <3>1, <3>2, <4>2 DEF Polled, Alive
        <5> QED BY <1>1, <3>1, <3>2, <4>2, <5>1 DEF Polled
      <4>3. CASE channel[t].poll_thread # n
        BY <1>1, <3>1, <3>2, <4>1, <4>3 DEF Polled
      <4> QED BY <4>2, <4>3
    <3>3. CASE ~channel[t].connected
      BY <3>1, <3>3 DEF Polled
    <3> QED BY <3>2, <3>3
  <2>3. \A c \in Callers : Stopped(caller[c])'
    BY DEF IInv, SlotsApart, Stopped
  <2>4. \A m \in Connections : poller'[m].step \in Alive => Owned(m)'
    <3> SUFFICES ASSUME NEW m \in Connections, poller'[m].step \in Alive PROVE Owned(m)'
      OBVIOUS
    <3>1. Owned(m) /\ poller'[m].slot = poller[m].slot
      BY <1>1 DEF IInv, SlotsApart
    <3> QED BY <3>1 DEF Owned
  <2>5. \A m \in Connections : poller'[m].step = "io" =>
          poller'[m].bus # 0 /\ channel[poller'[m].slot].bus = poller'[m].bus
    BY <1>1 DEF IInv, SlotsApart
  <2> QED BY <2>1, <2>2, <2>3, <2>4, <2>5 DEF IInv, SlotsApart
<1> QED BY <1>2, <1>3, <1>4, <1>5, <1>6 DEF IInv

\* The loop's condition: only a thread that was taken over finds it false.
LEMMA PollCheckInv ==
  ASSUME IInv, NEW n \in Connections, PollCheck(n)
  PROVE  IInv'
<1>1. /\ UNCHANGED <<channel, caller, opened, file, todo, overlaps, torn, faults, aborted>>
      /\ poller[n].step = "check" /\ poller[n] \in Poller /\ poller[n].slot \in Slots
  BY DEF PollCheck, pollUnchanged, IInv, Types, Shapes
<1> PICK s \in Slots : s = poller[n].slot
  BY <1>1
<1>2. poller[n].step \in Alive
  BY <1>1 DEF Alive, Polls
<1>3. CASE MustExit(s)
  <2> DEFINE q == [poller[n] EXCEPT !.step = "exit"]
  <2>1. poller' = [poller EXCEPT ![n] = q]
    BY <1>3 DEF PollCheck
  <2>2. q \in Poller /\ q.step = "exit" /\ q.slot = s
    BY <1>1 DEF Poller, Alive
  <2> HIDE DEF q
  <2>3. "slot" \notin overlaps => channel[s].poll_thread # n
    BY <1>3, OwnThread DEF MustExit, Polled, IInv, Shapes, Bused
  <2>4. q.step \in Alive /\ q.step # "io" /\ q.slot = poller[n].slot
    BY <2>2 DEF Alive
  <2> QED BY <1>1, <1>2, <2>1, <2>2, <2>3, <2>4, PollerFrame
<1>4. CASE ~MustExit(s)
  <2> PICK due \in SUBSET channel[s].devices :
        poller' = [poller EXCEPT ![n].step = "device", ![n].due = due]
    BY <1>4 DEF PollCheck
  <2> DEFINE q == [poller[n] EXCEPT !.step = "device", !.due = due]
  <2>1. due \in SUBSET Devices
    BY ChannelFields DEF IInv, Types
  <2>2. poller' = [poller EXCEPT ![n] = q]
    BY DEF IInv, Types
  <2>3. q \in Poller /\ q.step = "device" /\ q.slot = s
    BY <1>1, <2>1 DEF Poller, Alive, Polls
  <2> HIDE DEF q
  <2>4. q.step \in Alive /\ q.step # "io" /\ q.step # "exit" /\ q.slot = poller[n].slot
    BY <2>3 DEF Alive, Polls
  <2> QED BY <1>1, <1>2, <2>2, <2>3, <2>4, PollerFrame
<1> QED BY <1>3, <1>4

\* pollDevice takes io_lock and uses the slot's bus.
LEMMA PollBeginInv ==
  ASSUME IInv, NEW n \in Connections, PollBegin(n)
  PROVE  IInv'
<1>1. /\ UNCHANGED <<channel, caller, opened, file, todo, overlaps, torn, faults, aborted>>
      /\ poller[n].step = "device" /\ poller[n] \in Poller /\ poller[n].slot \in Slots
  BY DEF PollBegin, pollUnchanged, IInv, Types, Shapes
<1> PICK s \in Slots : s = poller[n].slot
  BY <1>1
<1>2. poller[n].step \in Alive /\ channel[s].bus \in 0 .. MaxConnects
  BY <1>1, ChannelFields DEF Alive, Polls, IInv, Types
<1>3. CASE channel[s].connected /\ channel[s].bus # 0
  <2> DEFINE q == [poller[n] EXCEPT !.step = "io", !.bus = channel[s].bus]
  <2>1. poller' = [poller EXCEPT ![n] = q]
    BY <1>3 DEF PollBegin, IInv, Types
  <2>2. q \in Poller /\ q.step = "io" /\ q.slot = s /\ q.bus = channel[s].bus
    BY <1>1, <1>2 DEF Poller, Alive, Polls
  <2> HIDE DEF q
  <2>3. q.step \in Alive /\ q.step # "exit" /\ q.slot = poller[n].slot
    BY <2>2 DEF Alive, Polls
  <2> QED BY <1>1, <1>2, <1>3, <2>1, <2>2, <2>3, PollerFrame
<1>4. CASE ~(channel[s].connected /\ channel[s].bus # 0)
  <2> DEFINE q == [poller[n] EXCEPT !.step = "check", !.due = {}]
  <2>1. poller' = [poller EXCEPT ![n] = q]
    BY <1>4 DEF PollBegin, IInv, Types
  <2>2. q \in Poller /\ q.step = "check" /\ q.slot = s
    BY <1>1 DEF Poller, Alive, Polls
  <2> HIDE DEF q
  <2>3. q.step \in Alive /\ q.step # "io" /\ q.step # "exit" /\ q.slot = poller[n].slot
    BY <2>2 DEF Alive, Polls
  <2> QED BY <1>1, <1>2, <2>1, <2>2, <2>3, PollerFrame
<1> QED BY <1>3, <1>4

\* The read is over.
LEMMA PollEndInv ==
  ASSUME IInv, NEW n \in Connections, PollEnd(n)
  PROVE  IInv'
<1>1. /\ UNCHANGED <<channel, caller, opened, file, todo, overlaps, torn, faults, aborted>>
      /\ poller[n].step = "io" /\ poller[n] \in Poller
  BY DEF PollEnd, pollUnchanged, IInv, Types
<1> PICK rest \in SUBSET Devices :
      poller' = [poller EXCEPT ![n].bus = 0, ![n].due = rest,
                               ![n].step = IF rest = {} THEN "check" ELSE "device"]
  BY <1>1, PollerFields DEF PollEnd
<1> DEFINE q == [poller[n] EXCEPT !.bus = 0, !.due = rest,
                                  !.step = IF rest = {} THEN "check" ELSE "device"]
<1>2. poller' = [poller EXCEPT ![n] = q]
  BY DEF IInv, Types
<1>3. q \in Poller /\ q.step \in {"check", "device"} /\ q.slot = poller[n].slot
  <2>1. 0 \in 0 .. MaxConnects
    BY PortBoundsAssumption
  <2> QED BY <1>1, <2>1 DEF Poller, Alive, Polls
<1> HIDE DEF q
<1>4. q.step \in Alive /\ q.step # "io" /\ q.step # "exit" /\ poller[n].step \in Alive
  BY <1>1, <1>3 DEF Alive, Polls
<1> QED BY <1>1, <1>2, <1>3, <1>4, PollerFrame

\* The end of pollThreadMain: its slot is in the hands of the command that joins it.
LEMMA PollExitInv ==
  ASSUME IInv, NEW n \in Connections, PollExit(n)
  PROVE  IInv'
<1>1. /\ UNCHANGED <<caller, opened, file, todo, overlaps, torn, faults, aborted>>
      /\ poller[n].step = "exit" /\ poller[n] \in Poller /\ poller[n].slot \in Slots
  BY DEF PollExit, pollUnchanged, IInv, Types, Shapes
<1> PICK s \in Slots : s = poller[n].slot
  BY <1>1
<1> DEFINE q  == [poller[n] EXCEPT !.step = "ended"]
           ch == [channel[s] EXCEPT !.poll_running = FALSE, !.stop_requested = FALSE]
<1>2. poller' = [poller EXCEPT ![n] = q] /\ channel' = [channel EXCEPT ![s] = ch]
  BY DEF PollExit, IInv, Types
<1>3. q \in Poller /\ q.step = "ended" /\ q.slot = s
  BY <1>1 DEF Poller
<1>4. /\ ch \in Channel /\ ch.poll_running = FALSE /\ ch.port = channel[s].port
      /\ ch.bus = channel[s].bus /\ ch.connected = channel[s].connected
      /\ ch.devices = channel[s].devices /\ ch.poll_thread = channel[s].poll_thread
  <2>1. channel[s] \in Channel
    BY DEF IInv, Types
  <2> QED BY <2>1 DEF Channel
<1> HIDE DEF q, ch
<1>5. /\ poller' \in [Connections -> Poller] /\ poller'[n] = q
      /\ \A m \in Connections \ {n} : poller'[m] = poller[m]
  BY <1>2, <1>3, PollerMoves DEF IInv
<1>6. /\ channel' \in [Slots -> Channel] /\ channel'[s] = ch
      /\ \A t \in Slots \ {s} : channel'[t] = channel[t]
  BY <1>2, <1>4, ChannelMoves DEF IInv
<1>7. Types'
  BY <1>1, <1>5, <1>6 DEF IInv, Types
<1>8. Shapes'
  <2>1. Bused(ch)
    BY <1>4 DEF Bused, IInv, Shapes
  <2> QED BY <1>1, <1>3, <1>5, <1>6, <2>1 DEF IInv, Shapes
<1>9. Numbers'
  <2>1. \A c \in Callers : caller[c].op = "connect" =>
          caller[c].id # n /\ caller[c].id \in Connections
    <3> SUFFICES ASSUME NEW c \in Callers, caller[c].op = "connect"
                 PROVE  caller[c].id # n /\ caller[c].id \in Connections
      OBVIOUS
    <3>1. caller[c].id # 0 /\ caller[c].id \in 0 .. MaxConnects
      BY CallerFields DEF IInv, Types, Shapes, Fits
    <3>2. poller[caller[c].id].step = "none"
      BY DEF IInv, Numbers
    <3> QED BY <1>1, <3>1, <3>2, PortBoundsAssumption DEF Connections
  <2>2. n <= opened
    BY <1>1 DEF IInv, Numbers
  <2>3. \A t \in Slots : channel'[t].bus <= opened /\ channel'[t].poll_thread <= opened
    BY <1>4, <1>6 DEF IInv, Numbers
  <2> QED BY <1>1, <1>5, <2>1, <2>2, <2>3 DEF IInv, Numbers
<1>10. DevicesAreSaved'
  BY <1>1, <1>4, <1>6 DEF IInv, DevicesAreSaved
<1>11. PortsApart'
  <2>1. \A t \in Slots : /\ channel'[t].connected = channel[t].connected
                         /\ channel'[t].port = channel[t].port
    BY <1>4, <1>6
  <2> SUFFICES ASSUME "port" \notin overlaps' PROVE PortsApart'
    BY DEF PortsApart
  <2>3. \A c \in Callers : caller[c].op = "connect" =>
          /\ ~PortUsedByOtherSlot(caller[c].slot, caller[c].port)'
          /\ \A d \in Callers \ {c} : caller[d].op = "connect" => caller[d].port # caller[c].port
    BY <1>1, <2>1 DEF IInv, PortsApart, PortUsedByOtherSlot
  <2>4. \A t \in Slots : channel[t].connected => ~PortUsedByOtherSlot(t, channel[t].port)'
    BY <1>1, <2>1 DEF IInv, PortsApart, PortUsedByOtherSlot
  <2> QED BY <1>1, <2>1, <2>3, <2>4 DEF PortsApart
<1>12. SlotsApart'
  <2> SUFFICES ASSUME "slot" \notin overlaps PROVE SlotsApart'
    BY <1>1 DEF SlotsApart
  <2>1. Alone' /\ ~aborted'
    BY <1>1 DEF IInv, SlotsApart, Alone
  <2>2. channel[s].poll_thread # n
    BY <1>1, OwnThread DEF Polled, Polls
  <2>3. ~Untouched(s)
    <3>1. PICK c \in Callers : caller[c].step = "join" /\ caller[c].slot = s
      BY <1>1, <2>2 DEF IInv, SlotsApart, Owned, Alive
    <3>2. Commands(caller[c])
      BY <3>1, InSection
    <3> QED BY <3>1, <3>2 DEF Untouched
  <2>4. \A t \in Slots : Untouched(t)' => Polled(t)'
    <3> SUFFICES ASSUME NEW t \in Slots, Untouched(t) PROVE Polled(t)'
      BY <1>1 DEF Untouched
    <3>1. t # s /\ Polled(t) /\ channel'[t] = channel[t]
      BY <1>6, <2>3 DEF IInv, SlotsApart
    <3>2. CASE channel[t].connected
      <4>1. channel[t].poll_thread \in Connections
        BY <3>1, <3>2, ChannelFields, PortBoundsAssumption
           DEF IInv, Types, Polled, Connections
      <4>2. channel[t].poll_thread # n
        BY <3>1, <3>2 DEF Polled
      <4> QED BY <1>5, <3>1, <3>2, <4>1, <4>2 DEF Polled
    <3>3. CASE ~channel[t].connected
      BY <3>1, <3>3 DEF Polled
    <3> QED BY <3>2, <3>3
  <2>5. \A c \in Callers : Stopped(caller[c])'
    <3> SUFFICES ASSUME NEW c \in Callers PROVE Stopped(caller[c])'
      OBVIOUS
    <3>1. Stopped(caller[c])
      BY DEF IInv, SlotsApart
    <3>2. CASE caller[c].step \in {"join", "clear", "open", "close"}
      <4>1. caller[c].slot \in Slots
        BY <3>2, InSection
      <4> QED BY <1>1, <1>4, <1>6, <3>1, <4>1 DEF Stopped
    <3>3. CASE caller[c].step \notin {"join", "clear", "open", "close"}
      BY <1>1, <3>3 DEF Stopped
    <3> QED BY <3>2, <3>3
  <2>6. \A m \in Connections : poller'[m].step \in Alive => Owned(m)'
    <3> SUFFICES ASSUME NEW m \in Connections, poller'[m].step \in Alive PROVE Owned(m)'
      OBVIOUS
    <3>1. poller'[m] = poller[m]
      BY <1>3, <1>5 DEF Alive, Polls
    <3>2. Owned(m) /\ poller[m].slot \in Slots
      BY <3>1 DEF IInv, SlotsApart, Shapes, Alive, Polls
    <3>3. channel'[poller[m].slot].poll_thread = channel[poller[m].slot].poll_thread
      BY <1>4, <1>6, <3>2
    <3> QED BY <1>1, <3>1, <3>2, <3>3 DEF Owned
  <2>7. \A m \in Connections : poller'[m].step = "io" =>
          poller'[m].bus # 0 /\ channel'[poller'[m].slot].bus = poller'[m].bus
    <3> SUFFICES ASSUME NEW m \in Connections, poller'[m].step = "io"
                 PROVE  poller'[m].bus # 0 /\ channel'[poller'[m].slot].bus = poller'[m].bus
      OBVIOUS
    <3>1. poller'[m] = poller[m]
      BY <1>3, <1>5
    <3>2. poller[m].bus # 0 /\ channel[poller[m].slot].bus = poller[m].bus /\ poller[m].slot \in Slots
      BY <3>1 DEF IInv, SlotsApart, Shapes
    <3> QED BY <1>4, <1>6, <3>1, <3>2
  <2>8. \A c \in Callers : caller[c].step = "relay" =>
          caller[c].bus # 0 /\ channel'[caller[c].slot].bus = caller[c].bus
    BY <1>4, <1>6 DEF IInv, SlotsApart, Shapes, Fits
  <2> QED BY <1>1, <2>1, <2>4, <2>5, <2>6, <2>7, <2>8 DEF SlotsApart
<1> QED BY <1>7, <1>8, <1>9, <1>10, <1>11, <1>12 DEF IInv

-----------------------------------------------------------------------------
\* The specification

\* At the start every slot is closed and every thread idle, whatever the file holds.
LEMMA InitInv == Init => IInv
<1> SUFFICES ASSUME Init PROVE IInv
  OBVIOUS
<1>1. /\ channel = [s \in Slots |-> Closed] /\ poller = [n \in Connections |-> NotStarted]
      /\ caller = [c \in Callers |-> Idle] /\ opened = 0 /\ faults = 0 /\ overlaps = {}
      /\ torn = FALSE /\ aborted = FALSE /\ file \in File /\ todo = [s \in Slots |-> NoPort]
  BY DEF Init, File
<1>2. NotStarted \in Poller /\ NotStarted.step = "none"
  BY PortBoundsAssumption DEF NotStarted, Poller
<1>3. Types
  <2>1. /\ channel \in [Slots -> Channel] /\ poller \in [Connections -> Poller]
        /\ caller \in [Callers -> Caller] /\ todo \in [Slots -> Ports \cup {NoPort}]
    BY <1>1, <1>2, IdleFits, ClosedFits
  <2>2. opened \in 0 .. MaxConnects /\ faults \in 0 .. MaxFaults
    BY <1>1, PortBoundsAssumption
  <2> QED BY <1>1, <2>1, <2>2 DEF Types
<1>4. Shapes
  BY <1>1, <1>2, IdleFits, ClosedFits DEF Shapes, Bused
<1>5. Numbers
  BY <1>1, <1>2, IdleFits, ClosedFits DEF Numbers, Commands
<1>6. DevicesAreSaved /\ PortsApart
  BY <1>1, IdleFits, ClosedFits DEF DevicesAreSaved, PortsApart, Commands
<1>7. SlotsApart
  BY <1>1, <1>2, IdleFits, ClosedFits DEF SlotsApart, Alone, Polled, Stopped, Alive, Polls
<1> QED BY <1>3, <1>4, <1>5, <1>6, <1>7 DEF IInv

\* Reading the saved ports, and ticking one off, touches no slot.
LEMMA TodoInv ==
  ASSUME IInv, UNCHANGED <<channel, poller, caller, opened, file, overlaps, torn, faults, aborted>>,
         todo' \in [Slots -> Ports \cup {NoPort}]
  PROVE  IInv'
<1>1. Types' /\ Shapes' /\ Numbers' /\ DevicesAreSaved'
  BY DEF IInv, Types, Shapes, Numbers, DevicesAreSaved
<1>2. PortsApart'
  BY DEF IInv, PortsApart, PortUsedByOtherSlot
<1>3. SlotsApart'
  BY DEF IInv, SlotsApart, Alone, Untouched, Polled, Stopped, Owned
<1> QED BY <1>1, <1>2, <1>3 DEF IInv

\* The commands of a thread.
LEMMA CommandInv ==
  ASSUME IInv, NEW c \in Callers, Command(c)
  PROVE  IInv'
<1>1. CASE \E s \in Slots, p \in Ports : BeginConnect(c, s, p) /\ UNCHANGED <<loaded, todo>>
  BY <1>1, BeginConnectInv DEF IInv, Types
<1>2. CASE \E s \in Slots : BeginDisconnect(c, s) \/ BeginRelay(c, s)
  BY <1>2, BeginDisconnectInv, BeginRelayInv
<1>3. CASE \E s \in Slots : SetDeviceThreshold(c, s)
  BY <1>3, FileOnlyInv DEF SetDeviceThreshold
<1>4. CASE \E s \in Slots, d \in Devices : AddDevice(c, s, d)
  <2> PICK s \in Slots, d \in Devices : AddDevice(c, s, d)
    BY <1>4
  <2> PICK ds : ds = channel[s].devices \cup {d}
    OBVIOUS
  <2>1. ds \in SUBSET Devices
    BY ChannelFields DEF IInv, Types
  <2>2. /\ channel[s].connected /\ UNCHANGED deviceUnchanged
        /\ \/ channel' = With(s, ds) /\ Written(Content(With(s, ds)))
           \/ UNCHANGED channel /\ NotWritten
    BY DEF AddDevice
  <2> QED BY <2>1, <2>2, DevicesInv
<1>5. CASE \E s \in Slots, d \in Devices : RemoveDevice(c, s, d)
  <2> PICK s \in Slots, d \in Devices : RemoveDevice(c, s, d)
    BY <1>5
  <2> PICK ds : ds = channel[s].devices \ {d}
    OBVIOUS
  <2>1. ds \in SUBSET Devices
    BY ChannelFields DEF IInv, Types
  <2>2. /\ channel[s].connected /\ UNCHANGED deviceUnchanged
        /\ \/ channel' = With(s, ds) /\ Written(Content(With(s, ds)))
           \/ UNCHANGED channel /\ NotWritten
    BY DEF RemoveDevice
  <2> QED BY <2>1, <2>2, DevicesInv
<1>6. CASE SaveOfflineCacheConfig(c)
  BY <1>6, FileOnlyInv DEF SaveOfflineCacheConfig
<1> QED BY <1>1, <1>2, <1>3, <1>4, <1>5, <1>6 DEF Command

\* The inductive invariant.
THEOREM Inductive == Spec => []IInv
<1>1. IInv /\ [Next]_vars => IInv'
  <2> SUFFICES ASSUME IInv, [Next]_vars PROVE IInv'
    OBVIOUS
  <2>1. CASE LoadSaved
    <3>1. todo' \in [Slots -> Ports \cup {NoPort}]
      BY <2>1 DEF LoadSaved, IInv, Types, File
    <3> QED BY <2>1, <3>1, TodoInv DEF LoadSaved
  <2>2. CASE \E s \in Slots : RestoreConnect(s)
    <3> PICK s \in Slots : RestoreConnect(s)
      BY <2>2
    <3>1. todo[s] \in Ports /\ todo' \in [Slots -> Ports \cup {NoPort}] /\ "main" \in Callers
      BY DEF RestoreConnect, NextSaved, IInv, Types, Callers
    <3>2. BeginConnect("main", s, todo[s])
      BY DEF RestoreConnect
    <3> QED BY <3>1, <3>2, BeginConnectInv
  <2>3. CASE \E s \in Slots : RestoreSkip(s)
    <3>1. todo' \in [Slots -> Ports \cup {NoPort}]
      BY <2>3 DEF RestoreSkip, IInv, Types
    <3> QED BY <2>3, <3>1, TodoInv DEF RestoreSkip
  <2>4. CASE \E c \in Commanders : Command(c)
    BY <2>4, CommandInv DEF Callers
  <2>5. CASE \E c \in Callers : CallerStep(c)
    BY <2>5, RequestStopInv, StopPollingInv, ClearSlotInv, OpenFailsInv, FinishConnectInv,
       FinishDisconnectInv, EndRelayInv DEF CallerStep
  <2>6. CASE \E n \in Connections : PollerStep(n)
    BY <2>6, PollCheckInv, PollBeginInv, PollEndInv, PollExitInv DEF PollerStep
  <2>7. CASE UNCHANGED vars
    BY <2>7, TodoInv DEF vars, IInv, Types
  <2> QED BY <2>1, <2>2, <2>3, <2>4, <2>5, <2>6, <2>7 DEF Next
<1> QED BY <1>1, InitInv, PTL DEF Spec

\* The shape of the slots, the polling threads and the commands.
THEOREM TypeCorrect == Spec => []TypeOK
<1>1. IInv => TypeOK
  <2> SUFFICES ASSUME IInv PROVE TypeOK
    OBVIOUS
  <2>1. \A s \in Slots :
          /\ channel[s].port \in Ports \cup {NoPort} /\ channel[s].devices \subseteq Devices
          /\ channel[s].bus \in Nat /\ channel[s].poll_thread \in Nat
          /\ {channel[s].stop_requested, channel[s].poll_running} \subseteq BOOLEAN
    BY ChannelFields DEF IInv, Types
  <2>2. \A s \in Slots : channel[s].bus <= opened /\ channel[s].poll_thread <= opened
    BY DEF IInv, Numbers
  <2>3. opened \in 0 .. MaxConnects /\ opened \in Nat
    BY PortBoundsAssumption DEF IInv, Types
  <2>4. \A s \in Slots : channel[s].bus \in 0 .. opened /\ channel[s].poll_thread \in 0 .. opened
    BY <2>1, <2>2, <2>3
  <2>5. \A s \in Slots : channel[s].connected <=> channel[s].bus # 0
    BY DEF IInv, Shapes, Bused
  <2>6. \A n \in Connections :
          /\ poller[n].step \in {"none", "check", "device", "io", "exit", "ended"}
          /\ poller[n].due \subseteq Devices
    BY PollerFields DEF IInv, Types, Alive, Polls
  <2>7. \A c \in Callers :
          caller[c].step \in {"idle", "stop", "join", "clear", "open", "close", "relay"}
    BY CallerFields DEF IInv, Types, Steps
  <2> QED BY <2>1, <2>3, <2>4, <2>5, <2>6, <2>7 DEF TypeOK, IInv, Types
<1> QED BY <1>1, Inductive, PTL

\* No thread reads or writes on a bus that was closed or replaced (io_lock).
THEOREM BusIsThere == Spec => []BusOutlivesUse
<1>1. IInv => BusOutlivesUse
  BY DEF IInv, SlotsApart, BusOutlivesUse
<1> QED BY <1>1, Inductive, PTL

\* stopPolling and startPollingLocked leave no polling thread behind, overwrite
\* none, and every connected slot is polled.
THEOREM ThreadsAreOwned == Spec => []PollerIsOwned
<1>1. IInv => PollerIsOwned
  <2> SUFFICES ASSUME IInv, "slot" \notin overlaps PROVE PollerIsOwned
    BY DEF PollerIsOwned
  <2>1. \A n \in Connections : poller[n].step \in {"check", "device", "io", "exit"} =>
          \/ channel[poller[n].slot].poll_thread = n
          \/ \E c \in Callers : caller[c].step = "join" /\ caller[c].join = n
    BY DEF IInv, SlotsApart, Owned, Alive, Polls
  <2>2. \A s \in Slots : channel[s].connected /\ ~Busy(s) =>
          /\ poller[channel[s].poll_thread].step \in {"check", "device", "io"}
          /\ channel[s].poll_running /\ ~channel[s].stop_requested
    BY DEF IInv, SlotsApart, Busy, Untouched, Commands, Polled, Polls
  <2>3. ~aborted
    BY DEF IInv, SlotsApart
  <2> QED BY <2>1, <2>2, <2>3 DEF PollerIsOwned
<1> QED BY <1>1, Inductive, PTL

\* isPortUsedByOtherSlot at the start of connectPort suffices as long as no two
\* connects to one port overlap.
THEOREM PortsAreApart == Spec => []OneSlotPerPort
<1>1. IInv => OneSlotPerPort
  BY DEF IInv, PortsApart, OneSlotPerPort, PortUsedByOtherSlot
<1> QED BY <1>1, Inductive, PTL

\* The devices of a connected slot are those of device_config.json, although a
\* write may fail at any command.
THEOREM FileHasDevices == Spec => []DevicesAreSaved
<1>1. IInv => DevicesAreSaved
  BY DEF IInv
<1> QED BY <1>1, Inductive, PTL
=============================================================================
