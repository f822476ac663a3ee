-------------------------- MODULE GatewayUiProofs --------------------------
(***************************************************************************)
(* Proofs about GatewayUi, for any boards, channels and bounds: the types, *)
(* and that what the screen shows as under way has a timer that ends it.   *)
(*                                                                         *)
(* Numbers are what the argument rests on.  An acknowledgement is matched  *)
(* by its number to the command that waits for it, and by its name to what *)
(* is done about it.  The invariant gives every number one command: a      *)
(* pending command is then done with only by an answer that also ends what *)
(* was shown for it.                                                       *)
(***************************************************************************)
EXTENDS GatewayUi, TLAPS

\* The sequence numbers given out before n.
Below(n) == 0 .. (n - 1)

-----------------------------------------------------------------------------
(* The methods of Widget keep the screen's types.                          *)

\* Small facts about what the screen starts from.
LEMMA Constants == AllOff \in States /\ NoSeq \in Nat /\ Unknown \in Shown
BY DEF AllOff, States, NoSeq, Shown

\* Commands stay commands when more numbers are given out.
LEMMA CommandsGrow ==
  ASSUME NEW S, NEW T, S \subseteq T
  PROVE  Commands(S) \subseteq Commands(T) /\ Seq(Commands(S)) \subseteq Seq(Commands(T))
  <1>1. Commands(S) \subseteq Commands(T) BY DEF Commands
  <1> QED BY <1>1

\* Frames stay frames when more numbers are given out.
LEMMA FramesGrow ==
  ASSUME NEW S, NEW T, S \subseteq T
  PROVE  Frames(S) \subseteq Frames(T) /\ Seq(Frames(S)) \subseteq Seq(Frames(T))
  <1>1. Acks(S) \subseteq Acks(T) BY DEF Acks
  <1>2. Frames(S) \subseteq Frames(T) BY <1>1 DEF Frames
  <1> QED BY <1>2

\* Numbers given out before are given out.
LEMMA BelowGrows ==
  ASSUME NEW n \in Nat, NEW m \in Nat, n <= m
  PROVE  Below(n) \subseteq Below(m)
BY DEF Below

\* What is known of the fields.
LEMMA Parts ==
  ASSUME NEW u \in Screen
  PROVE  /\ u.seq \in Nat /\ u.seq # 0 /\ u.pending \in SUBSET Pending
         /\ u.list \in [Slaves -> Listing] /\ u.known \in [Slaves -> Shown]
         /\ u.out \in Seq(Commands(Nat))
BY DEF Screen

\* sendCommand takes the next number.
LEMMA SendTyped ==
  ASSUME NEW u \in Screen, NEW cmd \in Cmds, NEW s \in Slaves \cup {NoSlave},
         cmd \in Named => s \in Slaves
  PROVE  LET v == SendCommand(u, cmd, s)
             c == Command(cmd, u.seq, s, AllOff)
         IN  /\ v \in Screen /\ v.seq = u.seq + 1 /\ v.out = Append(u.out, c)
             /\ v.loading = u.loading /\ v.adding = u.adding /\ v.add = u.add
             /\ v.master = u.master
             /\ v.pending = IF cmd = "get_runtime_state" THEN u.pending
                            ELSE u.pending \cup {[seq |-> u.seq, cmd |-> cmd]}
  <1> DEFINE c == Command(cmd, u.seq, s, AllOff)
             out == Append(u.out, c)
             pending == IF cmd = "get_runtime_state" THEN u.pending
                        ELSE u.pending \cup {[seq |-> u.seq, cmd |-> cmd]}
             v == SendCommand(u, cmd, s)
  <1>1. /\ u.seq \in Nat /\ u.seq + 1 \in Nat \ {0} /\ u.pending \in SUBSET Pending
        /\ u.out \in Seq(Commands(Nat))
    BY Parts
  <1>2. c \in Commands(Nat) BY <1>1, Constants DEF Commands, Command
  <1>3. v = [u EXCEPT !.seq = u.seq + 1, !.out = out, !.pending = pending]
    BY DEF SendCommand, Screen
  <1> HIDE DEF c
  <1>4. out \in Seq(Commands(Nat)) BY <1>1, <1>2
  <1>5. pending \in SUBSET Pending
    <2>1. [seq |-> u.seq, cmd |-> cmd] \in Pending BY <1>1 DEF Pending
    <2> QED BY <1>1, <2>1
  <1> HIDE DEF out, pending, v
  <1>6. /\ v \in Screen /\ v.seq = u.seq + 1 /\ v.out = out /\ v.pending = pending
        /\ v.loading = u.loading /\ v.adding = u.adding /\ v.add = u.add
        /\ v.master = u.master
    BY <1>1, <1>3, <1>4, <1>5 DEF Screen
  <1> QED BY <1>6 DEF c, out, pending, v

\* A pending command is done with.
LEMMA CompleteTyped ==
  ASSUME NEW u \in Screen, NEW seq
  PROVE  LET v == CompletePendingCommand(u, seq)
         IN  /\ v \in Screen /\ v.seq = u.seq /\ v.out = u.out /\ v.add = u.add
             /\ v.adding = u.adding /\ v.loading = u.loading /\ v.master = u.master
             /\ v.pending = u.pending \ Numbered(u, seq)
  <1> DEFINE rest == u.pending \ Numbered(u, seq)
  <1>1. rest \in SUBSET Pending BY Parts
  <1>2. CompletePendingCommand(u, seq) = [u EXCEPT !.pending = rest] BY DEF CompletePendingCommand
  <1> HIDE DEF rest
  <1>3. LET v == [u EXCEPT !.pending = rest]
        IN  /\ v \in Screen /\ v.seq = u.seq /\ v.out = u.out /\ v.add = u.add
            /\ v.adding = u.adding /\ v.loading = u.loading /\ v.master = u.master
            /\ v.pending = rest
    BY <1>1 DEF Screen
  <1> QED BY <1>2, <1>3 DEF rest

\* What a method that sends nothing may change of what is under way: the overlay
\* is left alone or taken off, and the dialog too unless the port went offline.
Eased(u, v) ==
  /\ v \in Screen /\ v.seq = u.seq /\ v.pending = u.pending /\ v.out = u.out
  /\ v.add = NoSeq \/ (v.add = u.add /\ v.adding = u.adding)
  /\ v.loading \in {u.loading, FALSE}

\* The port's status is as it was, and the dialog is as it was or was told.
Steady(u, v) ==
  /\ v.master = u.master
  /\ (v.add = u.add /\ v.adding = u.adding) \/ ~v.adding

\* Easing twice is easing.
LEMMA Twice ==
  ASSUME NEW u, NEW v, NEW x
  PROVE  /\ Eased(u, v) /\ Eased(v, x) => Eased(u, x)
         /\ Steady(u, v) /\ Steady(v, x) => Steady(u, x)
BY DEF Eased, Steady

\* A dialog or the overlay shows a result; the port's status is another.
LEMMA ResultEases ==
  ASSUME NEW u \in Screen
  PROVE  /\ Eased(u, u) /\ Steady(u, u)
         /\ Eased(u, AddResult(u)) /\ Steady(u, AddResult(u))
         /\ AddResult(u).add = NoSeq
         /\ LET v == [u EXCEPT !.loading = FALSE]
            IN  Eased(u, v) /\ Steady(u, v) /\ ~v.loading /\ v.add = u.add
         /\ \A b \in BOOLEAN : LET v == [u EXCEPT !.master = b]
                               IN  Eased(u, v) /\ v.master = b
  <1>1. Eased(u, u) /\ Steady(u, u) BY DEF Eased, Steady
  <1>2. /\ Eased(u, AddResult(u)) /\ Steady(u, AddResult(u))
        /\ AddResult(u).add = NoSeq
    BY Constants DEF AddResult, Eased, Steady, Screen
  <1>3. LET v == [u EXCEPT !.loading = FALSE]
        IN  Eased(u, v) /\ Steady(u, v) /\ ~v.loading /\ v.add = u.add
    BY DEF Eased, Steady, Screen
  <1>4. ASSUME NEW b \in BOOLEAN
        PROVE  LET v == [u EXCEPT !.master = b] IN Eased(u, v) /\ v.master = b
    BY DEF Eased, Screen
  <1> QED BY <1>1, <1>2, <1>3, <1>4

\* A method that changes what is shown of the devices only.
LEMMA PictureEases ==
  ASSUME NEW u \in Screen, NEW list \in [Slaves -> Listing], NEW known \in [Slaves -> Shown],
         NEW v \in {[u EXCEPT !.list = list], [u EXCEPT !.known = known],
                    [u EXCEPT !.list = list, !.known = known]}
  PROVE  Eased(u, v) /\ Steady(u, v) /\ v.add = u.add
BY DEF Eased, Steady, Screen

\* What telemetry and registrations change.
LEMMA DeviceEases ==
  ASSUME NEW u \in Screen, NEW s \in Slaves \cup {NoSlave}
  PROVE  /\ Eased(u, UpsertRegisteredSlave(u, s)) /\ Steady(u, UpsertRegisteredSlave(u, s))
         /\ Eased(u, RemoveRegisteredSlave(u, s)) /\ Steady(u, RemoveRegisteredSlave(u, s))
         /\ RemoveRegisteredSlave(u, s).add = u.add
         /\ \A online \in BOOLEAN :
               Eased(u, UpdateSlaveOnline(u, s, online)) /\ Steady(u, UpdateSlaveOnline(u, s, online))
         /\ \A states \in States : /\ Eased(u, RelayTelemetryConfirm(u, s, states))
                                   /\ Steady(u, RelayTelemetryConfirm(u, s, states))
  <1>1. u.known \in [Slaves -> Shown] /\ u.list \in [Slaves -> Listing] BY Parts
  <1>2. Eased(u, UpsertRegisteredSlave(u, s)) /\ Steady(u, UpsertRegisteredSlave(u, s))
    <2> DEFINE list == [u.list EXCEPT ![s] = IF @ = NoSlave THEN "offline" ELSE @]
    <2>1. list \in [Slaves -> Listing] BY <1>1 DEF Listing
    <2>2. UpsertRegisteredSlave(u, s) = [u EXCEPT !.list = list]
      BY DEF UpsertRegisteredSlave, Screen
    <2> HIDE DEF list
    <2> QED BY <1>1, <2>1, <2>2, PictureEases
  <1>3. /\ Eased(u, RemoveRegisteredSlave(u, s)) /\ Steady(u, RemoveRegisteredSlave(u, s))
        /\ RemoveRegisteredSlave(u, s).add = u.add
    <2> DEFINE list == [u.list EXCEPT ![s] = NoSlave]
               known == [u.known EXCEPT ![s] = Unknown]
    <2>1. list \in [Slaves -> Listing] /\ known \in [Slaves -> Shown]
      BY <1>1, Constants DEF Listing
    <2>2. RemoveRegisteredSlave(u, s) = [u EXCEPT !.list = list, !.known = known]
      BY DEF RemoveRegisteredSlave, Screen
    <2> HIDE DEF list, known
    <2> QED BY <2>1, <2>2 DEF Eased, Steady, Screen
  <1>4. ASSUME NEW online \in BOOLEAN
        PROVE  Eased(u, UpdateSlaveOnline(u, s, online)) /\ Steady(u, UpdateSlaveOnline(u, s, online))
    <2> DEFINE list == [u.list EXCEPT ![s] = IF @ = NoSlave THEN @
                                             ELSE IF online THEN "online" ELSE "offline"]
    <2>1. list \in [Slaves -> Listing] BY <1>1 DEF Listing
    <2>2. UpdateSlaveOnline(u, s, online) = [u EXCEPT !.list = list]
      BY DEF UpdateSlaveOnline, Screen
    <2> HIDE DEF list
    <2> QED BY <1>1, <2>1, <2>2, PictureEases
  <1>5. ASSUME NEW states \in States
        PROVE  /\ Eased(u, RelayTelemetryConfirm(u, s, states))
               /\ Steady(u, RelayTelemetryConfirm(u, s, states))
    <2> DEFINE known == [u.known EXCEPT ![s] = states]
    <2>1. known \in [Slaves -> Shown] BY <1>1 DEF Shown
    <2>2. RelayTelemetryConfirm(u, s, states) = [u EXCEPT !.known = known]
      BY DEF RelayTelemetryConfirm, Screen
    <2> HIDE DEF known
    <2> QED BY <1>1, <2>1, <2>2, PictureEases
  <1> QED BY <1>2, <1>3, <1>4, <1>5

\* handleRuntimeStateSnapshot and markMasterRuntimeOffline
LEMMA RuntimeEases ==
  ASSUME NEW u \in Screen
  PROVE  /\ \A m \in Runtimes :
               /\ Eased(u, RuntimeStateSnapshot(u, m))
               /\ RuntimeStateSnapshot(u, m).add = u.add
               /\ RuntimeStateSnapshot(u, m).adding = u.adding
         /\ LET v == MarkMasterRuntimeOffline(u)
            IN  Eased(u, v) /\ v.master = u.master /\ v.add = NoSeq
  <1>1. u.known \in [Slaves -> Shown] /\ u.list \in [Slaves -> Listing] BY Parts
  <1>2. ASSUME NEW m \in Runtimes
        PROVE  LET v == RuntimeStateSnapshot(u, m)
               IN  Eased(u, v) /\ v.add = u.add /\ v.adding = u.adding
    <2>1. m.connected \in BOOLEAN BY DEF Runtimes
    <2> DEFINE gone == Listed(u) \ m.devices
               list == [s \in Slaves |-> IF s \in gone THEN NoSlave
                                         ELSE IF s \in m.devices /\ u.list[s] = NoSlave THEN "offline"
                                         ELSE u.list[s]]
               known == [s \in Slaves |-> IF s \in gone THEN Unknown ELSE u.known[s]]
    <2>2. list \in [Slaves -> Listing] BY <1>1 DEF Listing
    <2>3. known \in [Slaves -> Shown] BY <1>1, Constants
    <2>4. RuntimeStateSnapshot(u, m) = [u EXCEPT !.master = m.connected, !.list = list,
                                                 !.known = known, !.loading = FALSE]
      BY DEF RuntimeStateSnapshot, PortsUpdated, Screen
    <2> HIDE DEF list, known
    <2> QED BY <2>1, <2>2, <2>3, <2>4 DEF Eased, Screen
  <1>3. LET v == MarkMasterRuntimeOffline(u)
        IN  Eased(u, v) /\ v.master = u.master /\ v.add = NoSeq
    <2> DEFINE list == [s \in Slaves |-> IF u.list[s] = NoSlave THEN NoSlave ELSE "offline"]
               known == [s \in Slaves |-> Unknown]
    <2>1. list \in [Slaves -> Listing] /\ known \in [Slaves -> Shown] BY Constants DEF Listing
    <2>2. MarkMasterRuntimeOffline(u) = [u EXCEPT !.list = list, !.known = known, !.add = NoSeq]
      BY DEF MarkMasterRuntimeOffline, Screen
    <2> HIDE DEF list, known
    <2> QED BY <2>1, <2>2, Constants DEF Eased, Screen
  <1> QED BY <1>2, <1>3

\* DataParser reads the channels that were read from the board (RelayDevice::read).
LEMMA TelemetryParts ==
  ASSUME NEW m \in Telemetry
  PROVE  /\ m.type = "telemetry" /\ m.slave \in Slaves
         /\ m.device.valid \in BOOLEAN /\ (m.device.valid => DataParser(m.device) \in States)
  <1>1. PICK s \in Slaves, states \in States, valid \in BOOLEAN : m = Packed(s, states, valid)
    BY DEF Telemetry
  <1> DEFINE r == [RelayReading(states) EXCEPT !.valid = valid]
  <1>2. r.type = "relay" /\ r.valid = valid /\ r.val = states BY DEF RelayReading
  <1> HIDE DEF r
  <1>3. /\ PackDevice(r).type = "relay" /\ PackDevice(r).valid = valid
        /\ PackDevice(r).fields = states
    BY <1>2 DEF PackDevice
  <1>4. m.type = "telemetry" /\ m.slave = s /\ m.device = PackDevice(r) BY <1>1 DEF Packed, r
  <1> QED BY <1>3, <1>4 DEF DataParser

\* handleDeviceStatus
LEMMA StatusEases ==
  ASSUME NEW u \in Screen, NEW m \in Telemetry
  PROVE  Eased(u, DeviceStatus(u, m)) /\ Steady(u, DeviceStatus(u, m))
  <1>1. /\ m.slave \in Slaves \cup {NoSlave} /\ m.device.valid \in BOOLEAN
        /\ m.device.valid => DataParser(m.device) \in States
    BY TelemetryParts
  <1> DEFINE off == UpdateSlaveOnline(u, m.slave, FALSE)
             v == UpdateSlaveOnline(u, m.slave, TRUE)
             x == RelayTelemetryConfirm(v, m.slave, DataParser(m.device))
  <1>2. Eased(u, off) /\ Steady(u, off) /\ Eased(u, v) /\ Steady(u, v) BY <1>1, DeviceEases
  <1>3. DeviceStatus(u, m) = IF ~u.master THEN u ELSE IF ~m.device.valid THEN off ELSE x
    BY DEF DeviceStatus
  <1> HIDE DEF off, v
  <1>4. v \in Screen BY <1>2 DEF Eased
  <1>5. m.device.valid => Eased(v, x) /\ Steady(v, x) BY <1>1, <1>4, DeviceEases
  <1> HIDE DEF x
  <1>6. m.device.valid => Eased(u, x) /\ Steady(u, x) BY <1>2, <1>5, Twice
  <1>7. Eased(u, u) /\ Steady(u, u) BY ResultEases
  <1> QED BY <1>2, <1>3, <1>6, <1>7

\* The parts of an acknowledgement, and that it is one.
LEMMA AckParts ==
  ASSUME NEW S, NEW m \in Frames(S), m.type = "ack"
  PROVE  /\ m.cmd \in Cmds /\ m.seq \in S /\ m.ok \in BOOLEAN
         /\ m.slave \in Slaves \cup {NoSlave} /\ m.connected \in BOOLEAN
  <1>1. m \notin Registers /\ m \notin Runtimes BY DEF Registers, Runtimes
  <1>2. m \notin Telemetry BY TelemetryParts
  <1>3. m \in Acks(S) BY <1>1, <1>2 DEF Frames
  <1> QED BY <1>3 DEF Acks

-----------------------------------------------------------------------------
(* The timers, while a method runs.                                        *)

\* The commands any answer to which takes the overlay off, or asks for a scan
\* that will: an answer with the offline cache's configuration does not.
Lifting == Cmds \ {"get_offline_cache_config"}

\* What u shows as under way is pending, or in X: what is being done with.
Attended(u, X) ==
  /\ u.loading => \E p \in u.pending \cup X : p.cmd \in Lifting
  /\ u.add # NoSeq => u.adding /\ \E p \in u.pending \cup X : p.seq = u.add

\* The command each number was given out for.
Kinds == [Nat -> Cmds]
Agrees(kind, k, n) == \A i \in Below(n) : kind[i] = k[i]
Of(kind, x) == x.seq # NoSeq => kind[x.seq] = x.cmd
Sent(kind, n) == {c \in Commands(Below(n)) : Of(kind, c)}
Heard(kind, n) == {m \in Frames(Below(n)) : m.type = "ack" => Of(kind, m)}

\* The numbers the screen keeps are of the commands it keeps them for.
Numbers(kind, u) ==
  /\ u \in Screen /\ u.out \in Seq(Sent(kind, u.seq))
  /\ \A p \in u.pending : p.seq \in Below(u.seq) /\ p.seq # NoSeq /\ kind[p.seq] = p.cmd
  /\ u.add # NoSeq => u.add \in Below(u.seq) /\ kind[u.add] = "add_device"

\* What holds while a method runs that began with n as the next number and k as what
\* the numbers were given out for.
Watched(n, k, X, u) ==
  /\ n \in Nat /\ n <= u.seq /\ Attended(u, X)
  /\ \E kind \in Kinds : Agrees(kind, k, n) /\ Numbers(kind, u)

\* Marks stay when more numbers are given out.
LEMMA MarksGrow ==
  ASSUME NEW k \in Kinds, NEW kind \in Kinds, NEW n \in Nat, NEW m \in Nat, n <= m,
         Agrees(kind, k, n)
  PROVE  /\ Sent(k, n) \subseteq Sent(kind, m) /\ Seq(Sent(k, n)) \subseteq Seq(Sent(kind, m))
         /\ Heard(k, n) \subseteq Heard(kind, m) /\ Seq(Heard(k, n)) \subseteq Seq(Heard(kind, m))
  <1>1. Below(n) \subseteq Below(m) BY BelowGrows
  <1>2. Commands(Below(n)) \subseteq Commands(Below(m)) BY <1>1, CommandsGrow
  <1>3. Frames(Below(n)) \subseteq Frames(Below(m)) BY <1>1, FramesGrow
  <1>4. Sent(k, n) \subseteq Sent(kind, m)
    <2> SUFFICES ASSUME NEW c \in Sent(k, n) PROVE c \in Sent(kind, m) OBVIOUS
    <2>1. c \in Commands(Below(n)) /\ Of(k, c) BY DEF Sent
    <2>2. c.seq \in Below(n) BY <2>1 DEF Commands
    <2>3. Of(kind, c) BY <2>1, <2>2 DEF Of, Agrees
    <2> QED BY <1>2, <2>1, <2>3 DEF Sent
  <1>5. Heard(k, n) \subseteq Heard(kind, m)
    <2> SUFFICES ASSUME NEW c \in Heard(k, n) PROVE c \in Heard(kind, m) OBVIOUS
    <2>1. c \in Frames(Below(n)) /\ (c.type = "ack" => Of(k, c)) BY DEF Heard
    <2>2. c.type = "ack" => c.seq \in Below(n) BY <2>1, AckParts
    <2>3. c.type = "ack" => Of(kind, c) BY <2>1, <2>2 DEF Of, Agrees
    <2> QED BY <1>3, <2>1, <2>3 DEF Heard
  <1> QED BY <1>4, <1>5

\* Easing keeps what is watched.
LEMMA EasedWatched ==
  ASSUME NEW n, NEW k, NEW X, NEW u, Watched(n, k, X, u), NEW v, Eased(u, v)
  PROVE  Watched(n, k, X, v)
  <1>1. PICK kind \in Kinds : Agrees(kind, k, n) /\ Numbers(kind, u) BY DEF Watched
  <1>2. Numbers(kind, v) BY <1>1 DEF Numbers, Eased
  <1>3. Attended(v, X) BY DEF Attended, Watched, Eased
  <1> QED BY <1>1, <1>2, <1>3 DEF Watched, Eased

\* What is watched has its types.
LEMMA WatchedTyped ==
  ASSUME NEW n, NEW k, NEW X, NEW u, Watched(n, k, X, u)
  PROVE  u \in Screen
BY DEF Watched, Numbers

\* sendCommand starts a timer.
LEMMA SendWatched ==
  ASSUME NEW n, NEW k, NEW X, NEW u, Watched(n, k, X, u),
         NEW cmd \in Cmds, NEW s \in Slaves \cup {NoSlave}, cmd \in Named => s \in Slaves
  PROVE  LET v == SendCommand(u, cmd, s)
         IN  /\ Watched(n, k, X, v) /\ Steady(u, v)
             /\ \E kind \in Kinds :
                   Agrees(kind, k, n) /\ Numbers(kind, v) /\ kind[u.seq] = cmd
  <1>1. PICK old \in Kinds : Agrees(old, k, n) /\ Numbers(old, u) BY DEF Watched
  <1>2. u \in Screen BY WatchedTyped
  <1>3. u.seq \in Nat /\ u.seq # 0 /\ n \in Nat /\ n <= u.seq BY <1>2, Parts DEF Watched
  <1> DEFINE c == Command(cmd, u.seq, s, AllOff)
             p == [seq |-> u.seq, cmd |-> cmd]
             v == SendCommand(u, cmd, s)
             kind == [old EXCEPT ![u.seq] = cmd]
  <1>4. /\ v \in Screen /\ v.seq = u.seq + 1 /\ v.out = Append(u.out, c)
        /\ v.loading = u.loading /\ v.adding = u.adding /\ v.add = u.add
        /\ v.master = u.master
        /\ v.pending = IF cmd = "get_runtime_state" THEN u.pending ELSE u.pending \cup {p}
    BY <1>2, SendTyped
  <1> HIDE DEF v
  <1>5. kind \in Kinds /\ kind[u.seq] = cmd /\ \A i \in Below(u.seq) : kind[i] = old[i]
    BY <1>3 DEF Kinds, Below
  <1>6. Agrees(kind, old, u.seq) BY <1>5 DEF Agrees
  <1>7. Agrees(kind, k, n)
    <2>1. Below(n) \subseteq Below(u.seq) BY <1>3, BelowGrows
    <2> QED BY <1>1, <1>5, <2>1 DEF Agrees
  <1>8. /\ Below(u.seq) \subseteq Below(v.seq) /\ u.seq \in Below(v.seq) /\ v.seq \in Nat
        /\ u.seq <= v.seq
    BY <1>3, <1>4 DEF Below
  <1> HIDE DEF kind
  <1>9. v.out \in Seq(Sent(kind, v.seq))
    <2>1. c \in Commands(Below(v.seq)) /\ c.seq = u.seq /\ c.cmd = cmd
      BY <1>8, Constants DEF Commands, Command
    <2>2. c \in Sent(kind, v.seq) BY <1>5, <2>1 DEF Sent, Of
    <2> HIDE DEF c
    <2>3. Seq(Sent(old, u.seq)) \subseteq Seq(Sent(kind, v.seq)) BY <1>3, <1>5, <1>6, <1>8, MarksGrow
    <2>4. u.out \in Seq(Sent(kind, v.seq)) BY <1>1, <2>3 DEF Numbers
    <2> QED BY <1>4, <2>2, <2>4
  <1>10. Numbers(kind, v)
    <2>1. ASSUME NEW q \in v.pending
          PROVE  q.seq \in Below(v.seq) /\ q.seq # NoSeq /\ kind[q.seq] = q.cmd
      <3>1. CASE q \in u.pending BY <1>1, <1>5, <1>8, <3>1 DEF Numbers
      <3>2. CASE q = p BY <1>3, <1>5, <1>8, <3>2 DEF NoSeq
      <3> QED BY <1>4, <2>1, <3>1, <3>2
    <2>2. v.add # NoSeq => v.add \in Below(v.seq) /\ kind[v.add] = "add_device"
      BY <1>1, <1>4, <1>5, <1>8 DEF Numbers
    <2> QED BY <1>4, <1>9, <2>1, <2>2 DEF Numbers
  <1>11. Attended(v, X)
    <2>1. u.pending \subseteq v.pending BY <1>4
    <2> QED BY <1>4, <2>1 DEF Attended, Watched
  <1>12. n <= v.seq BY <1>3, <1>4
  <1>13. Watched(n, k, X, v) BY <1>3, <1>5, <1>7, <1>10, <1>11, <1>12 DEF Watched
  <1>14. Steady(u, v) BY <1>4 DEF Steady
  <1> QED BY <1>5, <1>7, <1>10, <1>13, <1>14 DEF v

\* The commands that name no device.
LEMMA RequestWatched ==
  ASSUME NEW n, NEW k, NEW X, NEW u, Watched(n, k, X, u)
  PROVE  /\ \A cmd \in Plain : Watched(n, k, X, Request(u, cmd)) /\ Steady(u, Request(u, cmd))
         /\ Watched(n, k, X, RequestOfflineCacheConfig(u))
         /\ Steady(u, RequestOfflineCacheConfig(u))
         /\ LET v == RequestRuntimeRefresh(u)
            IN  /\ Watched(n, k, X, v) /\ Steady(u, v) /\ v.add = u.add
                /\ \E p \in v.pending : p.cmd = "scan_ports"
  <1>1. ASSUME NEW v, Watched(n, k, X, v), NEW cmd \in Plain
        PROVE  LET x == Request(v, cmd)
               IN  /\ Watched(n, k, X, x) /\ Steady(v, x) /\ x.add = v.add
                   /\ cmd # "get_runtime_state" => [seq |-> v.seq, cmd |-> cmd] \in x.pending
    <2>1. v \in Screen BY <1>1, WatchedTyped
    <2>2. cmd \in Cmds /\ NoSlave \in Slaves \cup {NoSlave} BY DEF Cmds
    <2>3. cmd \in Named => NoSlave \in Slaves BY DEF Named, Plain
    <2> DEFINE x == SendCommand(v, cmd, NoSlave)
    <2>4. Watched(n, k, X, x) /\ Steady(v, x) BY <1>1, <2>2, <2>3, SendWatched
    <2>5. /\ x.add = v.add
          /\ x.pending = IF cmd = "get_runtime_state" THEN v.pending
                         ELSE v.pending \cup {[seq |-> v.seq, cmd |-> cmd]}
      BY <2>1, <2>2, <2>3, SendTyped
    <2> QED BY <2>4, <2>5 DEF Request
  <1>2. /\ "get_runtime_state" \in Plain /\ "scan_ports" \in Plain
        /\ "get_offline_cache_config" \in Plain
    BY DEF Plain
  <1> DEFINE x == Request(u, "get_runtime_state")
             y == Request(x, "scan_ports")
  <1>3. Watched(n, k, X, x) /\ Steady(u, x) /\ x.add = u.add BY <1>1, <1>2
  <1>4. y = RequestRuntimeRefresh(u) BY DEF RequestRuntimeRefresh
  <1> HIDE DEF x
  <1>5. /\ Watched(n, k, X, y) /\ Steady(x, y) /\ y.add = x.add
        /\ [seq |-> x.seq, cmd |-> "scan_ports"] \in y.pending
    BY <1>1, <1>2, <1>3
  <1> HIDE DEF y
  <1>6. Steady(u, y) /\ y.add = u.add BY <1>3, <1>5, Twice
  <1>7. \E p \in y.pending : p.cmd = "scan_ports" BY <1>5
  <1>8. /\ \A cmd \in Plain : Watched(n, k, X, Request(u, cmd)) /\ Steady(u, Request(u, cmd))
        /\ Watched(n, k, X, RequestOfflineCacheConfig(u))
        /\ Steady(u, RequestOfflineCacheConfig(u))
    BY <1>1, <1>2 DEF RequestOfflineCacheConfig
  <1> QED BY <1>4, <1>5, <1>6, <1>7, <1>8

\* What an acknowledgement's number was given out for.
LEMMA Labels ==
  ASSUME NEW n, NEW k, NEW X, NEW u, Watched(n, k, X, u), NEW m, m.seq \in Below(n), Of(k, m)
  PROVE  /\ \A p \in u.pending : p.seq = m.seq => p.cmd = m.cmd /\ p.seq # NoSeq
         /\ u.add # NoSeq /\ u.add = m.seq => m.cmd = "add_device"
  <1>1. PICK kind \in Kinds : Agrees(kind, k, n) /\ Numbers(kind, u) BY DEF Watched
  <1>2. m.seq # NoSeq => kind[m.seq] = m.cmd BY <1>1 DEF Agrees, Of
  <1> QED BY <1>1, <1>2 DEF Numbers

\* A pending command is done with.
LEMMA CompleteWatched ==
  ASSUME NEW n, NEW k, NEW u, Watched(n, k, {}, u), NEW seq
  PROVE  LET v == CompletePendingCommand(u, seq)
         IN  Watched(n, k, Numbered(u, seq), v) /\ Steady(u, v) /\ v.add = u.add
  <1> DEFINE v == CompletePendingCommand(u, seq)
             X == Numbered(u, seq)
  <1>1. PICK kind \in Kinds : Agrees(kind, k, n) /\ Numbers(kind, u) BY DEF Watched
  <1>2. u \in Screen BY WatchedTyped
  <1>3. /\ v \in Screen /\ v.seq = u.seq /\ v.out = u.out /\ v.add = u.add
        /\ v.adding = u.adding /\ v.loading = u.loading /\ v.master = u.master
        /\ v.pending = u.pending \ X
    BY <1>2, CompleteTyped
  <1>4. X \subseteq u.pending BY DEF Numbered
  <1> HIDE DEF v, X
  <1>5. Numbers(kind, v) BY <1>1, <1>3 DEF Numbers
  <1>6. u.pending \cup {} = v.pending \cup X BY <1>3, <1>4
  <1>7. Attended(v, X) BY <1>3, <1>6 DEF Attended, Watched
  <1>8. Steady(u, v) BY <1>3 DEF Steady
  <1> QED BY <1>1, <1>3, <1>5, <1>7, <1>8 DEF Watched, v, X

\* What was done with is no longer shown as under way.
LEMMA Dropped ==
  ASSUME NEW n, NEW k, NEW X, NEW u, Watched(n, k, X, u), NEW m,
         \A p \in X : p.seq = m.seq /\ p.cmd = m.cmd /\ p.seq # NoSeq,
         u.add # NoSeq => u.add # m.seq,
         u.loading => m.cmd \notin Lifting \/ \E p \in u.pending : p.cmd \in Lifting
  PROVE  Watched(n, k, {}, u)
  <1>1. u.add # NoSeq => u.adding /\ \E p \in u.pending : p.seq = u.add
    BY DEF Watched, Attended
  <1>2. u.loading => \E p \in u.pending : p.cmd \in Lifting BY DEF Watched, Attended
  <1>3. Attended(u, {}) BY <1>1, <1>2 DEF Attended
  <1> QED BY <1>3 DEF Watched

\* handlePortStatusUpdated: the dialog is as it was, or the port is offline.
LEMMA PortWatched ==
  ASSUME NEW n, NEW k, NEW u, Watched(n, k, {}, u), NEW b \in BOOLEAN
  PROVE  LET v == PortStatusUpdated(u, b)
         IN  Watched(n, k, {}, v) /\ v.master = b
             /\ (b => (v.add = u.add /\ v.adding = u.adding) \/ ~v.adding)
  <1> DEFINE x == [u EXCEPT !.master = b]
             y == IF b THEN Request(x, "get_runtime_state") ELSE MarkMasterRuntimeOffline(x)
  <1>1. Eased(u, x) /\ x.master = b /\ x.add = u.add /\ x.adding = u.adding
    <2>1. u \in Screen BY WatchedTyped
    <2> QED BY <2>1, ResultEases DEF Screen
  <1>2. PortStatusUpdated(u, b) = y BY DEF PortStatusUpdated
  <1> HIDE DEF x
  <1>3. Watched(n, k, {}, x) BY <1>1, EasedWatched
  <1>4. CASE b
    <2>1. "get_runtime_state" \in Plain BY DEF Plain
    <2>2. Watched(n, k, {}, y) /\ Steady(x, y) BY <1>3, <1>4, <2>1, RequestWatched
    <2> HIDE DEF y
    <2> QED BY <1>1, <1>2, <2>2 DEF Steady
  <1>5. CASE ~b
    <2>1. x \in Screen BY <1>1 DEF Eased
    <2>2. Eased(x, y) /\ y.master = x.master BY <1>5, <2>1, RuntimeEases
    <2> HIDE DEF y
    <2>3. Watched(n, k, {}, y) BY <1>3, <2>2, EasedWatched
    <2> QED BY <1>1, <1>2, <1>5, <2>2, <2>3
  <1> QED BY <1>4, <1>5

\* A refresh after what was done with.
LEMMA RefreshDrops ==
  ASSUME NEW n, NEW k, NEW X, NEW u, Watched(n, k, X, u), NEW m,
         \A p \in X : p.seq = m.seq /\ p.cmd = m.cmd /\ p.seq # NoSeq,
         u.add # NoSeq => u.add # m.seq
  PROVE  Watched(n, k, {}, RequestRuntimeRefresh(u)) /\ Steady(u, RequestRuntimeRefresh(u))
  <1> DEFINE v == RequestRuntimeRefresh(u)
  <1>1. /\ Watched(n, k, X, v) /\ Steady(u, v) /\ v.add = u.add
        /\ \E p \in v.pending : p.cmd = "scan_ports"
    BY RequestWatched
  <1>2. "scan_ports" \in Lifting BY DEF Lifting, Cmds, Plain
  <1> HIDE DEF v
  <1>3. Watched(n, k, {}, v) BY <1>1, <1>2, Dropped
  <1> QED BY <1>1, <1>3 DEF v

\* The overlay is taken off after what was done with.
LEMMA LiftDrops ==
  ASSUME NEW n, NEW k, NEW X, NEW u, Watched(n, k, X, u), NEW m,
         \A p \in X : p.seq = m.seq /\ p.cmd = m.cmd /\ p.seq # NoSeq,
         u.add # NoSeq => u.add # m.seq
  PROVE  LET v == [u EXCEPT !.loading = FALSE]
         IN  Watched(n, k, {}, v) /\ Steady(u, v) /\ v.add = u.add
  <1> DEFINE v == [u EXCEPT !.loading = FALSE]
  <1>1. u \in Screen BY WatchedTyped
  <1>2. Eased(u, v) /\ Steady(u, v) /\ ~v.loading /\ v.add = u.add BY <1>1, ResultEases
  <1> HIDE DEF v
  <1>3. Watched(n, k, X, v) BY <1>2, EasedWatched
  <1>4. Watched(n, k, {}, v) BY <1>2, <1>3, Dropped
  <1> QED BY <1>2, <1>4 DEF v

\* handleCommandAck for a failure: the overlay goes, and a dialog that waits for this
\* command is told.
LEMMA FailedWatched ==
  ASSUME NEW n, NEW k, NEW X, NEW u, Watched(n, k, X, u), NEW m, m.seq \in Below(n), Of(k, m),
         \A p \in X : p.seq = m.seq /\ p.cmd = m.cmd /\ p.seq # NoSeq
  PROVE  Watched(n, k, {}, CommandFailed(u, m)) /\ Steady(u, CommandFailed(u, m))
  <1> DEFINE x == IF OwnAddAck(u, m) THEN AddResult(u) ELSE u
             v == [x EXCEPT !.loading = FALSE]
  <1>1. u \in Screen BY WatchedTyped
  <1>2. u.add # NoSeq /\ u.add = m.seq => m.cmd = "add_device" BY Labels
  <1>3. Eased(u, x) /\ Steady(u, x) BY <1>1, ResultEases
  <1>4. x.add # NoSeq => x.add # m.seq
    <2>1. CASE OwnAddAck(u, m) BY <1>1, <2>1, ResultEases
    <2>2. CASE ~OwnAddAck(u, m) BY <1>2, <2>2 DEF OwnAddAck
    <2> QED BY <2>1, <2>2
  <1>5. v = CommandFailed(u, m) BY DEF CommandFailed
  <1> HIDE DEF x
  <1>6. Watched(n, k, X, x) BY <1>3, EasedWatched
  <1>7. Watched(n, k, {}, v) /\ Steady(x, v) BY <1>4, <1>6, LiftDrops
  <1> HIDE DEF v
  <1>8. Steady(u, v) BY <1>3, <1>7, Twice
  <1> QED BY <1>5, <1>7, <1>8

\* handleCommandAck for a success.  A scan's overlay is taken off by portsUpdated.
LEMMA SucceededWatched ==
  ASSUME NEW n, NEW k, NEW X, NEW u, Watched(n, k, X, u), NEW m, m.seq \in Below(n), Of(k, m),
         m.slave \in Slaves \cup {NoSlave},
         \A p \in X : p.seq = m.seq /\ p.cmd = m.cmd /\ p.seq # NoSeq,
         NEW b \in BOOLEAN, ~b => X = {}
  PROVE  LET v == IF m.cmd = "scan_ports" THEN PortsUpdated(CommandSucceeded(u, m, b))
                  ELSE CommandSucceeded(u, m, b)
         IN  Watched(n, k, {}, v) /\ Steady(u, v)
  <1> DEFINE result == CommandSucceeded(u, m, b)
             off == [u EXCEPT !.loading = FALSE]
  <1>1. u \in Screen BY WatchedTyped
  <1>2. u.add # NoSeq /\ u.add = m.seq => m.cmd = "add_device" BY Labels
  <1>3. CASE OwnAddAck(u, m)
    <2> DEFINE x == AddResult(u)
    <2>1. m.cmd = "add_device" BY <1>3 DEF OwnAddAck
    <2>2. result = RequestRuntimeRefresh(x) BY <1>3, <2>1 DEF CommandSucceeded
    <2>3. Eased(u, x) /\ Steady(u, x) /\ x.add = NoSeq BY <1>1, ResultEases
    <2> HIDE DEF x
    <2>4. Watched(n, k, X, x) BY <2>3, EasedWatched
    <2>5. Watched(n, k, {}, RequestRuntimeRefresh(x)) /\ Steady(x, RequestRuntimeRefresh(x))
      BY <2>3, <2>4, RefreshDrops
    <2>6. Steady(u, RequestRuntimeRefresh(x)) BY <2>3, <2>5, Twice
    <2> QED BY <2>1, <2>2, <2>5, <2>6
  <1>4. CASE m.cmd = "remove_device"
    <2> DEFINE x == RemoveRegisteredSlave(u, m.slave)
               y == [x EXCEPT !.loading = FALSE]
    <2>1. result = RequestRuntimeRefresh(y) BY <1>4 DEF CommandSucceeded, OwnAddAck
    <2>2. Eased(u, x) /\ Steady(u, x) /\ x.add = u.add BY <1>1, DeviceEases
    <2> HIDE DEF x
    <2>3. Watched(n, k, X, x) BY <2>2, EasedWatched
    <2>4. x.add # NoSeq => x.add # m.seq BY <1>2, <1>4, <2>2
    <2>5. Watched(n, k, {}, y) /\ Steady(x, y) BY <2>3, <2>4, LiftDrops
    <2> HIDE DEF y
    <2>6. Watched(n, k, {}, RequestRuntimeRefresh(y)) /\ Steady(y, RequestRuntimeRefresh(y))
      BY <2>5, RequestWatched
    <2>7. Steady(u, RequestRuntimeRefresh(y)) BY <2>2, <2>5, <2>6, Twice
    <2> QED BY <1>4, <2>1, <2>6, <2>7
  <1>5. CASE ~OwnAddAck(u, m) /\ m.cmd # "remove_device"
    <2>1. u.add # NoSeq => u.add # m.seq BY <1>2, <1>5 DEF OwnAddAck
    <2>2. Watched(n, k, {}, off) /\ Steady(u, off) BY <2>1, LiftDrops
    <2> DEFINE v == IF m.cmd = "scan_ports" THEN u ELSE off
    <2>3. result = IF ~b THEN u
                   ELSE IF m.cmd \in {"connect_port", "disconnect_port", "add_device"}
                   THEN RequestRuntimeRefresh(v) ELSE v
      BY <1>5 DEF CommandSucceeded
    <2>4. CASE m.cmd = "scan_ports"
      <3>1. result = u BY <2>3, <2>4
      <3> QED BY <2>2, <2>4, <3>1 DEF PortsUpdated
    <2>5. CASE m.cmd # "scan_ports" /\ ~b
      <3>1. result = u /\ Steady(u, u) BY <1>1, <2>3, <2>5, ResultEases
      <3> QED BY <2>5, <3>1
    <2>6. CASE m.cmd # "scan_ports" /\ b
      <3>1. result \in {off, RequestRuntimeRefresh(off)} BY <2>3, <2>6
      <3> HIDE DEF off
      <3>2. /\ Watched(n, k, {}, RequestRuntimeRefresh(off))
            /\ Steady(off, RequestRuntimeRefresh(off))
        BY <2>2, RequestWatched
      <3>3. Steady(u, RequestRuntimeRefresh(off)) BY <2>2, <3>2, Twice
      <3> HIDE DEF result
      <3> QED BY <2>2, <2>6, <3>1, <3>2, <3>3 DEF result
    <2> QED BY <2>4, <2>5, <2>6
  <1> QED BY <1>3, <1>4, <1>5

\* handleCommandAck, with the portsUpdated that follows a scan's.
LEMMA AckWatched ==
  ASSUME NEW n, NEW k, NEW u, Watched(n, k, {}, u), NEW m \in Frames(Below(n)), m.type = "ack",
         Of(k, m)
  PROVE  LET v == IF m.cmd = "scan_ports" THEN PortsUpdated(CommandAckReceived(u, m))
                  ELSE CommandAckReceived(u, m)
         IN  Watched(n, k, {}, v) /\ Steady(u, v)
  <1> DEFINE v == CompletePendingCommand(u, m.seq)
             X == Numbered(u, m.seq)
             b == X # {}
             result == CommandAckReceived(u, m)
             final == IF m.cmd = "scan_ports" THEN PortsUpdated(result) ELSE result
  <1>1. /\ m.ok \in BOOLEAN /\ b \in BOOLEAN /\ m.seq \in Below(n)
        /\ m.slave \in Slaves \cup {NoSlave}
    BY AckParts
  <1>2. \A p \in X : p.seq = m.seq /\ p.cmd = m.cmd /\ p.seq # NoSeq
    BY <1>1, Labels DEF Numbered
  <1>3. Watched(n, k, X, v) /\ Steady(u, v) BY CompleteWatched
  <1>4. result =
          IF m.cmd \in {"get_offline_cache_config", "flush_offline_cache"} THEN OfflineCacheAck(v, m)
          ELSE IF m.ok THEN CommandSucceeded(v, m, b) ELSE CommandFailed(v, m)
    BY DEF CommandAckReceived
  <1> HIDE DEF v
  <1>5. v.add # NoSeq /\ v.add = m.seq => m.cmd = "add_device" BY <1>1, <1>3, Labels
  <1>6. ~b => X = {} OBVIOUS
  <1> HIDE DEF X, b, result
  <1>7. CASE m.cmd = "get_offline_cache_config"
    <2>1. result = v BY <1>4, <1>7 DEF OfflineCacheAck
    <2>2. m.cmd \notin Lifting BY <1>7 DEF Lifting
    <2>3. v.add # NoSeq => v.add # m.seq BY <1>5, <1>7
    <2>4. Watched(n, k, {}, v) BY <1>2, <1>3, <2>2, <2>3, Dropped
    <2> QED BY <1>3, <1>7, <2>1, <2>4 DEF result
  <1>8. CASE m.cmd = "flush_offline_cache"
    <2> DEFINE x == [v EXCEPT !.loading = FALSE]
    <2>1. result \in {x, RequestOfflineCacheConfig(x)} BY <1>4, <1>8 DEF OfflineCacheAck
    <2>2. v.add # NoSeq => v.add # m.seq BY <1>5, <1>8
    <2>3. Watched(n, k, {}, x) /\ Steady(v, x) BY <1>2, <1>3, <2>2, LiftDrops
    <2> HIDE DEF x
    <2>4. /\ Watched(n, k, {}, RequestOfflineCacheConfig(x))
          /\ Steady(x, RequestOfflineCacheConfig(x))
      BY <2>3, RequestWatched
    <2>5. Steady(u, x) /\ Steady(u, RequestOfflineCacheConfig(x)) BY <1>3, <2>3, <2>4, Twice
    <2> QED BY <1>8, <2>1, <2>3, <2>4, <2>5 DEF result
  <1>9. CASE m.cmd \notin {"get_offline_cache_config", "flush_offline_cache"} /\ m.ok
    <2> DEFINE x == IF m.cmd = "scan_ports" THEN PortsUpdated(CommandSucceeded(v, m, b))
                    ELSE CommandSucceeded(v, m, b)
    <2>1. result = CommandSucceeded(v, m, b) BY <1>4, <1>9
    <2>2. Watched(n, k, {}, x) /\ Steady(v, x) BY <1>1, <1>2, <1>3, <1>6, SucceededWatched
    <2>3. final = x BY <2>1
    <2> HIDE DEF x, final
    <2>4. Steady(u, x) BY <1>3, <2>2, Twice
    <2> QED BY <2>2, <2>3, <2>4 DEF final, result
  <1>10. CASE m.cmd \notin {"get_offline_cache_config", "flush_offline_cache"} /\ ~m.ok
    <2> DEFINE x == CommandFailed(v, m)
    <2>1. result = x BY <1>4, <1>10
    <2>2. Watched(n, k, {}, x) /\ Steady(v, x) BY <1>1, <1>2, <1>3, FailedWatched
    <2> HIDE DEF x
    <2>3. x \in Screen BY <2>2, WatchedTyped
    <2>4. Eased(x, PortsUpdated(x)) /\ Steady(x, PortsUpdated(x))
      BY <2>3, ResultEases DEF PortsUpdated
    <2>5. Watched(n, k, {}, PortsUpdated(x)) BY <2>2, <2>4, EasedWatched
    <2>6. Steady(u, x) /\ Steady(u, PortsUpdated(x)) BY <1>3, <2>2, <2>4, Twice
    <2> QED BY <2>1, <2>2, <2>5, <2>6 DEF result
  <1> QED BY <1>7, <1>8, <1>9, <1>10

\* The dialog is as it was, or was told, or the port is offline.
Kept(u, v) == (v.add = u.add /\ v.adding = u.adding) \/ ~v.adding \/ ~v.master

\* A frame of whatever kind is handled.
LEMMA FrameWatched ==
  ASSUME NEW n, NEW k, NEW u, Watched(n, k, {}, u), NEW m \in Heard(k, n)
  PROVE  Watched(n, k, {}, OnFrame(u, m)) /\ Kept(u, OnFrame(u, m))
  <1>1. u \in Screen BY WatchedTyped
  <1>2. m \in Frames(Below(n)) /\ (m.type = "ack" => Of(k, m)) BY DEF Heard
  <1>3. CASE m \in Runtimes
    <2>1. m.type = "runtime_state" BY <1>3 DEF Runtimes
    <2>2. OnFrame(u, m) = RuntimeStateSnapshot(u, m) BY <2>1 DEF OnFrame
    <2>3. Eased(u, OnFrame(u, m)) /\ Kept(u, OnFrame(u, m))
      BY <1>1, <1>3, <2>2, RuntimeEases DEF Kept
    <2> QED BY <2>3, EasedWatched
  <1>4. CASE m \in Registers
    <2>1. m.type = "device_register" /\ m.slave \in Slaves \cup {NoSlave} BY <1>4 DEF Registers
    <2>2. OnFrame(u, m) = UpsertRegisteredSlave(u, m.slave) BY <2>1 DEF OnFrame
    <2>3. Eased(u, OnFrame(u, m)) /\ Steady(u, OnFrame(u, m)) BY <1>1, <2>1, <2>2, DeviceEases
    <2> QED BY <2>3, EasedWatched DEF Kept, Steady
  <1>5. CASE m \in Telemetry
    <2>1. m.type = "telemetry" BY <1>5, TelemetryParts
    <2>2. OnFrame(u, m) = DeviceStatus(u, m) BY <2>1 DEF OnFrame
    <2>3. Eased(u, OnFrame(u, m)) /\ Steady(u, OnFrame(u, m)) BY <1>1, <1>5, <2>2, StatusEases
    <2> QED BY <2>3, EasedWatched DEF Kept, Steady
  <1>6. CASE m \in Acks(Below(n))
    <2>1. m.type = "ack" BY <1>6 DEF Acks
    <2>2. m.connected \in BOOLEAN /\ Of(k, m) BY <1>2, <2>1, AckParts
    <2>3. CASE m.cmd \in {"connect_port", "disconnect_port"}
      <3> DEFINE v == PortStatusUpdated(u, m.connected)
                 x == CommandAckReceived(v, m)
      <3>1. OnFrame(u, m) = x BY <2>1, <2>3 DEF OnFrame
      <3>2. Watched(n, k, {}, v) /\ Kept(u, v) BY <2>2, PortWatched DEF Kept
      <3> HIDE DEF v
      <3>3. Watched(n, k, {}, x) /\ Steady(v, x) BY <1>2, <2>1, <2>2, <2>3, <3>2, AckWatched
      <3> HIDE DEF x
      <3>4. Kept(u, x) BY <3>2, <3>3 DEF Kept, Steady
      <3> QED BY <3>1, <3>3, <3>4
    <2>4. CASE m.cmd \notin {"connect_port", "disconnect_port"}
      <3>1. OnFrame(u, m) = IF m.cmd = "scan_ports" THEN PortsUpdated(CommandAckReceived(u, m))
                            ELSE CommandAckReceived(u, m)
        BY <2>1, <2>4 DEF OnFrame
      <3>2. Watched(n, k, {}, OnFrame(u, m)) /\ Steady(u, OnFrame(u, m))
        BY <1>2, <2>1, <2>2, <3>1, AckWatched
      <3> QED BY <3>2 DEF Kept, Steady
    <2> QED BY <2>3, <2>4
  <1> QED BY <1>2, <1>3, <1>4, <1>5, <1>6 DEF Frames

\* The timer of a pending command ends what is shown for it.
LEMMA ExpireWatched ==
  ASSUME NEW n, NEW k, NEW u, Watched(n, k, {}, u), NEW p \in u.pending, p.seq \in Below(n),
         Of(k, p)
  PROVE  Watched(n, k, {}, Expire(u, p)) /\ Steady(u, Expire(u, p))
  <1> DEFINE v == CompletePendingCommand(u, p.seq)
             X == Numbered(u, p.seq)
             x == IF u.add = p.seq THEN AddResult(v) ELSE v
             off == [x EXCEPT !.loading = FALSE]
  <1>1. \A q \in X : q.seq = p.seq /\ q.cmd = p.cmd /\ q.seq # NoSeq
    BY Labels DEF Numbered
  <1>2. Watched(n, k, X, v) /\ Steady(u, v) /\ v.add = u.add BY CompleteWatched
  <1>3. Expire(u, p) = off BY DEF Expire
  <1> HIDE DEF v, X
  <1>4. v \in Screen BY <1>2, WatchedTyped
  <1>5. Eased(v, x) /\ Steady(v, x) /\ (x.add # NoSeq => x.add # p.seq)
    BY <1>2, <1>4, ResultEases
  <1> HIDE DEF x
  <1>6. Watched(n, k, X, x) BY <1>2, <1>5, EasedWatched
  <1>7. Watched(n, k, {}, off) /\ Steady(x, off) BY <1>1, <1>5, <1>6, LiftDrops
  <1> HIDE DEF off
  <1>8. Steady(u, off) BY <1>2, <1>5, <1>7, Twice
  <1> QED BY <1>3, <1>7, <1>8

-----------------------------------------------------------------------------
(* The steps.                                                              *)

\* The boards and the port.
Boards ==
  /\ port \in BOOLEAN /\ devs \in SUBSET Slaves /\ relay \in [Slaves -> States]
  /\ fails \in [Slaves -> 0 .. OfflineFailureThreshold]

\* Numbers keep their commands, on their way and at the screen, and what the screen
\* shows as under way is pending.
Marked(kind) ==
  /\ toGw \in Seq(Sent(kind, ui.seq)) /\ toUi \in Seq(Heard(kind, ui.seq))
  /\ todo \in [Threads -> Seq(Heard(kind, ui.seq))]
  /\ Numbers(kind, ui) /\ ui.out = <<>> /\ Attended(ui, {})

IInv == Boards /\ \E kind \in Kinds : Marked(kind)

\* Facts about sequences.
LEMMA Queues ==
  /\ \A F : <<>> \in Seq(F)
  /\ \A F : \A a \in F : <<a>> \in Seq(F)
  /\ \A F : \A q \in Seq(F) : q # <<>> => Head(q) \in F /\ Tail(q) \in Seq(F)
  /\ \A F : \A p, q \in Seq(F) : p \o q \in Seq(F)
OBVIOUS

\* The answer of a handler.
Answered(c, ok, b) == [type |-> "ack", cmd |-> c.cmd, seq |-> c.seq, ok |-> ok,
                       slave |-> c.slave, connected |-> b]

\* A handler keeps the boards' types.
LEMMA HandlerKeepsBoards ==
  ASSUME Boards, NEW S, NEW t \in Threads, NEW c \in Commands(S), DataCommand(t, c)
  PROVE  Boards'
  <1>1. c.states \in States /\ (c.cmd \in Named => c.slave \in Slaves) BY DEF Commands
  <1>2. NoFails \in [Slaves -> 0 .. OfflineFailureThreshold] BY UiAssumption DEF NoFails
  <1>3. 0 \in 0 .. OfflineFailureThreshold BY UiAssumption
  <1>4. CASE GetRuntimeState(t, c) BY <1>4 DEF GetRuntimeState, Boards
  <1>5. CASE ScanPortsOrCache(t, c) BY <1>5 DEF ScanPortsOrCache, Boards
  <1>6. CASE ConnectPort(t, c)
    <2>1. port' \in BOOLEAN BY <1>6 DEF ConnectPort
    <2> QED BY <1>2, <1>6, <2>1 DEF ConnectPort, Boards
  <1>7. CASE DisconnectPort(t, c) BY <1>7 DEF DisconnectPort, Boards
  <1>8. CASE AddDevice(t, c)
    <2>1. c.slave \in Slaves BY <1>1, <1>8 DEF AddDevice, Named
    <2>2. devs' \in SUBSET Slaves BY <1>8, <2>1 DEF AddDevice, Boards
    <2>3. fails' \in [Slaves -> 0 .. OfflineFailureThreshold]
      <3>1. fails' = fails \/ fails' = [fails EXCEPT ![c.slave] = 0] BY <1>8 DEF AddDevice
      <3> QED BY <1>3, <3>1 DEF Boards
    <2> QED BY <1>8, <2>2, <2>3 DEF AddDevice, Boards
  <1>9. CASE RemoveDevice(t, c)
    <2>1. devs' \in SUBSET Slaves BY <1>9 DEF RemoveDevice, Boards
    <2> QED BY <1>9, <2>1 DEF RemoveDevice, Boards
  <1>10. CASE SetRelay(t, c)
    <2>1. relay' = relay \/ relay' = [relay EXCEPT ![c.slave] = c.states] BY <1>10 DEF SetRelay
    <2>2. relay' \in [Slaves -> States] BY <1>1, <2>1 DEF Boards
    <2> QED BY <1>10, <2>2 DEF SetRelay, Boards
  <1> QED BY <1>4, <1>5, <1>6, <1>7, <1>8, <1>9, <1>10 DEF DataCommand

\* A handler answers with the command's own name and number.
LEMMA HandlerAnswers ==
  ASSUME Boards, Boards', NEW n \in Nat, NEW t \in Threads, NEW c \in Commands(Below(n)),
         DataCommand(t, c), NEW k \in Kinds, Of(k, c)
  PROVE  \E q \in Seq(Heard(k, n)) : todo' = [todo EXCEPT ![t] = q]
  <1> DEFINE S == Below(n)
             H == Heard(k, n)
  <1>1. port' \in BOOLEAN /\ port \in BOOLEAN /\ devs \in SUBSET Slaves BY DEF Boards
  <1>2. /\ c.cmd \in Cmds /\ c.seq \in S /\ c.slave \in Slaves \cup {NoSlave}
        /\ c.cmd \in Named => c.slave \in Slaves
    BY DEF Commands
  <1>3. ASSUME NEW m \in Frames(S), m.type # "ack" PROVE m \in H
    BY <1>3 DEF Heard
  <1>4. ASSUME NEW ok \in BOOLEAN, NEW b \in BOOLEAN PROVE Answered(c, ok, b) \in H
    <2>1. Answered(c, ok, b) \in Acks(S) BY <1>2 DEF Answered, Acks
    <2>2. Answered(c, ok, b) \in Frames(S) BY <2>1 DEF Frames
    <2>3. Of(k, Answered(c, ok, b)) BY DEF Of, Answered
    <2> QED BY <2>2, <2>3 DEF Heard
  <1> HIDE DEF H
  <1>5. ASSUME NEW ok \in BOOLEAN, NEW more \in Seq(H), Answer(t, c, ok, more)
        PROVE  \E q \in Seq(H) : todo' = [todo EXCEPT ![t] = q]
    <2> DEFINE a == Answered(c, ok, port')
    <2>1. todo' = [todo EXCEPT ![t] = <<a>> \o more] BY <1>5 DEF Answer, Answered
    <2>2. a \in H BY <1>1, <1>4
    <2> HIDE DEF a
    <2>3. <<a>> \o more \in Seq(H) BY <2>2, Queues
    <2> QED BY <2>1, <2>3
  <1>6. <<>> \in Seq(H) BY Queues
  <1>7. CASE GetRuntimeState(t, c)
    <2> DEFINE m == [type |-> "runtime_state", connected |-> port, devices |-> Running]
    <2>1. m \in Runtimes /\ m.type # "ack" BY <1>1 DEF Runtimes, Running
    <2>2. todo' = [todo EXCEPT ![t] = <<m>>] BY <1>7 DEF GetRuntimeState
    <2> HIDE DEF m
    <2>3. m \in Frames(S) BY <2>1 DEF Frames
    <2>4. m \in H BY <1>3, <2>1, <2>3
    <2>5. <<m>> \in Seq(H) BY <2>4
    <2> QED BY <2>2, <2>5 DEF H
  <1>8. CASE AddDevice(t, c)
    <2> DEFINE m == [type |-> "device_register", slave |-> c.slave]
    <2>1. c.slave \in Slaves BY <1>2, <1>8 DEF AddDevice, Named
    <2>2. m \in Registers /\ m.type # "ack" BY <2>1 DEF Registers
    <2>3. Answer(t, c, TRUE, <<m>>) \/ Answer(t, c, FALSE, <<>>) BY <1>8 DEF AddDevice
    <2> HIDE DEF m
    <2>4. m \in Frames(S) BY <2>2 DEF Frames
    <2>5. m \in H BY <1>3, <2>2, <2>4
    <2>6. <<m>> \in Seq(H) BY <2>5
    <2>7. \E q \in Seq(H) : todo' = [todo EXCEPT ![t] = q] BY <1>5, <1>6, <2>3, <2>6
    <2> QED BY <2>7 DEF H
  <1>9. CASE ConnectPort(t, c)
    <2>1. CASE \E ok \in BOOLEAN : Answer(t, c, ok, <<>>)
      <3>1. \E q \in Seq(H) : todo' = [todo EXCEPT ![t] = q] BY <1>5, <1>6, <2>1
      <3> QED BY <3>1 DEF H
    <2>2. CASE todo' = [todo EXCEPT ![t] = <<[type |-> "ack", cmd |-> c.cmd, seq |-> c.seq,
                                    ok |-> FALSE, slave |-> c.slave, connected |-> FALSE]>>]
      <3> DEFINE a == Answered(c, FALSE, FALSE)
      <3>1. todo' = [todo EXCEPT ![t] = <<a>>] BY <2>2 DEF Answered
      <3>2. a \in H BY <1>4
      <3> HIDE DEF a
      <3>3. <<a>> \in Seq(H) BY <3>2
      <3> QED BY <3>1, <3>3 DEF H
    <2>3. \/ Answer(t, c, TRUE, <<>>) \/ Answer(t, c, FALSE, <<>>)
          \/ todo' = [todo EXCEPT ![t] = <<[type |-> "ack", cmd |-> c.cmd, seq |-> c.seq,
                            ok |-> FALSE, slave |-> c.slave, connected |-> FALSE]>>]
      BY <1>9 DEF ConnectPort
    <2> QED BY <2>1, <2>2, <2>3
  <1>10. CASE \/ ScanPortsOrCache(t, c) \/ DisconnectPort(t, c) \/ RemoveDevice(t, c)
              \/ SetRelay(t, c)
    <2>1. \E ok \in BOOLEAN : Answer(t, c, ok, <<>>)
      BY <1>1, <1>10 DEF ScanPortsOrCache, DisconnectPort, RemoveDevice, SetRelay
    <2>2. \E q \in Seq(H) : todo' = [todo EXCEPT ![t] = q] BY <1>5, <1>6, <2>1
    <2> QED BY <2>2 DEF H
  <1> QED BY <1>7, <1>8, <1>9, <1>10 DEF DataCommand

\* A step of a thread of Linux_data.
DataStep ==
  \/ IpcCommand
  \/ \E s \in Slaves : Remote(s) \/ PollDevice(s)
  \/ \E t \in Threads : IpcServerSend(t)

\* The threads of Linux_data keep the numbers with their commands.
LEMMA DataKeeps ==
  ASSUME IInv, DataStep
  PROVE  IInv' /\ ui' = ui
  <1>1. PICK k \in Kinds : Marked(k) BY DEF IInv
  <1> DEFINE H == Heard(k, ui.seq)
             C == Sent(k, ui.seq)
  <1>2. /\ toGw \in Seq(C) /\ toUi \in Seq(H) /\ todo \in [Threads -> Seq(H)]
        /\ Numbers(k, ui) /\ ui.out = <<>> /\ Attended(ui, {})
    BY <1>1 DEF Marked
  <1>3. "ipc" \in Threads /\ "mqtt" \in Threads /\ "poll" \in Threads BY DEF Threads
  <1>4. ui' = ui
    BY DEF DataStep, IpcCommand, Remote, MqttCommand, PollDevice, IpcServerSend
  <1>5. Boards /\ ui.seq \in Nat /\ ui.seq # 0
    BY <1>2, Parts DEF IInv, Numbers
  <1> HIDE DEF H, C
  <1>6. ASSUME todo' \in [Threads -> Seq(H)], toGw' \in Seq(C), toUi' \in Seq(H), Boards'
        PROVE  IInv' /\ ui' = ui
    <2>1. Marked(k)' BY <1>2, <1>4, <1>6 DEF Marked, H, C
    <2> QED BY <1>4, <1>6, <2>1 DEF IInv
  <1>7. ASSUME NEW t \in Threads, NEW c \in Commands(Below(ui.seq)), Of(k, c), DataCommand(t, c)
        PROVE  todo' \in [Threads -> Seq(H)] /\ Boards'
    <2>1. Boards' BY <1>5, <1>7, HandlerKeepsBoards
    <2>2. \E q \in Seq(H) : todo' = [todo EXCEPT ![t] = q]
      BY <1>5, <1>7, <2>1, HandlerAnswers DEF H
    <2> QED BY <1>2, <2>1, <2>2
  <1>8. CASE IpcCommand
    <2>1. /\ toGw # <<>> /\ toGw' = Tail(toGw) /\ toUi' = toUi
          /\ DataCommand("ipc", Head(toGw))
      BY <1>8 DEF IpcCommand
    <2>2. Head(toGw) \in C /\ toGw' \in Seq(C) BY <1>2, <2>1, Queues
    <2>3. Head(toGw) \in Commands(Below(ui.seq)) /\ Of(k, Head(toGw)) BY <2>2 DEF C, Sent
    <2>4. todo' \in [Threads -> Seq(H)] /\ Boards' BY <1>3, <1>7, <2>1, <2>3
    <2> QED BY <1>2, <1>6, <2>1, <2>2, <2>4
  <1>9. ASSUME NEW s \in Slaves, Remote(s) PROVE IInv' /\ ui' = ui
    <2>1. PICK c \in Commands(Below(ui.seq)) : MqttCommand(c) /\ c.seq = NoSeq
      <3>1. NoSeq \in Below(ui.seq) BY <1>5 DEF Below, NoSeq
      <3>2. ASSUME NEW cmd \in Named, NEW v \in States
            PROVE  /\ Command(cmd, NoSeq, s, v) \in Commands(Below(ui.seq))
                   /\ Command(cmd, NoSeq, s, v).seq = NoSeq
        BY <3>1 DEF Command, Commands, Cmds
      <3>3. /\ "set_relay" \in Named /\ {"add_device", "remove_device"} \subseteq Named
            /\ AllOff \in States
        BY Constants DEF Named
      <3> QED BY <1>9, <3>2, <3>3 DEF Remote
    <2>2. toGw' = toGw /\ toUi' = toUi /\ DataCommand("mqtt", c) BY <2>1 DEF MqttCommand
    <2>3. Of(k, c) BY <2>1 DEF Of
    <2>4. todo' \in [Threads -> Seq(H)] /\ Boards' BY <1>3, <1>7, <2>2, <2>3
    <2> QED BY <1>2, <1>6, <2>2, <2>4
  <1>10. ASSUME NEW s \in Slaves, PollDevice(s) PROVE IInv' /\ ui' = ui
    <2>1. UNCHANGED <<port, devs, relay, toGw, toUi>> BY <1>10 DEF PollDevice
    <2>2. \/ todo' = todo
          \/ \E valid \in BOOLEAN : todo' = [todo EXCEPT !["poll"] = <<Pack(s, valid)>>]
      BY <1>10 DEF PollDevice, RecordPollFailure
    <2>3. ASSUME NEW valid \in BOOLEAN PROVE <<Pack(s, valid)>> \in Seq(H)
      <3> DEFINE m == Pack(s, valid)
      <3>1. m \in Telemetry
        <4>1. relay[s] \in States BY <1>5 DEF Boards
        <4> QED BY <4>1 DEF Telemetry, Pack
      <3> HIDE DEF m
      <3>2. m.type # "ack" BY <3>1, TelemetryParts
      <3>3. m \in H BY <3>1, <3>2 DEF H, Heard, Frames
      <3>4. <<m>> \in Seq(H) BY <3>3
      <3> QED BY <3>4 DEF m
    <2>4. todo' \in [Threads -> Seq(H)] BY <1>2, <1>3, <2>2, <2>3
    <2>5. fails' \in [Slaves -> 0 .. OfflineFailureThreshold]
      <3>1. fails[s] \in 0 .. OfflineFailureThreshold BY <1>5 DEF Boards
      <3>2. \/ fails' = [fails EXCEPT ![s] = 0]
            \/ fails' = fails
            \/ /\ fails' = [fails EXCEPT ![s] = fails[s] + 1]
               /\ fails[s] + 1 <= OfflineFailureThreshold
        <4>1. CASE fails' = [fails EXCEPT ![s] = 0] BY <4>1
        <4>2. CASE RecordPollFailure(s)
          <5>1. \/ fails' = fails
                \/ /\ fails' = [fails EXCEPT ![s] = @ + 1]
                   /\ fails[s] + 1 < OfflineFailureThreshold \/ fails[s] + 1 = OfflineFailureThreshold
            BY <4>2 DEF RecordPollFailure
          <5> QED BY <3>1, <5>1, UiAssumption
        <4> QED BY <1>10, <4>1, <4>2 DEF PollDevice
      <3>3. 0 \in 0 .. OfflineFailureThreshold BY UiAssumption
      <3>4. fails[s] + 1 <= OfflineFailureThreshold => fails[s] + 1 \in 0 .. OfflineFailureThreshold
        BY <3>1, UiAssumption
      <3> QED BY <1>5, <3>2, <3>3, <3>4 DEF Boards
    <2>6. Boards' BY <1>5, <2>1, <2>5 DEF Boards
    <2> QED BY <1>2, <1>6, <2>1, <2>4, <2>6
  <1>11. ASSUME NEW t \in Threads, IpcServerSend(t) PROVE IInv' /\ ui' = ui
    <2>1. /\ toGw' = toGw /\ todo[t] # <<>> /\ todo' = [todo EXCEPT ![t] = Tail(todo[t])]
          /\ toUi' = toUi \/ toUi' = Append(toUi, Head(todo[t]))
          /\ UNCHANGED <<port, devs, relay, fails>>
      BY <1>11 DEF IpcServerSend
    <2>2. todo[t] \in Seq(H) BY <1>2
    <2>3. Head(todo[t]) \in H /\ Tail(todo[t]) \in Seq(H) BY <2>1, <2>2, Queues
    <2>4. toUi' \in Seq(H)
      <3>1. Append(toUi, Head(todo[t])) \in Seq(H) BY <1>2, <2>3
      <3> QED BY <1>2, <2>1, <3>1
    <2>5. todo' \in [Threads -> Seq(H)] BY <1>2, <2>1, <2>3
    <2>6. Boards' BY <1>5, <2>1 DEF Boards
    <2> QED BY <1>2, <1>6, <2>1, <2>4, <2>5, <2>6
  <1> QED BY <1>8, <1>9, <1>10, <1>11 DEF DataStep

\* Between its steps the screen is watched.
LEMMA StartWatched ==
  ASSUME NEW k \in Kinds, Marked(k)
  PROVE  Watched(ui.seq, k, {}, ui) /\ ui \in Screen /\ ui.seq \in Nat
  <1>1. ui \in Screen BY DEF Marked, Numbers
  <1>2. ui.seq \in Nat BY <1>1, Parts
  <1>3. ui.seq <= ui.seq BY <1>2
  <1>4. Agrees(k, k, ui.seq) BY DEF Agrees
  <1> QED BY <1>1, <1>2, <1>3, <1>4 DEF Marked, Watched

\* A method has run: the numbers it gave out are marked.
LEMMA RanMarks ==
  ASSUME Boards, NEW k \in Kinds, Marked(k), NEW v, Watched(ui.seq, k, {}, v), Ran(v),
         UNCHANGED gwVars, toUi' \in Seq(Heard(k, ui.seq))
  PROVE  IInv' /\ ui'.add = v.add /\ ui'.adding = v.adding /\ ui'.master = v.master
  <1>1. PICK kind \in Kinds : Agrees(kind, k, ui.seq) /\ Numbers(kind, v) BY DEF Watched
  <1>2. ui' = [v EXCEPT !.out = <<>>] /\ toGw' = toGw \o v.out BY DEF Ran
  <1>3. v \in Screen /\ v.out \in Seq(Sent(kind, v.seq)) BY <1>1 DEF Numbers
  <1>4. v.seq \in Nat /\ ui.seq \in Nat /\ ui.seq <= v.seq BY <1>3, Parts, StartWatched DEF Watched
  <1>5. /\ ui' \in Screen /\ ui'.out = <<>> /\ ui'.seq = v.seq /\ ui'.adding = v.adding
        /\ ui'.pending = v.pending /\ ui'.add = v.add /\ ui'.loading = v.loading
        /\ ui'.master = v.master
    <2>1. <<>> \in Seq(Commands(Nat)) OBVIOUS
    <2> QED BY <1>2, <1>3, <2>1 DEF Screen
  <1>6. Numbers(kind, ui')
    <2>1. ui'.out \in Seq(Sent(kind, ui'.seq)) BY <1>5
    <2> QED BY <1>1, <1>5, <2>1 DEF Numbers
  <1>7. Attended(ui', {}) BY <1>5 DEF Watched, Attended
  <1>8. /\ Seq(Sent(k, ui.seq)) \subseteq Seq(Sent(kind, v.seq))
        /\ Seq(Heard(k, ui.seq)) \subseteq Seq(Heard(kind, v.seq))
    BY <1>1, <1>4, MarksGrow
  <1>9. toGw' \in Seq(Sent(kind, ui'.seq))
    <2>1. toGw \in Seq(Sent(kind, v.seq)) BY <1>8 DEF Marked
    <2> QED BY <1>2, <1>3, <1>5, <2>1, Queues
  <1>10. toUi' \in Seq(Heard(kind, ui'.seq)) BY <1>5, <1>8
  <1>11. todo' \in [Threads -> Seq(Heard(kind, ui'.seq))]
    <2>1. todo \in [Threads -> Seq(Heard(k, ui.seq))] BY DEF Marked
    <2> QED BY <1>5, <1>8, <2>1 DEF gwVars
  <1>12. Marked(kind)' BY <1>5, <1>6, <1>7, <1>9, <1>10, <1>11 DEF Marked
  <1>13. Boards' BY DEF Boards, gwVars
  <1> QED BY <1>5, <1>12, <1>13 DEF IInv

\* An operation at the screen.
Operation ==
  \/ Scan \/ ConnectMaster \/ DisconnectMaster \/ OfflineCacheButton
  \/ \E s \in Slaves : AddSlave(s) \/ RemoveSlave(s)

\* A timer is started before the overlay is put on or a dialog waits.
LEMMA OperationsKeep ==
  ASSUME IInv, Operation
  PROVE  IInv' /\ ~ui.adding
  <1>1. PICK k \in Kinds : Marked(k) BY DEF IInv
  <1>2. /\ ui \in Screen /\ ui.seq \in Nat /\ Watched(ui.seq, k, {}, ui) /\ Boards
        /\ Loading.seq = ui.seq
    <2>1. ui \in Screen /\ ui.seq \in Nat /\ Watched(ui.seq, k, {}, ui) BY <1>1, StartWatched
    <2> QED BY <2>1 DEF IInv, Loading, Screen
  <1>3. ASSUME NEW v, Operate(v), Watched(ui.seq, k, {}, v) PROVE IInv'
    <2>1. Ran(v) /\ UNCHANGED gwVars /\ toUi' = toUi BY <1>3 DEF Operate
    <2>2. toUi' \in Seq(Heard(k, ui.seq)) BY <1>1, <2>1 DEF Marked
    <2> QED BY <1>1, <1>2, <1>3, <2>1, <2>2, RanMarks
  \* The overlay is on, and the command is about to be sent.
  <1> DEFINE X(cmd) == {[seq |-> ui.seq, cmd |-> cmd]}
  <1>4. ASSUME NEW cmd \in Lifting PROVE Watched(ui.seq, k, X(cmd), Loading)
    <2>1. /\ Loading \in Screen /\ Loading.out = ui.out /\ Loading.pending = ui.pending
          /\ Loading.add = ui.add /\ Loading.adding = ui.adding
      BY <1>2 DEF Loading, Screen
    <2>2. PICK kind \in Kinds : Agrees(kind, k, ui.seq) /\ Numbers(kind, ui)
      BY <1>2 DEF Watched
    <2>3. Numbers(kind, Loading) BY <1>2, <2>1, <2>2 DEF Numbers
    <2>4. \E p \in ui.pending \cup X(cmd) : p.cmd \in Lifting
      <3>1. [seq |-> ui.seq, cmd |-> cmd] \in ui.pending \cup X(cmd) OBVIOUS
      <3>2. [seq |-> ui.seq, cmd |-> cmd].cmd \in Lifting BY <1>4
      <3> QED BY <3>1, <3>2
    <2>5. Attended(Loading, X(cmd)) BY <1>2, <2>1, <2>4 DEF Watched, Attended
    <2> QED BY <1>2, <2>2, <2>3, <2>5 DEF Watched
  <1>5. ASSUME NEW cmd \in Lifting, NEW s \in Slaves \cup {NoSlave},
               cmd \in Named => s \in Slaves, cmd # "get_runtime_state"
        PROVE  Watched(ui.seq, k, {}, SendCommand(Loading, cmd, s))
    <2> DEFINE v == SendCommand(Loading, cmd, s)
    <2>1. cmd \in Cmds BY DEF Lifting
    <2>2. Loading \in Screen BY <1>4, WatchedTyped
    <2>3. Watched(ui.seq, k, X(cmd), v) BY <1>4, <1>5, <2>1, SendWatched
    <2>4. v.pending = Loading.pending \cup {[seq |-> Loading.seq, cmd |-> cmd]}
      BY <1>5, <2>1, <2>2, SendTyped
    <2>5. v.pending \cup X(cmd) = v.pending \cup {} BY <1>2, <2>4
    <2> HIDE DEF v, X
    <2>6. Attended(v, {}) BY <2>3, <2>5 DEF Watched, Attended
    <2>7. Watched(ui.seq, k, {}, v) BY <2>3, <2>6 DEF Watched
    <2> QED BY <2>7 DEF v
  <1>6. /\ {"scan_ports", "connect_port", "disconnect_port", "remove_device"} \subseteq Lifting
        /\ "add_device" \in Cmds /\ "flush_offline_cache" \in Plain
        /\ {"scan_ports", "connect_port", "disconnect_port"} \cap Named = {}
    BY DEF Lifting, Cmds, Named, Plain
  <1> HIDE DEF X
  <1>7. CASE Scan \/ ConnectMaster \/ DisconnectMaster
    <2>1. PICK cmd \in {"scan_ports", "connect_port", "disconnect_port"} :
             Operate(SendCommand(Loading, cmd, NoSlave))
      BY <1>7 DEF Scan, ConnectMaster, DisconnectMaster, Request
    <2>2. Watched(ui.seq, k, {}, SendCommand(Loading, cmd, NoSlave)) BY <1>5, <1>6
    <2> QED BY <1>3, <2>1, <2>2 DEF Operate
  <1>8. CASE OfflineCacheButton
    <2>1. /\ Watched(ui.seq, k, {}, Request(ui, "flush_offline_cache"))
          /\ Watched(ui.seq, k, {}, RequestOfflineCacheConfig(ui))
      BY <1>2, <1>6, RequestWatched
    <2>2. \/ Operate(Request(ui, "flush_offline_cache"))
          \/ Operate(RequestOfflineCacheConfig(ui))
      BY <1>8 DEF OfflineCacheButton
    <2> QED BY <1>3, <2>1, <2>2 DEF Operate
  <1>9. ASSUME NEW s \in Slaves, RemoveSlave(s) PROVE IInv' /\ ~ui.adding
    <2>1. Operate(SendCommand(Loading, "remove_device", s)) BY <1>9 DEF RemoveSlave
    <2>2. Watched(ui.seq, k, {}, SendCommand(Loading, "remove_device", s)) BY <1>5, <1>6
    <2> QED BY <1>3, <2>1, <2>2 DEF Operate
  <1>10. ASSUME NEW s \in Slaves, AddSlave(s) PROVE IInv' /\ ~ui.adding
    <2> DEFINE u == SendCommand(ui, "add_device", s)
               v == [u EXCEPT !.adding = TRUE, !.add = ui.seq]
    <2>1. Operate(v) BY <1>10 DEF AddSlave
    <2>2. PICK kind \in Kinds :
             Agrees(kind, k, ui.seq) /\ Numbers(kind, u) /\ kind[ui.seq] = "add_device"
      BY <1>2, <1>6, SendWatched
    <2>3. Watched(ui.seq, k, {}, u) BY <1>2, <1>6, SendWatched
    <2>4. /\ u \in Screen /\ u.seq = ui.seq + 1
          /\ u.pending = ui.pending \cup {[seq |-> ui.seq, cmd |-> "add_device"]}
      BY <1>2, <1>6, SendTyped
    <2> HIDE DEF u
    <2>5. u.seq \in Nat /\ ui.seq \in Below(u.seq) BY <1>2, <2>4 DEF Below
    <2>6. /\ v \in Screen /\ v.seq = u.seq /\ v.out = u.out /\ v.pending = u.pending
          /\ v.loading = u.loading /\ v.add = ui.seq /\ v.adding
      BY <1>2, <2>4 DEF Screen
    <2> HIDE DEF v
    <2>7. Numbers(kind, v) BY <2>2, <2>5, <2>6 DEF Numbers
    <2>8. \E p \in v.pending : p.seq = v.add
      <3> DEFINE p == [seq |-> ui.seq, cmd |-> "add_device"]
      <3>1. p \in v.pending BY <2>4, <2>6
      <3>2. p.seq = v.add BY <2>6
      <3> QED BY <3>1, <3>2
    <2>9. Attended(v, {}) BY <2>3, <2>6, <2>8 DEF Watched, Attended
    <2>10. Watched(ui.seq, k, {}, v) BY <2>2, <2>3, <2>6, <2>7, <2>9 DEF Watched
    <2> QED BY <1>3, <2>1, <2>10 DEF Operate
  <1> QED BY <1>7, <1>8, <1>9, <1>10 DEF Operation

\* An event of the screen's loop.
Event ==
  OnReadyRead \/ BreakIpc \/ ConnectIpc \/ \E p \in ui.pending : CommandTimeout(p)

\* Every event leaves a timer for what it leaves shown.
LEMMA EventsKeep ==
  ASSUME IInv, Event
  PROVE  IInv' /\ Kept(ui, ui')
  <1>1. PICK k \in Kinds : Marked(k) BY DEF IInv
  <1>2. /\ ui \in Screen /\ ui.seq \in Nat /\ Watched(ui.seq, k, {}, ui) /\ Boards
        /\ toUi \in Seq(Heard(k, ui.seq))
    BY <1>1, StartWatched DEF IInv, Marked
  <1>3. CASE OnReadyRead
    <2> DEFINE v == OnFrame(ui, Head(toUi))
    <2>1. toUi # <<>> /\ Ran(v) /\ toUi' = Tail(toUi) /\ UNCHANGED gwVars
      BY <1>3 DEF OnReadyRead
    <2>2. Head(toUi) \in Heard(k, ui.seq) /\ toUi' \in Seq(Heard(k, ui.seq))
      BY <1>2, <2>1, Queues
    <2>3. Watched(ui.seq, k, {}, v) /\ Kept(ui, v) BY <1>2, <2>2, FrameWatched
    <2> HIDE DEF v
    <2>4. IInv' /\ ui'.add = v.add /\ ui'.adding = v.adding /\ ui'.master = v.master
      BY <1>1, <1>2, <2>1, <2>2, <2>3, RanMarks
    <2> QED BY <2>3, <2>4 DEF Kept
  <1>4. CASE ConnectIpc
    <2> DEFINE x == RequestRuntimeRefresh(ui)
               v == RequestOfflineCacheConfig(x)
    <2>1. Ran(v) /\ UNCHANGED gwVars /\ toUi' = toUi BY <1>4 DEF ConnectIpc, HandleIpcConnected
    <2>2. Watched(ui.seq, k, {}, x) /\ Steady(ui, x) BY <1>2, RequestWatched
    <2> HIDE DEF x
    <2>3. Watched(ui.seq, k, {}, v) /\ Steady(x, v) BY <2>2, RequestWatched
    <2> HIDE DEF v
    <2>4. IInv' /\ ui'.add = v.add /\ ui'.adding = v.adding /\ ui'.master = v.master
      BY <1>1, <1>2, <2>1, <2>3, RanMarks
    <2> QED BY <2>2, <2>3, <2>4 DEF Kept, Steady
  <1>5. ASSUME NEW p \in ui.pending, CommandTimeout(p) PROVE IInv' /\ Kept(ui, ui')
    <2> DEFINE v == Expire(ui, p)
    <2>1. Ran(v) /\ UNCHANGED gwVars /\ toUi' = toUi BY <1>5 DEF CommandTimeout
    <2>2. p.seq \in Below(ui.seq) /\ Of(k, p) BY <1>1, <1>5 DEF Marked, Numbers, Of
    <2>3. Watched(ui.seq, k, {}, v) /\ Steady(ui, v) BY <1>2, <2>2, ExpireWatched
    <2> HIDE DEF v
    <2>4. IInv' /\ ui'.add = v.add /\ ui'.adding = v.adding /\ ui'.master = v.master
      BY <1>1, <1>2, <2>1, <2>3, RanMarks
    <2> QED BY <2>3, <2>4 DEF Kept, Steady
  <1>6. CASE BreakIpc
    <2> DEFINE x == MarkMasterRuntimeOffline(ui)
               y == AddResult(x)
               v == HandleIpcDisconnected(ui)
    <2>1. /\ toGw' = <<>> /\ toUi' = <<>> /\ todo' = [todo EXCEPT !["ipc"] = <<>>] /\ ui' = v
          /\ UNCHANGED <<port, devs, relay, fails>>
      BY <1>6 DEF BreakIpc
    <2>2. v = [y EXCEPT !.master = FALSE, !.pending = {}, !.loading = FALSE]
      BY DEF HandleIpcDisconnected
    <2>3. Eased(ui, x) BY <1>2, RuntimeEases
    <2>4. x \in Screen BY <2>3 DEF Eased
    <2> HIDE DEF x
    <2>5. Eased(x, y) /\ y.add = NoSeq /\ ~y.adding BY <2>4, ResultEases DEF AddResult, Screen
    <2> HIDE DEF y
    <2>6. Eased(ui, y) BY <2>3, <2>5, Twice
    <2> HIDE DEF v
    <2>7. /\ v \in Screen /\ v.seq = ui.seq /\ v.out = ui.out /\ v.pending = {} /\ ~v.adding
          /\ ~v.loading /\ v.add = NoSeq
      BY <2>2, <2>5, <2>6 DEF Eased, Screen
    <2>8. ui.out = <<>> /\ ui.out \in Seq(Sent(k, ui.seq)) BY <1>1 DEF Marked, Numbers
    <2>9. Numbers(k, v) BY <2>7, <2>8 DEF Numbers
    <2>10. Attended(v, {}) BY <2>7 DEF Attended
    <2>11. todo' \in [Threads -> Seq(Heard(k, ui'.seq))]
      <3>1. todo \in [Threads -> Seq(Heard(k, ui.seq))] BY <1>1 DEF Marked
      <3> QED BY <2>1, <2>7, <3>1, Queues
    <2>12. toGw' \in Seq(Sent(k, ui'.seq)) /\ toUi' \in Seq(Heard(k, ui'.seq))
      BY <2>1, Queues
    <2>13. Marked(k)' BY <2>1, <2>7, <2>8, <2>9, <2>10, <2>11, <2>12 DEF Marked
    <2>14. Boards' BY <1>2, <2>1 DEF Boards
    <2> QED BY <2>1, <2>7, <2>13, <2>14 DEF IInv, Kept
  <1> QED BY <1>3, <1>4, <1>5, <1>6 DEF Event

\* At the start nothing is pending and no number is in use.
LEMMA InitHolds == Init => IInv
  <1> SUFFICES ASSUME Init PROVE IInv OBVIOUS
  <1> DEFINE kind == [i \in Nat |-> "scan_ports"]
             list == [s \in Slaves |-> IF port /\ s \in devs THEN "offline" ELSE NoSlave]
             known == [s \in Slaves |-> Unknown]
  <1>1. kind \in Kinds BY DEF Kinds, Cmds, Plain
  <1> HIDE DEF kind
  <1>2. list \in [Slaves -> Listing] /\ known \in [Slaves -> Shown] BY Constants DEF Listing
  <1>3. ui = [seq |-> 4, pending |-> {}, add |-> NoSeq, adding |-> FALSE,
              loading |-> FALSE, master |-> port, list |-> list, known |-> known, out |-> <<>>]
    BY DEF Init
  <1> HIDE DEF list, known
  <1>4. port \in BOOLEAN /\ <<>> \in Seq(Commands(Nat)) BY Queues DEF Init
  <1>5. /\ ui \in Screen /\ ui.out = <<>> /\ ui.pending = {} /\ ui.add = NoSeq /\ ~ui.loading
    BY <1>2, <1>3, <1>4, Constants DEF Screen
  <1>6. ui.out \in Seq(Sent(kind, ui.seq)) BY <1>5, Queues
  <1>7. Numbers(kind, ui) BY <1>5, <1>6 DEF Numbers
  <1>8. Attended(ui, {}) BY <1>5 DEF Attended
  <1>9. todo \in [Threads -> Seq(Heard(kind, ui.seq))] BY Queues DEF Init
  <1>10. toGw \in Seq(Sent(kind, ui.seq)) /\ toUi \in Seq(Heard(kind, ui.seq))
    BY Queues DEF Init
  <1>11. Marked(kind) BY <1>5, <1>7, <1>8, <1>9, <1>10 DEF Marked
  <1>12. Boards BY Constants, UiAssumption DEF Init, Boards, NoFails
  <1> QED BY <1>1, <1>11, <1>12 DEF IInv

\* Every step keeps the invariant, and leaves the dialog that waits as it is, tells it,
\* or finds the port offline.
LEMMA NextKeeps ==
  ASSUME IInv, [Next]_vars
  PROVE  IInv' /\ (ui.adding => Kept(ui, ui'))
  <1>1. CASE DataStep BY <1>1, DataKeeps DEF Kept
  <1>2. CASE Operation BY <1>2, OperationsKeep
  <1>3. CASE Event BY <1>3, EventsKeep
  <1>4. CASE UNCHANGED vars
    <2>1. PICK k \in Kinds : Marked(k) BY DEF IInv
    <2>2. Marked(k)' BY <1>4, <2>1 DEF Marked, vars, gwVars
    <2>3. Boards' BY <1>4 DEF IInv, Boards, vars, gwVars
    <2> QED BY <1>4, <2>2, <2>3 DEF IInv, Kept, vars
  <1> QED BY <1>1, <1>2, <1>3, <1>4 DEF Next, DataStep, Operation, Event

-----------------------------------------------------------------------------
(* The invariant and what follows from it.                                 *)

\* Numbers keep their commands, at every step: an acknowledgement names the command
\* its number was given out for.
THEOREM NumbersKeepCommands == Spec => []IInv
  <1>1. IInv /\ [Next]_vars => IInv' BY NextKeeps
  <1> QED BY <1>1, InitHolds, PTL DEF Spec

\* The socket is up or down, and the bounds are kept.
Counts ==
  up \in BOOLEAN /\ remoteAdd \in BOOLEAN /\ acts \in 0 .. MaxActs /\ faults \in 0 .. MaxFaults

\* Every state has its types (TypeOK).
THEOREM TypeCorrect == Spec => []TypeOK
  <1>1. Init => Counts
    <2> SUFFICES ASSUME Init PROVE Counts OBVIOUS
    <2>1. up = TRUE /\ remoteAdd = FALSE /\ acts = 0 /\ faults = 0 BY DEF Init
    <2>2. acts \in 0 .. MaxActs /\ faults \in 0 .. MaxFaults BY <2>1, UiAssumption
    <2> QED BY <2>1, <2>2 DEF Counts
  <1>2. ASSUME Counts, [Next]_vars PROVE Counts'
    <2>1. ASSUME Fault \/ Fine PROVE faults' \in 0 .. MaxFaults
      BY <1>2, <2>1, UiAssumption DEF Counts, Fault, Fine
    <2>2. \A t \in Threads : \A c : DataCommand(t, c) => faults' \in 0 .. MaxFaults
      <3>1. ASSUME NEW t \in Threads, NEW c, DataCommand(t, c)
            PROVE  Fault \/ Fine
        BY <3>1 DEF DataCommand, GetRuntimeState, ScanPortsOrCache, ConnectPort, DisconnectPort,
                    AddDevice, RemoveDevice, SetRelay
      <3> QED BY <2>1, <3>1
    <2>3. "ipc" \in Threads /\ "mqtt" \in Threads BY DEF Threads
    <2>4. CASE IpcCommand BY <1>2, <2>2, <2>3, <2>4 DEF IpcCommand, Counts
    <2>5. ASSUME NEW c, MqttCommand(c) PROVE Counts'
      <3>1. faults' \in 0 .. MaxFaults BY <2>2, <2>3, <2>5 DEF MqttCommand
      <3>2. acts' \in 0 .. MaxActs BY <1>2, <2>5, UiAssumption DEF MqttCommand, Counts
      <3>3. up' \in BOOLEAN /\ remoteAdd' \in BOOLEAN BY <1>2, <2>5 DEF MqttCommand, Counts
      <3> QED BY <3>1, <3>2, <3>3 DEF Counts
    <2>6. ASSUME NEW s \in Slaves, PollDevice(s) PROVE Counts'
      <3>1. Fault \/ Fine BY <2>6 DEF PollDevice, RecordPollFailure
      <3>2. faults' \in 0 .. MaxFaults BY <2>1, <3>1
      <3> QED BY <1>2, <2>6, <3>2 DEF PollDevice, Counts
    <2>7. ASSUME NEW v, Operate(v) PROVE Counts'
      BY <1>2, <2>7, UiAssumption DEF Operate, Counts
    <2>8. CASE Operation
      BY <2>7, <2>8 DEF Operation, Scan, ConnectMaster, DisconnectMaster, OfflineCacheButton,
                        AddSlave, RemoveSlave
    <2>9. ASSUME NEW q \in ui.pending, CommandTimeout(q) PROVE Counts'
      <3>1. faults' \in 0 .. MaxFaults BY <2>1, <2>9 DEF CommandTimeout
      <3> QED BY <1>2, <2>9, <3>1 DEF CommandTimeout, Counts
    <2>10. CASE BreakIpc
      <3>1. Fault /\ up' = FALSE /\ UNCHANGED <<remoteAdd, acts>> BY <2>10 DEF BreakIpc
      <3>2. faults' \in 0 .. MaxFaults BY <2>1, <3>1
      <3> QED BY <1>2, <3>1, <3>2 DEF Counts
    <2>11. CASE OnReadyRead \/ ConnectIpc
      BY <1>2, <2>11 DEF OnReadyRead, ConnectIpc, Counts, countVars
    <2>12. ASSUME NEW t \in Threads, IpcServerSend(t) PROVE Counts'
      BY <1>2, <2>12 DEF IpcServerSend, Counts, countVars
    <2>13. ASSUME NEW s \in Slaves, Remote(s) PROVE Counts' BY <2>5, <2>13 DEF Remote
    <2>14. CASE UNCHANGED vars BY <1>2, <2>14 DEF vars, countVars, Counts
    <2> QED BY <1>2, <2>4, <2>6, <2>8, <2>9, <2>10, <2>11, <2>12, <2>13, <2>14
        DEF Next, Operation
  <1>3. IInv /\ Counts => TypeOK
    <2> SUFFICES ASSUME IInv, Counts PROVE TypeOK OBVIOUS
    <2>1. PICK k \in Kinds : Marked(k) BY DEF IInv
    <2>2. ui \in Screen /\ ui.seq \in Nat BY <2>1, StartWatched
    <2>3. Below(ui.seq) \subseteq Nat BY <2>2 DEF Below
    <2>4. /\ Seq(Frames(Below(ui.seq))) \subseteq Seq(Frames(Nat))
          /\ Seq(Commands(Below(ui.seq))) \subseteq Seq(Commands(Nat))
      BY <2>3, FramesGrow, CommandsGrow
    <2>5. /\ Heard(k, ui.seq) \subseteq Frames(Below(ui.seq))
          /\ Sent(k, ui.seq) \subseteq Commands(Below(ui.seq))
      BY DEF Heard, Sent
    <2>6. /\ Seq(Heard(k, ui.seq)) \subseteq Seq(Frames(Nat))
          /\ Seq(Sent(k, ui.seq)) \subseteq Seq(Commands(Nat))
      BY <2>4, <2>5
    <2>7. /\ toGw \in Seq(Commands(Nat)) /\ toUi \in Seq(Frames(Nat))
          /\ todo \in [Threads -> Seq(Frames(Nat))]
      BY <2>1, <2>6 DEF Marked
    <2> QED BY <2>1, <2>2, <2>7 DEF TypeOK, IInv, Boards, Counts, Marked
  <1> QED BY <1>1, <1>2, <1>3, NumbersKeepCommands, PTL DEF Spec

\* The overlay has the timer of a pending command, and a dialog that waits for a command
\* has that command's: when it runs out the overlay goes and the dialog is told.
TimersRun ==
  /\ ui.loading => \E p \in ui.pending : ~Expire(ui, p).loading
  /\ ui.add # NoSeq =>
        /\ ui.adding
        /\ \E p \in ui.pending : Expire(ui, p).add = NoSeq /\ ~Expire(ui, p).adding

\* A dialog that shows an addition under way goes on waiting for it, is told, or is left
\* alone because the port has gone offline.
DialogWaits ==
  [][ui.adding => \/ ui'.adding /\ ui'.add = ui.add
                  \/ ~ui'.adding
                  \/ ~ui'.master]_vars

\* TimersRun and DialogWaits: whatever is lost, late, failed or done by others, the
\* overlay always has a timer that takes it off, and the dialog has one that ends it until
\* the port is reported offline (widget.cpp:503-593, 1316-1353).  After that nothing need end it:
\* markMasterRuntimeOffline forgets the command it waits for.
THEOREM NobodyIsForgotten == Spec => []TimersRun /\ DialogWaits
  <1>1. IInv => TimersRun
    <2> SUFFICES ASSUME NEW kind \in Kinds, Marked(kind) PROVE TimersRun BY DEF IInv
    <2>1. ui \in Screen /\ Attended(ui, {}) BY DEF Marked, Numbers
    <2>2. ASSUME NEW p \in ui.pending
          PROVE  /\ ~Expire(ui, p).loading
                 /\ p.seq = ui.add => Expire(ui, p).add = NoSeq /\ ~Expire(ui, p).adding
      <3> DEFINE v == CompletePendingCommand(ui, p.seq)
                 x == IF ui.add = p.seq THEN AddResult(v) ELSE v
      <3>1. Expire(ui, p) = [x EXCEPT !.loading = FALSE] BY DEF Expire
      <3>2. v \in Screen BY <2>1, CompleteTyped
      <3> HIDE DEF v
      <3>3. AddResult(v).add = NoSeq /\ ~AddResult(v).adding /\ AddResult(v) \in Screen
        BY <3>2, ResultEases DEF AddResult, Eased, Screen
      <3> QED BY <3>1, <3>2, <3>3 DEF Screen
    <2> QED BY <2>1, <2>2 DEF Attended, TimersRun
  <1> DEFINE Waits == ui.adding => \/ ui'.adding /\ ui'.add = ui.add
                                   \/ ~ui'.adding
                                   \/ ~ui'.master
  <1>2. IInv /\ [Next]_vars => Waits BY NextKeeps DEF Kept
  <1>3. IInv /\ [Next]_vars => [Waits]_vars BY <1>2
  <1> HIDE DEF Waits
  <1>4. Spec => [][Waits]_vars BY <1>3, NumbersKeepCommands, PTL DEF Spec
  <1>5. Spec => []TimersRun BY <1>1, NumbersKeepCommands, PTL
  <1> QED BY <1>4, <1>5 DEF Waits, DialogWaits
=============================================================================
