------------------------- MODULE CommandLifeProofs -------------------------
(***************************************************************************)
(* Proofs about CommandLife, for any number of commands, channels, faults  *)
(* and any capacity of the pipe to Pc_ui.                                  *)
(*                                                                         *)
(* The invariants the run checks speak of the two ends of the chain; what  *)
(* makes them inductive is what is on the way.  Places numbers the         *)
(* commands by how far Pc_data has read the pipe; Waiting and Gateway say  *)
(* that a command reaches the gateway once, in order and before anybody    *)
(* has answered it; Answers that nothing in flight claims an execution     *)
(* that did not happen; Rows that the IPC thread's late 'sent' is about a  *)
(* command the MQTT thread cannot have taken; Wanted that a relay command  *)
(* carries what the open ones before it want.                              *)
(***************************************************************************)
EXTENDS CommandLife, TLAPS

Elems(s) == {s[i] : i \in 1 .. Len(s)}

\* The commands Pc_data has taken from the pipe are 1 .. Accepted.
Accepted == Len(cmds) - Len(uiOut)

Finished == {"success", "failed"}

\* The interface has closed the command, or will when it reads the pipe.
Closing(c) == \/ ui[c] \in Finished
              \/ \E m \in Elems(uiIn) : m.cmd = c /\ m.status \in Finished

\* An answer ok about c is true of what the gateway did, or c is mixed.
Honest(c, ok) == work[c] # "none" /\ (ok /\ c \notin mixed => work[c] = "done")

\* Where a command can be.
Places ==
  /\ Len(uiOut) <= Len(cmds)
  /\ \A i \in 1 .. Len(uiOut) : uiOut[i] = Accepted + i
  /\ \A c \in Ids : ui[c] = "none" <=> c > Len(cmds)
  /\ \A c \in Ids : c > Accepted => pend[c] = "absent" /\ work[c] = "none" /\ ~Closing(c)
  /\ \A m \in Elems(uiIn) : /\ m.cmd <= Accepted
                            /\ m.type = "command_ack" => m.status # "timeout"
                            /\ m.type = "command_log_update" => m.status # "sent"
  /\ \A t \in {ipc, rx, tm} : t.at # "idle" => t.cmd \in 1 .. Accepted

\* What waits for the gateway is open, untouched and in order.
Waiting ==
  /\ \A i, j \in 1 .. Len(down) : i < j => down[i] < down[j]
  /\ \A c \in Elems(down) : /\ c <= Accepted /\ work[c] = "none" /\ ~Closing(c)
                            /\ \A b \in Ids : work[b] # "none" => b < c
  /\ ipc.at # "idle" /\ ~ipc.ok => ipc.cmd \notin Elems(down)

\* The threads of the gateway and the global they share.
Gateway ==
  /\ gm.at = "exec" => /\ gm.cmd \in Ids /\ work[gm.cmd] = "taken"
                       /\ \A b \in Ids : work[b] # "none" => b <= gm.cmd
  /\ cur # NoCmd => gm.at = "exec" /\ cur = gm.cmd
  /\ Busy(gm) /\ Busy(gl) => gm.cmd \in mixed

\* No answer on its way lies.
Answers ==
  /\ \A a \in Elems(up) : a.cmd # NoCmd /\ Honest(a.cmd, a.ok)
  /\ rx.at # "idle" => Honest(rx.cmd, rx.ok)
  /\ \A m \in Elems(uiIn) : m.status = "success" => Honest(m.cmd, TRUE)
  /\ \A c \in Ids : ui[c] = "success" => Honest(c, TRUE)

\* A row still to be written 'sent' is of a command nobody has answered.
Rows ==
  /\ ipc.at = "log" => /\ pend[ipc.cmd] = "absent" /\ ~Closing(ipc.cmd)
                       /\ rx.at # "idle" => rx.cmd # ipc.cmd
  /\ ipc.at = "reply" /\ ~ipc.ok => log[ipc.cmd] \notin {"pending", "sent"}
  /\ \A c \in Ids : Closing(c) => \/ log[c] \notin {"pending", "sent"}
                                  \/ rx.at = "log" /\ rx.cmd = c

\* A relay command wants what the ones open before it want.
Wanted ==
  \A b, c \in 1 .. Len(cmds) :
    b < c /\ cmds[b].kind = "set_relay" /\ cmds[c].kind = "set_relay" /\ ui[b] \in Open =>
      /\ cmds[b].ch # cmds[c].ch
      /\ cmds[c].states[cmds[b].ch] = cmds[b].val

IInv == TypeOK /\ Places /\ Waiting /\ Gateway /\ Answers /\ Rows /\ Wanted
-----------------------------------------------------------------------------
\* Sequences

\* A message written to a pipe or topic.
LEMMA AppendElems ==
  ASSUME NEW T, NEW s \in Seq(T), NEW e \in T, NEW t, t = Append(s, e)
  PROVE  /\ t \in Seq(T) /\ Len(t) = Len(s) + 1 /\ Len(s) \in Nat
         /\ t[Len(s) + 1] = e /\ \A i \in 1 .. Len(s) : t[i] = s[i]
OBVIOUS

\* The same of the set of what is in it.
LEMMA AppendSet ==
  ASSUME NEW T, NEW s \in Seq(T), NEW e \in T
  PROVE  /\ Append(s, e) \in Seq(T)
         /\ \A x : x \in Elems(Append(s, e)) <=> x \in Elems(s) \/ x = e
<1>1. /\ Append(s, e) \in Seq(T) /\ Len(Append(s, e)) = Len(s) + 1 /\ Len(s) \in Nat
      /\ Append(s, e)[Len(s) + 1] = e /\ \A i \in 1 .. Len(s) : Append(s, e)[i] = s[i]
  OBVIOUS
<1>2. 1 .. Len(Append(s, e)) = (1 .. Len(s)) \cup {Len(s) + 1}
  BY <1>1
<1> QED BY <1>1, <1>2 DEF Elems

\* A message read from one.
LEMMA TailElems ==
  ASSUME NEW T, NEW s \in Seq(T), s # <<>>, NEW t, t = Tail(s)
  PROVE  /\ t \in Seq(T) /\ Len(t) = Len(s) - 1 /\ Len(s) \in Nat \ {0}
         /\ Head(s) = s[1] /\ Head(s) \in T /\ Head(s) \in Elems(s)
         /\ \A i \in 1 .. Len(t) : i + 1 \in 1 .. Len(s) /\ t[i] = s[i + 1]
         /\ Elems(t) \subseteq Elems(s)
<1>1. /\ t \in Seq(T) /\ Len(t) = Len(s) - 1 /\ Len(s) \in Nat \ {0}
      /\ Head(s) = s[1] /\ Head(s) \in T /\ 1 \in 1 .. Len(s)
      /\ \A i \in 1 .. Len(t) : i + 1 \in 1 .. Len(s) /\ t[i] = s[i + 1]
  OBVIOUS
<1> QED BY <1>1 DEF Elems

\* What a pipe or topic holds has the type of its messages.
LEMMA ElemsTyped ==
  ASSUME NEW T, NEW s \in Seq(T)
  PROVE  \A x \in Elems(s) : x \in T
BY DEF Elems

-----------------------------------------------------------------------------
\* What the relay board's reading becomes

\* The larger of the numbers a pack counts its channels by.
LEMMA MaxIs ==
  ASSUME NEW S \in SUBSET Nat, NEW m \in S, \A y \in S : m >= y
  PROVE  Max(S) = m
<1>1. \A x \in S : (\A y \in S : x >= y) => x = m
  OBVIOUS
<1> QED BY <1>1 DEF Max

\* A pack of a relay board that lists the channels S, read by Pc_data:
\* every channel of the board is there, and one without a point is off.
LEMMA RelayShown ==
  ASSUME NEW r \in States, NEW S \in SUBSET Channels, NEW top \in S, \A c \in S : c <= top,
         NEW j, j.type = "relay", j.valid = TRUE, j.channelCount = ChannelCount,
         j.points = [c \in S |-> r[c]]
  PROVE  ShownByPcUi(j) = [c \in Channels |-> c \in S /\ r[c]]
<1>1. ChannelCount \in 1 .. 16 /\ Channels = 1 .. ChannelCount /\ top \in 1 .. ChannelCount
  BY PackAssumption DEF Channels
<1>2. /\ DOMAIN j.points = S /\ S # {} /\ \A c \in S : j.points[c] = r[c]
      /\ j.type = "relay" /\ j.valid = TRUE /\ j.channelCount = ChannelCount
  OBVIOUS
<1>3. MaxPointChannel(j) = top
  <2> DEFINE T == {0} \cup {c \in DOMAIN j.points : c <= 64}
  <2>1. \A c \in S : c \in Nat /\ c <= 64 /\ top >= c
    BY <1>1
  <2>2. T = {0} \cup S
    BY <1>2, <2>1
  <2> HIDE DEF T
  <2>3. T \in SUBSET Nat /\ top \in T /\ \A y \in T : top >= y
    BY <1>1, <2>1, <2>2
  <2>4. Max(T) = top
    BY <2>3, MaxIs
  <2> QED BY <2>4 DEF T, MaxPointChannel
<1>4. RelayChannelCount(j) = ChannelCount
  <2> DEFINE T == {ChannelCount, top}
  <2>1. T \in SUBSET Nat /\ ChannelCount \in T /\ \A y \in T : ChannelCount >= y
    BY <1>1
  <2>2. T = {j.channelCount, MaxPointChannel(j)}
    BY <1>2, <1>3
  <2>3. j.channelCount \in 1 .. 64
    BY <1>1
  <2> HIDE DEF T
  <2>4. Max(T) = ChannelCount
    BY <2>1, MaxIs
  <2> QED BY <2>2, <2>3, <2>4 DEF RelayChannelCount
<1> DEFINE v == [k \in Channels |-> IF k \in S THEN r[k] ELSE FALSE]
           d == [type |-> "relay", valid |-> TRUE, channelCount |-> ChannelCount, val |-> v]
<1>5. ParseJson(j) = d
  <2>1. \A k \in Channels : Parsed(j, k) = v[k]
    BY <1>2 DEF Parsed
  <2> DEFINE w == [k \in 1 .. ChannelCount |-> IF j.type = "relay" /\ k \notin Channels THEN FALSE
                                               ELSE Parsed(j, k)]
  <2>2. w = v
    BY <1>1, <2>1
  <2>3. ParseJson(j) = [type |-> "relay", valid |-> TRUE, channelCount |-> ChannelCount, val |-> w]
    <3> HIDE DEF v
    <3> QED BY <1>2, <1>4 DEF ParseJson
  <2> HIDE DEF v, w
  <2> QED BY <2>2, <2>3
<1>6. ToTelemetryPoints(d) = v
  <2>1. d.type = "relay" /\ d.channelCount = ChannelCount /\ d.val = v
    OBVIOUS
  <2> HIDE DEF d
  <2>2. RelayPoints(d) = v
    <3>1. (IF d.channelCount > 64 THEN 64 ELSE d.channelCount) = ChannelCount
      BY <1>1, <2>1
    <3>2. RelayPoints(d) = [k \in Channels |-> v[k]]
      <4> HIDE DEF v
      <4> QED BY <1>1, <2>1, <3>1 DEF RelayPoints, Points
    <3> QED BY <3>2
  <2> QED BY <2>1, <2>2 DEF ToTelemetryPoints
<1>7. KnownPoints("relay", v, {}) = v
  BY <1>1 DEF KnownPoints, DefaultPointKeys, RelayPointKeys, Restrict
<1>8. ShownByPcUi(j) = v
  <2>1. d.type = "relay" /\ d.valid = TRUE
    OBVIOUS
  <2> HIDE DEF d, v
  <2> QED BY <1>5, <1>6, <1>7, <2>1 DEF ShownByPcUi, ApplyPointToTypedFields
<1>9. \A c \in Channels : r[c] \in BOOLEAN
  BY DEF States
<1>10. v = [c \in Channels |-> c \in S /\ r[c]]
  BY <1>9
<1> QED BY <1>8, <1>10

\* A reading of a board on the screen of Pc_ui: some states of its channels.
LEMMA RelayPacks ==
  ASSUME NEW r \in States
  PROVE  ShownByPcUi(PackDevice(RelayReading(r))) \in States
<1> DEFINE j == [type |-> "relay", valid |-> TRUE, fields |-> r,
                 channelCount |-> ChannelCount, points |-> [c \in {1} |-> r[c]]]
<1>1. PackDevice(RelayReading(r)) = j
  BY DEF PackDevice, RelayReading, PackedPoints, Restrict
<1>2. {1} \in SUBSET Channels /\ \A c \in {1} : c <= 1
  BY PackAssumption DEF Channels
<1>3. ShownByPcUi(j) = [c \in Channels |-> c \in {1} /\ r[c]]
  BY <1>2, RelayShown
<1> HIDE DEF j
<1> QED BY <1>1, <1>3 DEF States

\* Every field of a sensor or a meter reaches the screen of Pc_ui with the
\* value that was read, whether the pack lists it as a point (pack_device_json)
\* or not: neither the parser nor the filter of known points loses one or
\* takes one for another.
THEOREM SensorReadingShown ==
  ASSUME NEW type \in {"sensor_th", "electric_meter"}, NEW Value, NEW v \in [Fields(type) -> Value]
  PROVE  ShownByPcUi(PackDevice([type |-> type, valid |-> TRUE, val |-> v])) = v
<1> DEFINE F == IF type = "sensor_th" THEN {"temperature", "humidity"}
                ELSE {"voltage", "current", "power", "energy"}
           P == IF type = "sensor_th" THEN F ELSE {}
           j == [type |-> type, valid |-> TRUE, fields |-> v, channelCount |-> 0,
                 points |-> [f \in P |-> v[f]]]
           d == [type |-> type, valid |-> TRUE, channelCount |-> 0, val |-> v]
<1>1. Fields(type) = F /\ DefaultPointKeys(type) = F /\ PackedPoints(type) = P
  BY DEF Fields, DefaultPointKeys, PackedPoints
<1>2. v = [f \in F |-> v[f]] /\ DOMAIN v = F
  BY <1>1
<1>3. type # "relay" /\ type # "sysinfo" /\ P \subseteq F
  OBVIOUS
<1> HIDE DEF F, P
<1>4. PackDevice([type |-> type, valid |-> TRUE, val |-> v]) = j
  BY <1>1, <1>3 DEF PackDevice, Restrict
<1>5. \A k \in F : Parsed(j, k) = v[k]
  <2>1. j.type # "relay" /\ DOMAIN j.points = P /\ \A k \in P : j.points[k] = v[k]
    BY <1>3
  <2>2. j.fields = v
    OBVIOUS
  <2> HIDE DEF j
  <2> QED BY <2>1, <2>2 DEF Parsed
<1>6. ParseJson(j) = d
  <2>1. j.type = type /\ j.valid = TRUE
    OBVIOUS
  <2> HIDE DEF j
  <2>2. [k \in F |-> Parsed(j, k)] = v
    BY <1>2, <1>5
  <2> QED BY <1>1, <1>3, <2>1, <2>2 DEF ParseJson
<1>7. ToTelemetryPoints(d) = v
  <2>1. d.type = type /\ d.val = v
    OBVIOUS
  <2> HIDE DEF d
  <2>2. Points(d, F) = v
    BY <1>2, <2>1 DEF Points
  <2>3. ToTelemetryPoints(d) = Points(d, F)
    BY <2>1 DEF ToTelemetryPoints, TemperatureHumidityPoints, ElectricMeterPoints, F
  <2> QED BY <2>2, <2>3
<1>8. KnownPoints(type, v, {}) = v
  BY <1>1, <1>2 DEF KnownPoints, Restrict
<1>9. d.type = type /\ d.valid = TRUE
  OBVIOUS
<1> HIDE DEF d, j
<1> QED BY <1>3, <1>4, <1>6, <1>7, <1>8, <1>9 DEF ShownByPcUi, ApplyPointToTypedFields

-----------------------------------------------------------------------------
\* An acknowledgement on MQTT.
Ack == [cmd : Ids \cup {NoCmd}, ok : BOOLEAN, port : BOOLEAN]

\* What is in the pipes and topics, and what the threads hold.
LEMMA Contents ==
  ASSUME TypeOK, Places
  PROVE  /\ \A c \in Elems(down) : c \in Ids
         /\ \A m \in Elems(uiIn) : m \in Message
         /\ \A a \in Elems(up) : a \in Ack
         /\ Accepted \in Nat /\ Accepted <= Len(cmds) /\ Len(cmds) \in Nat /\ Len(cmds) <= MaxCmd
         /\ \A t \in {ipc, rx, tm} : t.at # "idle" => t.cmd \in Ids /\ t.cmd <= Accepted
<1>1. /\ down \in Seq(Ids) /\ uiIn \in Seq(Message) /\ up \in Seq(Ack)
      /\ cmds \in Seq(Command) /\ uiOut \in Seq(Ids)
  BY DEF TypeOK, Ack
<1>2. /\ \A c \in Elems(down) : c \in Ids
      /\ \A m \in Elems(uiIn) : m \in Message
      /\ \A a \in Elems(up) : a \in Ack
  BY <1>1, ElemsTyped
<1>3. Accepted \in Nat /\ Accepted <= Len(cmds) /\ Len(cmds) \in Nat /\ Len(cmds) <= MaxCmd
  BY <1>1 DEF Places, Accepted, TypeOK
<1>4. \A t \in {ipc, rx, tm} : t.at # "idle" => t.cmd \in Ids /\ t.cmd <= Accepted
  BY <1>3, BoundsAssumption DEF Places, Ids
<1> QED BY <1>2, <1>3, <1>4

-----------------------------------------------------------------------------
\* Pc_ui

\* A command is issued: it has the next number, and is nowhere else yet.
LEMMA IssueInv ==
  ASSUME IInv, NEW command \in Command, Issue(command),
         UNCHANGED <<shown, uiIn, pcVars, netVars, gwVars, faults>>,
         command.kind = "set_relay" =>
           \A b \in 1 .. Len(cmds) : cmds[b].kind = "set_relay" /\ ui[b] \in Open =>
             cmds[b].ch # command.ch /\ command.states[cmds[b].ch] = cmds[b].val
  PROVE  IInv'
<1> DEFINE id == Len(cmds) + 1
<1> USE DEF IInv
<1>1. /\ id \in Ids /\ cmds' = Append(cmds, command) /\ uiOut' = Append(uiOut, id)
      /\ ui' = [ui EXCEPT ![id] = "pending"]
  BY DEF Issue
<1>2. /\ cmds' \in Seq(Command) /\ Len(cmds') = Len(cmds) + 1 /\ Len(cmds) \in Nat
      /\ cmds'[id] = command /\ \A i \in 1 .. Len(cmds) : cmds'[i] = cmds[i]
  <2>1. cmds \in Seq(Command)
    BY DEF TypeOK
  <2> HIDE DEF IInv
  <2> QED BY <1>1, <2>1, AppendElems
<1>3. /\ uiOut' \in Seq(Ids) /\ Len(uiOut') = Len(uiOut) + 1 /\ Len(uiOut) \in Nat
      /\ uiOut'[Len(uiOut) + 1] = id /\ \A i \in 1 .. Len(uiOut) : uiOut'[i] = uiOut[i]
  <2>1. uiOut \in Seq(Ids)
    BY DEF TypeOK
  <2> HIDE DEF IInv, id
  <2> QED BY <1>1, <2>1, AppendElems
<1>4. Accepted' = Accepted /\ Accepted \in Int
  BY <1>2, <1>3 DEF Accepted
<1>5. /\ ui' \in [Ids -> {"none", "success", "failed"} \cup Open] /\ ui'[id] = "pending"
      /\ \A c \in Ids \ {id} : ui'[c] = ui[c]
  BY <1>1 DEF TypeOK, Open
<1>6. ui[id] = "none" /\ uiIn' = uiIn
  BY <1>1, <1>2 DEF Places
<1>7. \A c \in Ids : Closing(c)' <=> Closing(c)
  BY <1>5, <1>6 DEF Closing, Finished
<1>8. TypeOK'
  BY <1>1, <1>2, <1>3, <1>5, BoundsAssumption DEF TypeOK, pcVars, netVars, gwVars, Ids
<1>9. Places'
  <2>1. \A i \in 1 .. Len(uiOut') : uiOut'[i] = Accepted' + i
    <3>1. \A i \in 1 .. Len(uiOut) : uiOut[i] = Accepted + i
      BY DEF Places
    <3>2. id = Accepted + (Len(uiOut) + 1)
      BY <1>2, <1>3 DEF Accepted
    <3> HIDE DEF IInv, id
    <3>3. \A i \in 1 .. Len(uiOut') : i \in 1 .. Len(uiOut) \/ i = Len(uiOut) + 1
      BY <1>3
    <3> QED BY <1>3, <1>4, <3>1, <3>2, <3>3
  <2>2. \A c \in Ids : ui'[c] = "none" <=> c > Len(cmds')
    BY <1>1, <1>2, <1>5, BoundsAssumption DEF Places, Ids
  <2> QED BY <1>2, <1>3, <1>4, <1>6, <1>7, <2>1, <2>2 DEF Places, pcVars, gwVars
<1>10. Waiting'
  <2>1. down' = down /\ work' = work /\ ipc' = ipc
    BY DEF netVars, gwVars, pcVars
  <2>2. \A c \in Elems(down) : c \in Ids
    <3>1. TypeOK /\ Places
      OBVIOUS
    <3> HIDE DEF IInv
    <3> QED BY <3>1, Contents
  <2> QED BY <1>4, <1>7, <2>1, <2>2 DEF Waiting
<1>11. Gateway' /\ Answers'
  BY <1>5, <1>6 DEF Gateway, Answers, Honest, Busy, gwVars, netVars, pcVars
<1>12. Rows'
  <2>1. ipc.at # "idle" => ipc.cmd \in Ids
    BY <1>1, <1>2, <1>3, BoundsAssumption DEF Places, Accepted, Ids
  <2> QED BY <1>7, <2>1 DEF Rows, pcVars
<1>13. Wanted'
  BY <1>1, <1>2, <1>5, BoundsAssumption DEF Wanted, Ids, Open
<1> QED BY <1>8, <1>9, <1>10, <1>11, <1>12, <1>13

\* sendRelayCommand: the channel has no open command, and the wanted states of
\* the other channels are those of the commands still open.
LEMMA SendRelayInv ==
  ASSUME IInv, NEW ch \in Channels, SendRelayCommand(ch)
  PROVE  IInv'
<1> DEFINE st == DesiredStates(ch, ~shown[ch])
           command == [kind |-> "set_relay", ch |-> ch, val |-> ~shown[ch], states |-> st]
<1>1. cmds \in Seq(Command) /\ shown \in States /\ Len(cmds) \in Nat
  BY DEF IInv, TypeOK
<1>2. \A c \in 1 .. Len(cmds) : cmds[c] \in Command
  BY <1>1
<1>3. \A x \in Channels : PendingRelay(x) # {} =>
        (CHOOSE c \in PendingRelay(x) : TRUE) \in PendingRelay(x)
  OBVIOUS
<1>4. st \in States
  <2>1. \A x \in Channels : \A c \in PendingRelay(x) : cmds[c].val \in BOOLEAN
    BY <1>2 DEF PendingRelay, Command
  <2> QED BY <1>1, <1>3, <2>1 DEF DesiredStates, States
<1>5. command \in Command
  <2>1. (~shown[ch]) \in BOOLEAN /\ "set_relay" \in Kinds
    <3>1. shown[ch] \in BOOLEAN
      BY <1>1 DEF States
    <3>2. (~shown[ch]) \in BOOLEAN
      BY <3>1, Zenon
    <3> QED BY <3>2 DEF Kinds
  <2> HIDE DEF st
  <2> QED BY <1>4, <2>1 DEF Command
<1>6. ASSUME NEW b \in 1 .. Len(cmds), cmds[b].kind = "set_relay", ui[b] \in Open
      PROVE  cmds[b].ch # ch /\ st[cmds[b].ch] = cmds[b].val
  <2> DEFINE x == cmds[b].ch
             k == CHOOSE c \in PendingRelay(x) : TRUE
  <2>1. x \in Channels /\ b \in PendingRelay(x)
    BY <1>2, <1>6 DEF Command, PendingRelay
  <2>2. x # ch
    <3>1. PendingRelay(ch) = {}
      BY DEF SendRelayCommand
    <3> HIDE DEF x
    <3> QED BY <2>1, <3>1
  <2>3. k \in PendingRelay(x)
    BY <1>3, <2>1
  <2>4. k = b
    <3>1. /\ k \in 1 .. Len(cmds) /\ cmds[k].kind = "set_relay" /\ cmds[k].ch = x /\ ui[k] \in Open
          /\ b \in 1 .. Len(cmds)
      BY <2>3 DEF PendingRelay
    <3> HIDE DEF k
    <3>2. ~(k < b) /\ ~(b < k)
      BY <1>6, <3>1 DEF IInv, Wanted
    <3> QED BY <1>1, <3>1, <3>2
  <2>5. st[x] = cmds[k].val
    BY <2>1, <2>2 DEF DesiredStates
  <2> QED BY <2>2, <2>4, <2>5
<1>7. Issue(command) /\ command.ch = ch /\ command.states = st
      /\ UNCHANGED <<shown, uiIn, pcVars, netVars, gwVars, faults>>
  BY DEF SendRelayCommand
<1> HIDE DEF command, st
<1> QED BY <1>5, <1>6, <1>7, IssueInv

\* sendDeviceCommand: it touches no channel.
LEMMA SendDeviceInv ==
  ASSUME IInv, NEW kind \in DeviceKinds, SendDeviceCommand(kind)
  PROVE  IInv'
<1> DEFINE command == [kind |-> kind, ch |-> CHOOSE ch \in Channels : TRUE, val |-> FALSE,
                       states |-> [ch \in Channels |-> FALSE]]
<1>1. (CHOOSE ch \in Channels : TRUE) \in Channels
  <2>1. 1 \in Channels
    BY PackAssumption DEF Channels
  <2> QED BY <2>1
<1>2. command \in Command
  BY <1>1 DEF Command, Kinds, States
<1>3. command.kind # "set_relay"
  BY BoundsAssumption
<1>4. Issue(command) /\ UNCHANGED <<shown, uiIn, pcVars, netVars, gwVars, faults>>
  BY DEF SendDeviceCommand
<1> HIDE DEF command
<1> QED BY <1>2, <1>3, <1>4, IssueInv

\* The board's states reach the screen.
LEMMA ShowStatesInv ==
  ASSUME IInv, ShowStates
  PROVE  IInv'
<1>1. shown' \in States
  BY RelayPacks DEF ShowStates, IInv, TypeOK
<1>2. TypeOK'
  BY <1>1 DEF IInv, TypeOK, ShowStates, pipeVars, pcVars, netVars, gwVars
<1> QED
  BY <1>2 DEF IInv, ShowStates, pipeVars, pcVars, netVars, gwVars, Places, Waiting, Gateway, Answers,
              Rows, Wanted, Accepted, Closing, Honest, Busy

\* The interface reads one message.  What it closes was closing already, and
\* what it leaves open was open.
LEMMA UiReceiveInv ==
  ASSUME IInv, UiReceive
  PROVE  IInv'
<1> DEFINE m == Head(uiIn)
<1>1. TypeOK /\ Places /\ Waiting /\ Gateway /\ Answers /\ Rows /\ Wanted
  BY DEF IInv
<1>2. uiIn' \in Seq(Message) /\ m \in Elems(uiIn) /\ Elems(uiIn') \subseteq Elems(uiIn)
  <2>1. uiIn \in Seq(Message) /\ uiIn # <<>> /\ uiIn' = Tail(uiIn)
    BY <1>1 DEF UiReceive, TypeOK
  <2> QED BY <2>1, TailElems
<1>3. m \in Message /\ m.cmd \in Ids
  <2>1. m \in Message
    BY <1>1, <1>2, Contents
  <2> QED BY <2>1 DEF Message
<1>4. /\ m.type = "command_ack" => m.status \in {"sent", "success", "failed"}
      /\ m.type = "command_log_update" => m.status \in {"timeout", "success", "failed"}
      /\ m.type \in {"command_ack", "command_log_update"}
  <2>1. /\ m.type = "command_ack" => m.status # "timeout"
        /\ m.type = "command_log_update" => m.status # "sent"
    BY <1>1, <1>2 DEF Places
  <2> QED BY <1>3, <2>1 DEF Message
<1> DEFINE v == IF m.type = "command_ack" THEN OnCommandAck(m) ELSE OnCommandLogUpdate(m)
<1>5. /\ v \in {"success", "failed", "running", "timeout_waiting_ack"}
      /\ v \in Finished => m.status = v
  BY <1>4 DEF OnCommandAck, OnCommandLogUpdate, Finished
<1>6. /\ ui' \in [Ids -> {"none", "success", "failed"} \cup Open]
      /\ \A c \in Ids : \/ ui'[c] = ui[c]
                        \/ c = m.cmd /\ ui[c] \in Open /\ ui'[c] = v
  <2>1. ui \in [Ids -> {"none", "success", "failed"} \cup Open]
    BY <1>1 DEF TypeOK
  <2>2. ui' = IF ui[m.cmd] \in Open THEN [ui EXCEPT ![m.cmd] = v] ELSE ui
    BY DEF UiReceive, StillPending
  <2> HIDE DEF v, m
  <2> QED BY <1>3, <1>5, <2>1, <2>2 DEF Open
<1> HIDE DEF v
<1>7. /\ \A c \in Ids : ui'[c] \in Open => ui[c] \in Open
      /\ \A c \in Ids : ui'[c] = "none" <=> ui[c] = "none"
      /\ \A c \in Ids : ui'[c] = "success" => ui[c] = "success" \/ (m.cmd = c /\ m.status = "success")
  BY <1>5, <1>6 DEF Open, Finished
<1>8. \A c \in Ids : Closing(c)' => Closing(c)
  BY <1>2, <1>5, <1>6 DEF Closing, Finished
<1>9. UNCHANGED <<cmds, shown, uiOut, pcVars, netVars, gwVars, faults>> /\ Accepted' = Accepted
  BY DEF UiReceive, Accepted
<1>10. /\ \A c \in Elems(down) : c \in Ids
       /\ \A t \in {ipc, rx, tm} : t.at # "idle" => t.cmd \in Ids
       /\ Len(cmds) \in Nat /\ Len(cmds) <= MaxCmd
  BY <1>1, Contents
<1> HIDE DEF m
<1>11. TypeOK'
  BY <1>1, <1>2, <1>6, <1>9 DEF TypeOK, pcVars, netVars, gwVars
<1>12. Places'
  BY <1>1, <1>2, <1>7, <1>8, <1>9 DEF Places, pcVars, gwVars
<1>13. Waiting'
  BY <1>1, <1>8, <1>9, <1>10 DEF Waiting, pcVars, netVars, gwVars
<1>14. Gateway'
  BY <1>1, <1>9 DEF Gateway, Busy, gwVars
<1>15. Answers'
  BY <1>1, <1>2, <1>7, <1>9 DEF Answers, Honest, pcVars, netVars, gwVars
<1>16. Rows'
  BY <1>1, <1>8, <1>9, <1>10 DEF Rows, pcVars
<1>17. Wanted'
  <2>1. 1 .. Len(cmds) \subseteq Ids
    BY <1>10, BoundsAssumption DEF Ids
  <2> QED BY <1>1, <1>7, <1>9, <2>1 DEF Wanted
<1> QED BY <1>11, <1>12, <1>13, <1>14, <1>15, <1>16, <1>17 DEF IInv

-----------------------------------------------------------------------------
\* The pipe to Pc_ui

MsgTypes == {"command_ack", "command_log_update"}
MsgStatuses == {"sent", "timeout", "success", "failed"}

\* sendMessage: the pipe has one message more, and the command it names may
\* be closing now.
LEMMA Delivered ==
  ASSUME TypeOK, ui' = ui, NEW type \in MsgTypes, NEW c \in Ids, NEW status \in MsgStatuses,
         Deliver(type, c, status)
  PROVE  /\ uiIn' \in Seq(Message)
         /\ \A m \in Elems(uiIn') : \/ m \in Elems(uiIn)
                                    \/ m.type = type /\ m.cmd = c /\ m.status = status
         /\ \A b \in Ids : Closing(b)' => Closing(b) \/ (b = c /\ status \in Finished)
<1> DEFINE msg == [type |-> type, cmd |-> c, status |-> status]
<1>1. msg \in Message /\ msg.type = type /\ msg.cmd = c /\ msg.status = status
  BY DEF Message, MsgTypes, MsgStatuses
<1>2. uiIn \in Seq(Message) /\ uiIn' = Append(uiIn, msg)
  BY DEF TypeOK, Deliver
<1> HIDE DEF msg
<1>3. uiIn' \in Seq(Message) /\ \A x : x \in Elems(uiIn') <=> x \in Elems(uiIn) \/ x = msg
  <2>1. msg \in Message
    BY <1>1
  <2> QED BY <1>2, <2>1, AppendSet
<1>4. \A m \in Elems(uiIn') : \/ m \in Elems(uiIn)
                              \/ m.type = type /\ m.cmd = c /\ m.status = status
  BY <1>1, <1>3
<1>5. \A b \in Ids : Closing(b)' => Closing(b) \/ (b = c /\ status \in Finished)
  BY <1>4 DEF Closing
<1> QED BY <1>3, <1>4, <1>5

-----------------------------------------------------------------------------
\* Pc_data, IPC thread

\* A command is taken from the pipe: it is the one after those taken before,
\* and nobody else knows of it.
LEMMA AcceptInv ==
  ASSUME IInv, ipc.at = "idle", uiOut # <<>>, NEW connected \in BOOLEAN,
         Accept(Head(uiOut), connected)
  PROVE  IInv'
<1> DEFINE c == Head(uiOut)
<1>1. TypeOK /\ Places /\ Waiting /\ Gateway /\ Answers /\ Rows /\ Wanted
  BY DEF IInv
<1>2. /\ uiOut' \in Seq(Ids) /\ Len(uiOut') = Len(uiOut) - 1 /\ Len(uiOut) \in Nat \ {0}
      /\ c = uiOut[1] /\ c \in Ids
      /\ \A i \in 1 .. Len(uiOut') : i + 1 \in 1 .. Len(uiOut) /\ uiOut'[i] = uiOut[i + 1]
  <2>1. uiOut \in Seq(Ids) /\ uiOut' = Tail(uiOut)
    BY <1>1 DEF TypeOK, Accept
  <2> QED BY <2>1, TailElems
<1>3. UNCHANGED <<uiVars, pend, rx, tm, up, gwVars, faults>>
  BY DEF Accept
<1>4. /\ Accepted \in Nat /\ Accepted <= Len(cmds) /\ Len(cmds) \in Nat
      /\ \A b \in Elems(down) : b \in Ids /\ b <= Accepted
      /\ \A t \in {rx, tm} : t.at # "idle" => t.cmd \in Ids /\ t.cmd <= Accepted
  BY <1>1, Contents DEF Waiting
<1>5. Accepted' = Accepted + 1 /\ c = Accepted + 1
  BY <1>1, <1>2, <1>3, <1>4 DEF Accepted, Places, uiVars
<1>6. /\ Len(uiOut') <= Len(cmds')
      /\ \A i \in 1 .. Len(uiOut') : uiOut'[i] = Accepted' + i
  <2>1. Len(uiOut) <= Len(cmds) /\ \A i \in 1 .. Len(uiOut) : uiOut[i] = Accepted + i
    BY <1>1 DEF Places
  <2>2. cmds' = cmds
    BY <1>3 DEF uiVars
  <2> QED BY <1>2, <1>4, <1>5, <2>1, <2>2
<1>7. pend[c] = "absent" /\ work[c] = "none" /\ ~Closing(c)
  BY <1>1, <1>2, <1>4, <1>5 DEF Places
<1>8. \A b \in Ids : b > Accepted' => b > Accepted /\ b # c
  BY <1>4, <1>5 DEF Ids
<1>9. \A b \in Ids : work[b] # "none" => b < c
  BY <1>1, <1>4, <1>5, BoundsAssumption DEF Places, Ids
<1> HIDE DEF c
<1>10. Gateway' /\ Wanted'
  BY <1>1, <1>3 DEF Gateway, Wanted, Busy, gwVars, uiVars
<1>11. CASE connected
  <2> PICK published \in BOOLEAN :
            /\ log' = [log EXCEPT ![c] = "pending"]
            /\ down' = IF published THEN Append(down, c) ELSE down
            /\ ipc' = [at |-> "log", cmd |-> c, ok |-> published]
            /\ uiIn' = uiIn
    BY <1>11 DEF Accept, c
  <2>1. ipc' \in Thread({"log", "reply"}) /\ ipc'.at = "log" /\ ipc'.cmd = c /\ ipc'.ok = published
    BY <1>2 DEF Thread
  <2>2. /\ down' \in Seq(Ids)
        /\ \A x : x \in Elems(down') <=> x \in Elems(down) \/ (published /\ x = c)
    <3>1. down \in Seq(Ids)
      BY <1>1 DEF TypeOK
    <3> QED BY <1>2, <3>1, AppendSet
  <2>3. \A i, j \in 1 .. Len(down') : i < j => down'[i] < down'[j]
    <3>1. down \in Seq(Ids) /\ \A i, j \in 1 .. Len(down) : i < j => down[i] < down[j]
      BY <1>1 DEF TypeOK, Waiting
    <3>2. CASE ~published
      BY <3>1, <3>2
    <3>3. CASE published
      <4>1. /\ Len(down') = Len(down) + 1 /\ Len(down) \in Nat
            /\ down'[Len(down) + 1] = c /\ \A i \in 1 .. Len(down) : down'[i] = down[i]
        BY <1>2, <3>1, <3>3, AppendElems
      <4>2. \A i \in 1 .. Len(down) : down[i] \in Elems(down)
        BY DEF Elems
      <4>3. \A i \in 1 .. Len(down) : down[i] < c
        BY <1>4, <1>5, <4>2 DEF Ids
      <4> QED BY <3>1, <4>1, <4>3
    <3> QED BY <3>2, <3>3
  <2>4. \A b \in Ids : Closing(b)' <=> Closing(b)
    BY <1>3 DEF Closing, uiVars
  <2>5. log' \in [Ids -> {"none", "pending", "sent", "success", "failed", "timeout"}]
        /\ \A b \in Ids \ {c} : log'[b] = log[b]
    BY <1>1, <1>2 DEF TypeOK
  <2>6. TypeOK'
    BY <1>1, <1>2, <1>3, <2>1, <2>2, <2>5 DEF TypeOK, uiVars, gwVars
  <2>7. Places'
    <3>1. \A t \in {ipc', rx', tm'} : t.at # "idle" => t.cmd \in 1 .. Accepted'
      <4>1. rx' = rx /\ tm' = tm
        BY <1>3
      <4> QED BY <1>2, <1>4, <1>5, <2>1, <4>1 DEF Ids
    <3>2. \A m \in Elems(uiIn') : m.cmd <= Accepted'
      <4>1. \A m \in Elems(uiIn) : m.cmd \in Ids /\ m.cmd <= Accepted
        BY <1>1, Contents DEF Places, Message
      <4> QED BY <1>4, <1>5, <4>1 DEF Ids
    <3> QED BY <1>1, <1>3, <1>6, <1>8, <2>4, <3>1, <3>2 DEF Places, uiVars, gwVars
  <2>8. Waiting'
    <3>1. \A x \in Elems(down') : /\ x <= Accepted' /\ work'[x] = "none" /\ ~Closing(x)'
                                  /\ \A b \in Ids : work'[b] # "none" => b < x
      <4>1. ASSUME NEW x \in Elems(down)
            PROVE  /\ x <= Accepted' /\ work'[x] = "none" /\ ~Closing(x)'
                   /\ \A b \in Ids : work'[b] # "none" => b < x
        <5>1. x \in Ids /\ x <= Accepted
          BY <1>4
        <5> QED BY <1>1, <1>3, <1>4, <1>5, <2>4, <5>1 DEF Waiting, gwVars, Ids
      <4> QED BY <1>2, <1>3, <1>5, <1>7, <1>9, <2>2, <2>4, <4>1 DEF gwVars, Ids
    <3>2. c \notin Elems(down)
      BY <1>4, <1>5 DEF Ids
    <3> QED BY <2>1, <2>2, <2>3, <3>1, <3>2 DEF Waiting
  <2>9. Answers'
    BY <1>1, <1>3 DEF Answers, Honest, uiVars, gwVars
  <2>10. Rows'
    <3>1. rx.at # "idle" => rx.cmd # c
      BY <1>4, <1>5 DEF Ids
    <3> QED BY <1>1, <1>2, <1>3, <1>7, <2>1, <2>4, <2>5, <3>1 DEF Rows
  <2> QED BY <1>10, <2>6, <2>7, <2>8, <2>9, <2>10 DEF IInv
<1>12. CASE ~connected
  <2>1. /\ log' = [log EXCEPT ![c] = "failed"] /\ Deliver("command_ack", c, "failed")
        /\ ipc' = ipc /\ down' = down
    BY <1>12 DEF Accept, c
  <2>2. /\ uiIn' \in Seq(Message)
        /\ \A m \in Elems(uiIn') : \/ m \in Elems(uiIn)
                                   \/ m.type = "command_ack" /\ m.cmd = c /\ m.status = "failed"
        /\ \A b \in Ids : Closing(b)' => Closing(b) \/ b = c
    <3>1. ui' = ui /\ "command_ack" \in MsgTypes /\ "failed" \in MsgStatuses
      BY <1>3 DEF uiVars, MsgTypes, MsgStatuses
    <3> QED BY <1>1, <1>2, <2>1, <3>1, Delivered
  <2>3. log' \in [Ids -> {"none", "pending", "sent", "success", "failed", "timeout"}]
        /\ log'[c] = "failed" /\ \A b \in Ids \ {c} : log'[b] = log[b]
    BY <1>1, <1>2, <2>1 DEF TypeOK
  <2>4. TypeOK'
    BY <1>1, <1>2, <1>3, <2>1, <2>2, <2>3 DEF TypeOK, uiVars, gwVars
  <2>5. Places'
    <3>1. \A t \in {ipc', rx', tm'} : t.at # "idle" => t.cmd \in 1 .. Accepted'
      <4>1. rx' = rx /\ tm' = tm
        BY <1>3
      <4> QED BY <1>4, <1>5, <2>1, <4>1 DEF Ids
    <3>2. \A m \in Elems(uiIn') : /\ m.cmd <= Accepted'
                                  /\ m.type = "command_ack" => m.status # "timeout"
                                  /\ m.type = "command_log_update" => m.status # "sent"
      <4>1. \A m \in Elems(uiIn) : /\ m.cmd \in Ids /\ m.cmd <= Accepted
                                   /\ m.type = "command_ack" => m.status # "timeout"
                                   /\ m.type = "command_log_update" => m.status # "sent"
        BY <1>1, Contents DEF Places, Message
      <4> QED BY <1>2, <1>4, <1>5, <2>2, <4>1 DEF Ids
    <3> QED BY <1>1, <1>3, <1>6, <1>8, <2>2, <3>1, <3>2 DEF Places, uiVars, gwVars
  <2>6. Waiting'
    <3>1. ASSUME NEW x \in Elems(down)
          PROVE  x <= Accepted' /\ ~Closing(x)'
      <4>1. x \in Ids /\ x <= Accepted /\ ~Closing(x)
        BY <1>1, <1>4 DEF Waiting
      <4> QED BY <1>4, <1>5, <2>2, <4>1 DEF Ids
    <3> QED BY <1>1, <1>3, <2>1, <3>1 DEF Waiting, gwVars
  <2>7. Answers'
    BY <1>1, <1>3, <2>2 DEF Answers, Honest, uiVars, gwVars
  <2>8. Rows'
    BY <1>1, <1>2, <1>3, <2>1, <2>2, <2>3 DEF Rows
  <2> QED BY <1>10, <2>4, <2>5, <2>6, <2>7, <2>8 DEF IInv
<1> QED BY <1>11, <1>12

\* The row says sent and the command is remembered; nobody has answered yet.
LEMMA RememberInv ==
  ASSUME IInv, RememberPendingCommand
  PROVE  IInv'
<1> DEFINE c == ipc.cmd
<1>1. TypeOK /\ Places /\ Waiting /\ Gateway /\ Answers /\ Rows /\ Wanted
  BY DEF IInv
<1>2. UNCHANGED <<uiVars, pipeVars, rx, tm, netVars, gwVars, faults>> /\ Accepted' = Accepted
  BY DEF RememberPendingCommand, Accepted, uiVars, pipeVars
<1>3. c \in Ids /\ c <= Accepted /\ Accepted \in Nat
  BY <1>1, Contents DEF RememberPendingCommand
<1>4. /\ ipc' \in Thread({"log", "reply"}) /\ ipc'.at = "reply" /\ ipc'.cmd = c /\ ipc'.ok = ipc.ok
      /\ ipc.at = "log"
  BY <1>1 DEF RememberPendingCommand, TypeOK, Thread
<1>5. /\ log' \in [Ids -> {"none", "pending", "sent", "success", "failed", "timeout"}]
      /\ ~ipc.ok => log'[c] = "failed"
      /\ \A b \in Ids \ {c} : log'[b] = log[b]
  BY <1>1, <1>3 DEF RememberPendingCommand, TypeOK
<1>6. pend' \in [Ids -> {"absent", "fresh", "hard"}] /\ \A b \in Ids \ {c} : pend'[b] = pend[b]
  BY <1>1, <1>3 DEF RememberPendingCommand, TypeOK
<1>7. \A b \in Ids : Closing(b)' <=> Closing(b)
  BY <1>2 DEF Closing, uiVars, pipeVars
<1>8. ~Closing(c)
  BY <1>1, <1>4 DEF Rows
<1> HIDE DEF c
<1>9. TypeOK'
  BY <1>1, <1>2, <1>4, <1>5, <1>6 DEF TypeOK, uiVars, pipeVars, netVars, gwVars
<1>10. Places'
  <2>1. \A t \in {ipc', rx', tm'} : t.at # "idle" => t.cmd \in 1 .. Accepted'
    <3>1. rx' = rx /\ tm' = tm
      BY <1>2
    <3> QED BY <1>1, <1>2, <1>3, <1>4, <3>1 DEF Places, Ids
  <2>2. \A b \in Ids : b > Accepted => b # c
    BY <1>3 DEF Ids
  <2> QED BY <1>1, <1>2, <1>6, <1>7, <2>1, <2>2 DEF Places, uiVars, pipeVars, gwVars
<1>11. Waiting'
  <2>1. \A x \in Elems(down) : x \in Ids
    BY <1>1, Contents
  <2> QED BY <1>1, <1>2, <1>4, <1>7, <2>1 DEF Waiting, netVars, gwVars, c
<1>12. Gateway' /\ Answers' /\ Wanted'
  BY <1>1, <1>2 DEF Gateway, Answers, Wanted, Honest, Busy, uiVars, pipeVars, netVars, gwVars
<1>13. Rows'
  BY <1>1, <1>2, <1>4, <1>5, <1>7, <1>8 DEF Rows
<1> QED BY <1>9, <1>10, <1>11, <1>12, <1>13 DEF IInv

\* The interface hears that the command is sent, or that it failed; a command
\* that failed was not published and has its row.
LEMMA ReplySentInv ==
  ASSUME IInv, ReplySent
  PROVE  IInv'
<1> DEFINE c == ipc.cmd
           st == IF ipc.ok THEN "sent" ELSE "failed"
<1>1. TypeOK /\ Places /\ Waiting /\ Gateway /\ Answers /\ Rows /\ Wanted
  BY DEF IInv
<1>2. UNCHANGED <<uiVars, uiOut, log, pend, rx, tm, netVars, gwVars, faults>> /\ Accepted' = Accepted
  BY DEF ReplySent, Accepted, uiVars
<1>3. c \in Ids /\ c <= Accepted /\ ipc.at = "reply"
  BY <1>1, Contents DEF ReplySent
<1>4. ipc' \in Thread({"log", "reply"}) /\ ipc'.at = "idle"
  BY DEF ReplySent, Thread, Idle
<1>5. /\ uiIn' \in Seq(Message)
      /\ \A m \in Elems(uiIn') : \/ m \in Elems(uiIn)
                                 \/ m.type = "command_ack" /\ m.cmd = c /\ m.status = st
      /\ \A b \in Ids : Closing(b)' => Closing(b) \/ (b = c /\ st \in Finished)
  <2>1. ui' = ui /\ "command_ack" \in MsgTypes /\ st \in MsgStatuses /\ Deliver("command_ack", c, st)
    BY <1>2 DEF uiVars, MsgTypes, MsgStatuses, ReplySent
  <2> HIDE DEF c, st
  <2> QED BY <1>1, <1>3, <2>1, Delivered
<1>6. st \in {"sent", "failed"} /\ (st \in Finished => ~ipc.ok)
  BY DEF Finished
<1>7. ~ipc.ok => log[c] \notin {"pending", "sent"} /\ c \notin Elems(down)
  BY <1>1, <1>3 DEF Rows, Waiting
<1> HIDE DEF c, st
<1>8. TypeOK'
  BY <1>1, <1>2, <1>4, <1>5 DEF TypeOK, uiVars, netVars, gwVars
<1>9. Places'
  <2>1. \A t \in {ipc', rx', tm'} : t.at # "idle" => t.cmd \in 1 .. Accepted'
    <3>1. rx' = rx /\ tm' = tm
      BY <1>2
    <3> QED BY <1>1, <1>2, <1>4, <3>1 DEF Places
  <2>2. \A b \in Ids : b > Accepted => b # c
    BY <1>1, <1>3, Contents DEF Ids
  <2> QED BY <1>1, <1>2, <1>3, <1>5, <1>6, <2>1, <2>2 DEF Places, uiVars, gwVars
<1>10. Waiting'
  <2>1. \A x \in Elems(down) : x \in Ids
    BY <1>1, Contents
  <2> QED BY <1>1, <1>2, <1>4, <1>5, <1>6, <1>7, <2>1 DEF Waiting, netVars, gwVars
<1>11. Gateway' /\ Answers' /\ Wanted'
  BY <1>1, <1>2, <1>5, <1>6 DEF Gateway, Answers, Wanted, Honest, Busy, uiVars, netVars, gwVars
<1>12. Rows'
  BY <1>1, <1>2, <1>4, <1>5, <1>6, <1>7 DEF Rows
<1> QED BY <1>8, <1>9, <1>10, <1>11, <1>12 DEF IInv

-----------------------------------------------------------------------------
\* Pc_data, MQTT callback thread

\* Taking an acknowledgement: the command is pending, so its row says sent.
LEMMA TakeAckInv ==
  ASSUME IInv, TakeAck
  PROVE  IInv'
<1> DEFINE a == Head(up)
           hit == a.port /\ a.cmd # NoCmd /\ pend[a.cmd] # "absent"
<1>1. TypeOK /\ Places /\ Waiting /\ Gateway /\ Answers /\ Rows /\ Wanted
  BY DEF IInv
<1>2. UNCHANGED <<uiVars, pipeVars, log, ipc, tm, down, gwVars, faults>> /\ Accepted' = Accepted
  BY DEF TakeAck, Accepted, uiVars, pipeVars
<1>3. up' \in Seq(Ack) /\ a \in Ack /\ a \in Elems(up) /\ Elems(up') \subseteq Elems(up)
  <2>1. up \in Seq(Ack) /\ up # <<>> /\ up' = Tail(up)
    BY <1>1 DEF TypeOK, TakeAck, Ack
  <2> QED BY <2>1, TailElems
<1>4. a.cmd \in Ids /\ a.ok \in BOOLEAN /\ Honest(a.cmd, a.ok) /\ Accepted \in Nat
  <2>1. a.cmd \in Ids \cup {NoCmd} /\ a.ok \in BOOLEAN
    BY <1>3 DEF Ack
  <2>2. a.cmd # NoCmd /\ Honest(a.cmd, a.ok)
    BY <1>1, <1>3 DEF Answers
  <2> QED BY <1>1, <2>1, <2>2, Contents
<1>5. hit => a.cmd <= Accepted
  BY <1>1, <1>4 DEF Places, Ids
<1>6. /\ rx.at = "idle"
      /\ rx' = IF hit THEN [at |-> "reply", cmd |-> a.cmd, ok |-> a.ok] ELSE rx
      /\ pend' = IF hit THEN [pend EXCEPT ![a.cmd] = "absent"] ELSE pend
  BY DEF TakeAck
<1>7. hit => pend[a.cmd] # "absent"
  OBVIOUS
<1> HIDE DEF a, hit
<1>8. /\ rx' \in Thread({"reply", "log"})
      /\ rx'.at # "idle" => hit /\ rx'.at = "reply" /\ rx'.cmd = a.cmd /\ rx'.ok = a.ok
  BY <1>1, <1>4, <1>6 DEF Thread, TypeOK
<1>9. /\ pend' \in [Ids -> {"absent", "fresh", "hard"}]
      /\ \A b \in Ids : pend[b] = "absent" => pend'[b] = "absent"
  BY <1>1, <1>4, <1>6 DEF TypeOK
<1>10. \A b \in Ids : Closing(b)' <=> Closing(b)
  BY <1>2 DEF Closing, uiVars, pipeVars
<1>11. TypeOK'
  BY <1>1, <1>2, <1>3, <1>8, <1>9 DEF TypeOK, uiVars, pipeVars, gwVars, Ack
<1>12. /\ ipc.at # "idle" => ipc.cmd \in Ids
       /\ \A x \in Elems(down) : x \in Ids
  BY <1>1, Contents
<1>13. Places'
  <2>1. \A t \in {ipc', rx', tm'} : t.at # "idle" => t.cmd \in 1 .. Accepted'
    <3>1. ipc' = ipc /\ tm' = tm
      BY <1>2
    <3> QED BY <1>1, <1>2, <1>4, <1>5, <1>8, <3>1 DEF Places, Ids
  <2> QED BY <1>1, <1>2, <1>9, <1>10, <2>1 DEF Places, uiVars, pipeVars, gwVars
<1>14. Waiting'
  BY <1>1, <1>2, <1>10, <1>12 DEF Waiting, gwVars
<1>15. Gateway' /\ Wanted'
  BY <1>1, <1>2 DEF Gateway, Wanted, Busy, uiVars, gwVars
<1>16. Answers'
  BY <1>1, <1>2, <1>3, <1>4, <1>8 DEF Answers, Honest, uiVars, pipeVars, gwVars
<1>17. Rows'
  <2>1. ipc.at = "log" /\ rx'.at # "idle" => rx'.cmd # ipc.cmd
    BY <1>1, <1>7, <1>8 DEF Rows
  <2> QED BY <1>1, <1>2, <1>6, <1>9, <1>10, <1>12, <2>1 DEF Rows
<1> QED BY <1>11, <1>13, <1>14, <1>15, <1>16, <1>17 DEF IInv

\* The interface hears the answer before the row is written.
LEMMA ReplyAckInv ==
  ASSUME IInv, ReplyAck
  PROVE  IInv'
<1> DEFINE c == rx.cmd
           st == Status(rx.ok)
<1>1. TypeOK /\ Places /\ Waiting /\ Gateway /\ Answers /\ Rows /\ Wanted
  BY DEF IInv
<1>2. UNCHANGED <<uiVars, uiOut, log, pend, ipc, tm, netVars, gwVars, faults>> /\ Accepted' = Accepted
  BY DEF ReplyAck, Accepted, uiVars
<1>3. c \in Ids /\ c <= Accepted /\ rx.at = "reply" /\ Honest(c, rx.ok)
  BY <1>1, Contents DEF ReplyAck, Answers
<1>4. /\ rx' \in Thread({"reply", "log"}) /\ rx'.at = "log" /\ rx'.cmd = c /\ rx'.ok = rx.ok
      /\ rx.ok \in BOOLEAN
  BY <1>1 DEF ReplyAck, TypeOK, Thread
<1>5. st \in {"success", "failed"} /\ (st = "success" => rx.ok)
  BY DEF Status
<1>6. /\ uiIn' \in Seq(Message)
      /\ \A m \in Elems(uiIn') : \/ m \in Elems(uiIn)
                                 \/ m.type = "command_ack" /\ m.cmd = c /\ m.status = st
      /\ \A b \in Ids : Closing(b)' => Closing(b) \/ b = c
  <2>1. ui' = ui /\ "command_ack" \in MsgTypes /\ st \in MsgStatuses /\ Deliver("command_ack", c, st)
    BY <1>2, <1>5 DEF uiVars, MsgTypes, MsgStatuses, ReplyAck
  <2> HIDE DEF c, st
  <2> QED BY <1>1, <1>3, <2>1, Delivered
<1>7. c \notin Elems(down) /\ (ipc.at = "log" => ipc.cmd # c)
  BY <1>1, <1>3 DEF Waiting, Rows, Honest
<1> HIDE DEF c, st
<1>8. TypeOK'
  BY <1>1, <1>2, <1>4, <1>6 DEF TypeOK, uiVars, netVars, gwVars
<1>9. /\ ipc.at # "idle" => ipc.cmd \in Ids
      /\ \A x \in Elems(down) : x \in Ids
  BY <1>1, Contents
<1>10. Places'
  <2>1. \A t \in {ipc', rx', tm'} : t.at # "idle" => t.cmd \in 1 .. Accepted'
    <3>1. ipc' = ipc /\ tm' = tm
      BY <1>2
    <3> QED BY <1>1, <1>2, <1>3, <1>4, <3>1 DEF Places, Ids, c
  <2>2. \A b \in Ids : b > Accepted => b # c
    BY <1>1, <1>3, Contents DEF Ids
  <2> QED BY <1>1, <1>2, <1>3, <1>5, <1>6, <2>1, <2>2 DEF Places, uiVars, gwVars
<1>11. Waiting'
  BY <1>1, <1>2, <1>6, <1>7, <1>9 DEF Waiting, netVars, gwVars
<1>12. Gateway' /\ Wanted'
  BY <1>1, <1>2 DEF Gateway, Wanted, Busy, uiVars, gwVars
<1>13. Answers'
  BY <1>1, <1>2, <1>3, <1>4, <1>5, <1>6 DEF Answers, Honest, uiVars, netVars, gwVars
<1>14. Rows'
  BY <1>1, <1>2, <1>3, <1>4, <1>6, <1>7, <1>9 DEF Rows
<1> QED BY <1>8, <1>10, <1>11, <1>12, <1>13, <1>14 DEF IInv

\* The row is written and the interface hears of it; a failed deletion may
\* turn a success into a failure, never the reverse.
LEMMA LogAckInv ==
  ASSUME IInv, LogAck
  PROVE  IInv'
<1> DEFINE c == rx.cmd
<1>1. TypeOK /\ Places /\ Waiting /\ Gateway /\ Answers /\ Rows /\ Wanted
  BY DEF IInv
<1>2. UNCHANGED <<uiVars, uiOut, pend, ipc, tm, netVars, gwVars, faults>> /\ Accepted' = Accepted
  BY DEF LogAck, Accepted, uiVars
<1>3. c \in Ids /\ c <= Accepted /\ rx.at = "log" /\ Honest(c, rx.ok)
  BY <1>1, Contents DEF LogAck, Answers
<1>4. rx' \in Thread({"reply", "log"}) /\ rx'.at = "idle" /\ rx.ok \in BOOLEAN
  BY <1>1 DEF LogAck, TypeOK, Thread, Idle
<1> PICK ok \in BOOLEAN : /\ ok => rx.ok
                          /\ log' = [log EXCEPT ![c] = Status(ok)]
                          /\ Deliver("command_log_update", c, Status(ok))
  <2>1. PICK ok \in {rx.ok} \cup (IF cmds[rx.cmd].kind = "remove_device" THEN {FALSE} ELSE {}) :
           /\ log' = [log EXCEPT ![c] = Status(ok)]
           /\ Deliver("command_log_update", c, Status(ok))
    BY DEF LogAck
  <2>2. ok \in BOOLEAN /\ (ok => rx.ok)
    BY <1>4
  <2> QED BY <2>1, <2>2
<1> DEFINE st == Status(ok)
<1>5. st \in {"success", "failed"} /\ (st = "success" => rx.ok)
  BY DEF Status
<1>6. /\ uiIn' \in Seq(Message)
      /\ \A m \in Elems(uiIn') : \/ m \in Elems(uiIn)
                                 \/ m.type = "command_log_update" /\ m.cmd = c /\ m.status = st
      /\ \A b \in Ids : Closing(b)' => Closing(b) \/ b = c
  <2>1. ui' = ui /\ "command_log_update" \in MsgTypes /\ st \in MsgStatuses
        /\ Deliver("command_log_update", c, st)
    BY <1>2, <1>5 DEF uiVars, MsgTypes, MsgStatuses
  <2> HIDE DEF c, st
  <2> QED BY <1>1, <1>3, <2>1, Delivered
<1>7. c \notin Elems(down) /\ (ipc.at = "log" => ipc.cmd # c)
  BY <1>1, <1>3 DEF Waiting, Rows, Honest
<1>8. /\ log' \in [Ids -> {"none", "pending", "sent", "success", "failed", "timeout"}]
      /\ log'[c] = st /\ \A b \in Ids \ {c} : log'[b] = log[b]
  <2>1. log \in [Ids -> {"none", "pending", "sent", "success", "failed", "timeout"}]
        /\ log' = [log EXCEPT ![c] = st]
    BY <1>1 DEF TypeOK
  <2> HIDE DEF c, st
  <2> QED BY <1>3, <1>5, <2>1
<1> HIDE DEF c, st
<1>9. TypeOK'
  BY <1>1, <1>2, <1>4, <1>6, <1>8 DEF TypeOK, uiVars, netVars, gwVars
<1>10. /\ ipc.at # "idle" => ipc.cmd \in Ids
       /\ \A x \in Elems(down) : x \in Ids
  BY <1>1, Contents
<1>11. Places'
  <2>1. \A t \in {ipc', rx', tm'} : t.at # "idle" => t.cmd \in 1 .. Accepted'
    <3>1. ipc' = ipc /\ tm' = tm
      BY <1>2
    <3> QED BY <1>1, <1>2, <1>4, <3>1 DEF Places
  <2>2. \A b \in Ids : b > Accepted => b # c
    BY <1>1, <1>3, Contents DEF Ids
  <2> QED BY <1>1, <1>2, <1>3, <1>5, <1>6, <2>1, <2>2 DEF Places, uiVars, gwVars
<1>12. Waiting'
  BY <1>1, <1>2, <1>6, <1>7, <1>10 DEF Waiting, netVars, gwVars
<1>13. Gateway' /\ Wanted'
  BY <1>1, <1>2 DEF Gateway, Wanted, Busy, uiVars, gwVars
<1>14. Answers'
  BY <1>1, <1>2, <1>3, <1>4, <1>5, <1>6 DEF Answers, Honest, uiVars, netVars, gwVars
<1>15. Rows'
  <2>1. \A b \in Ids : Closing(b)' => log'[b] \notin {"pending", "sent"}
    BY <1>1, <1>3, <1>5, <1>6, <1>8 DEF Rows, c
  <2> QED BY <1>1, <1>2, <1>4, <1>5, <1>6, <1>7, <1>8, <1>10, <2>1 DEF Rows
<1> QED BY <1>9, <1>11, <1>12, <1>13, <1>14, <1>15 DEF IInv

-----------------------------------------------------------------------------
\* Pc_data, main thread

\* A command late by 30 s is marked and kept.
LEMMA CollectInv ==
  ASSUME IInv, NEW c \in Ids, CollectHardTimeout(c)
  PROVE  IInv'
<1>1. TypeOK /\ Places /\ Waiting /\ Gateway /\ Answers /\ Rows /\ Wanted
  BY DEF IInv
<1>2. UNCHANGED <<uiVars, pipeVars, log, ipc, rx, netVars, gwVars, faults>> /\ Accepted' = Accepted
  BY DEF CollectHardTimeout, Accepted, uiVars, pipeVars
<1>3. c <= Accepted /\ Accepted \in Nat /\ pend[c] = "fresh"
  <2>1. Accepted \in Nat
    BY <1>1, Contents
  <2> QED BY <1>1, <2>1 DEF CollectHardTimeout, Places, Ids
<1>4. tm' \in Thread({"log"}) /\ tm'.cmd = c
  BY DEF CollectHardTimeout, Thread
<1>5. pend' \in [Ids -> {"absent", "fresh", "hard"}] /\ \A b \in Ids \ {c} : pend'[b] = pend[b]
  BY <1>1 DEF CollectHardTimeout, TypeOK
<1>6. \A b \in Ids : Closing(b)' <=> Closing(b)
  BY <1>2 DEF Closing, uiVars, pipeVars
<1>7. /\ ipc.at # "idle" => ipc.cmd \in Ids
      /\ \A x \in Elems(down) : x \in Ids
  BY <1>1, Contents
<1>8. TypeOK'
  BY <1>1, <1>2, <1>4, <1>5 DEF TypeOK, uiVars, pipeVars, netVars, gwVars
<1>9. Places'
  <2>1. \A t \in {ipc', rx', tm'} : t.at # "idle" => t.cmd \in 1 .. Accepted'
    <3>1. ipc' = ipc /\ rx' = rx
      BY <1>2
    <3> QED BY <1>1, <1>2, <1>3, <1>4, <3>1 DEF Places, Ids
  <2>2. \A b \in Ids : b > Accepted => b # c
    BY <1>3 DEF Ids
  <2> QED BY <1>1, <1>2, <1>5, <1>6, <2>1, <2>2 DEF Places, uiVars, pipeVars, gwVars
<1>10. Waiting'
  BY <1>1, <1>2, <1>6, <1>7 DEF Waiting, netVars, gwVars
<1>11. Gateway' /\ Answers' /\ Wanted'
  BY <1>1, <1>2 DEF Gateway, Answers, Wanted, Honest, Busy, uiVars, pipeVars, netVars, gwVars
<1>12. Rows'
  BY <1>1, <1>2, <1>3, <1>5, <1>6, <1>7 DEF Rows
<1> QED BY <1>8, <1>9, <1>10, <1>11, <1>12 DEF IInv

\* The row says timeout, which no reader takes for an open command.
LEMMA LogHardTimeoutInv ==
  ASSUME IInv, LogHardTimeout
  PROVE  IInv'
<1> DEFINE c == tm.cmd
<1>1. TypeOK /\ Places /\ Waiting /\ Gateway /\ Answers /\ Rows /\ Wanted
  BY DEF IInv
<1>2. UNCHANGED <<uiVars, uiOut, pend, ipc, rx, netVars, gwVars, faults>> /\ Accepted' = Accepted
  BY DEF LogHardTimeout, Accepted, uiVars
<1>3. c \in Ids /\ c <= Accepted
  BY <1>1, Contents DEF LogHardTimeout
<1>4. tm' \in Thread({"log"}) /\ tm'.at = "idle"
  BY DEF LogHardTimeout, Thread, Idle
<1>5. /\ log' \in [Ids -> {"none", "pending", "sent", "success", "failed", "timeout"}]
      /\ log'[c] = "timeout" /\ \A b \in Ids \ {c} : log'[b] = log[b]
  BY <1>1, <1>3 DEF LogHardTimeout, TypeOK
<1>6. /\ uiIn' \in Seq(Message)
      /\ \A m \in Elems(uiIn') : \/ m \in Elems(uiIn)
                                 \/ m.type = "command_log_update" /\ m.cmd = c /\ m.status = "timeout"
      /\ \A b \in Ids : Closing(b)' => Closing(b)
  <2>1. ui' = ui /\ "command_log_update" \in MsgTypes /\ "timeout" \in MsgStatuses
        /\ "timeout" \notin Finished /\ Deliver("command_log_update", c, "timeout")
    BY <1>2 DEF uiVars, MsgTypes, MsgStatuses, Finished, LogHardTimeout
  <2> HIDE DEF c
  <2> QED BY <1>1, <1>3, <2>1, Delivered
<1>7. /\ ipc.at # "idle" => ipc.cmd \in Ids
      /\ \A x \in Elems(down) : x \in Ids
  BY <1>1, Contents
<1> HIDE DEF c
<1>8. TypeOK'
  BY <1>1, <1>2, <1>4, <1>5, <1>6 DEF TypeOK, uiVars, netVars, gwVars
<1>9. Places'
  <2>1. \A t \in {ipc', rx', tm'} : t.at # "idle" => t.cmd \in 1 .. Accepted'
    <3>1. ipc' = ipc /\ rx' = rx
      BY <1>2
    <3> QED BY <1>1, <1>2, <1>4, <3>1 DEF Places
  <2> QED BY <1>1, <1>2, <1>3, <1>6, <2>1 DEF Places, uiVars, gwVars
<1>10. Waiting'
  BY <1>1, <1>2, <1>6, <1>7 DEF Waiting, netVars, gwVars
<1>11. Gateway' /\ Answers' /\ Wanted'
  BY <1>1, <1>2, <1>6 DEF Gateway, Answers, Wanted, Honest, Busy, uiVars, netVars, gwVars
<1>12. Rows'
  BY <1>1, <1>2, <1>5, <1>6, <1>7 DEF Rows
<1> QED BY <1>8, <1>9, <1>10, <1>11, <1>12 DEF IInv

-----------------------------------------------------------------------------
\* MQTT

\* What a topic loses leaves the rest in order.
LEMMA LoseMessageInv ==
  ASSUME IInv, LoseMessage
  PROVE  IInv'
<1>1. TypeOK /\ Places /\ Waiting /\ Gateway /\ Answers /\ Rows /\ Wanted
  BY DEF IInv
<1>2. UNCHANGED <<uiVars, pipeVars, pcVars, gwVars>> /\ Accepted' = Accepted
  BY DEF LoseMessage, Accepted, uiVars, pipeVars
<1>3. faults' \in 0 .. MaxFault
  BY <1>1, BoundsAssumption DEF LoseMessage, TypeOK
<1>4. /\ down' \in Seq(Ids) /\ Elems(down') \subseteq Elems(down)
      /\ \A i, j \in 1 .. Len(down') : i < j => down'[i] < down'[j]
  <2>1. down \in Seq(Ids) /\ \A i, j \in 1 .. Len(down) : i < j => down[i] < down[j]
    BY <1>1 DEF TypeOK, Waiting
  <2>2. CASE down' = down
    BY <2>1, <2>2
  <2>3. CASE down # <<>> /\ down' = Tail(down)
    <3>1. /\ down' \in Seq(Ids) /\ Len(down') = Len(down) - 1 /\ Len(down) \in Nat \ {0}
          /\ \A i \in 1 .. Len(down') : i + 1 \in 1 .. Len(down) /\ down'[i] = down[i + 1]
          /\ Elems(down') \subseteq Elems(down)
      <4>1. down \in Seq(Ids)
        BY <2>1
      <4>2. /\ down' \in Seq(Ids) /\ Len(down') = Len(down) - 1 /\ Len(down) \in Nat \ {0}
            /\ \A i \in 1 .. Len(down') : i + 1 \in 1 .. Len(down) /\ down'[i] = down[i + 1]
        BY <2>3, <4>1, TailElems
      <4>3. Elems(down') \subseteq Elems(down)
        BY <2>3, <4>1, TailElems
      <4> QED BY <4>2, <4>3
    <3> QED BY SMTT(30), <2>1, <3>1
  <2> QED BY <2>2, <2>3 DEF LoseMessage
<1>5. up' \in Seq(Ack) /\ Elems(up') \subseteq Elems(up)
  <2>1. up \in Seq(Ack)
    BY <1>1 DEF TypeOK, Ack
  <2>2. CASE up' = up
    BY <2>1, <2>2
  <2>3. CASE up # <<>> /\ up' = Tail(up)
    BY <2>1, <2>3, TailElems
  <2> QED BY <2>2, <2>3 DEF LoseMessage
<1>6. TypeOK'
  BY <1>1, <1>2, <1>3, <1>4, <1>5 DEF TypeOK, uiVars, pipeVars, pcVars, gwVars, Ack
<1>7. \A c : Closing(c)' <=> Closing(c)
  BY <1>2 DEF Closing, uiVars, pipeVars
<1>8. Places'
  BY <1>1, <1>2, <1>7 DEF Places, uiVars, pipeVars, pcVars, gwVars
<1>9. Waiting'
  BY <1>1, <1>2, <1>4, <1>7 DEF Waiting, pcVars, gwVars
<1>10. Gateway' /\ Answers' /\ Wanted'
  BY <1>1, <1>2, <1>5 DEF Gateway, Answers, Wanted, Honest, Busy, uiVars, pipeVars, pcVars, gwVars
<1>11. Rows'
  BY <1>1, <1>2, <1>7 DEF Rows, pcVars
<1> QED BY <1>6, <1>8, <1>9, <1>10, <1>11 DEF IInv

-----------------------------------------------------------------------------
\* Linux_data

\* An answer that was true stays true while the gateway goes on working.
LEMMA HonestKept ==
  ASSUME mixed \subseteq mixed',
         \A b \in Ids : work[b] # "none" => work'[b] # "none",
         \A b \in Ids : work[b] = "done" => work'[b] = "done"
  PROVE  \A b \in Ids : \A ok \in BOOLEAN : Honest(b, ok) => Honest(b, ok)'
BY DEF Honest

\* Then everything that has been said stays honest.
LEMMA AnswersKept ==
  ASSUME TypeOK, Places, Answers, UNCHANGED <<uiVars, pipeVars, pcVars>>,
         \A b \in Ids : \A ok \in BOOLEAN : Honest(b, ok) => Honest(b, ok)',
         \A a \in Elems(up') : a \in Elems(up) \/ (a.cmd \in Ids /\ Honest(a.cmd, a.ok)')
  PROVE  Answers'
<1>1. /\ \A m \in Elems(uiIn) : m.cmd \in Ids
      /\ \A a \in Elems(up) : a.ok \in BOOLEAN /\ (a.cmd # NoCmd => a.cmd \in Ids)
      /\ rx.at # "idle" => rx.cmd \in Ids
  BY Contents DEF Message, Ack
<1>2. uiIn' = uiIn /\ rx' = rx /\ ui' = ui
  BY DEF uiVars, pipeVars, pcVars
<1>3. \A a \in Elems(up') : a.cmd # NoCmd /\ Honest(a.cmd, a.ok)'
  <2>1. \A a \in Elems(up) : a.cmd # NoCmd /\ Honest(a.cmd, a.ok)
    BY DEF Answers
  <2>2. NoCmd \notin Ids
    BY BoundsAssumption DEF Ids, NoCmd
  <2> QED BY <1>1, <2>1, <2>2
<1>4. (rx.at # "idle" => Honest(rx.cmd, rx.ok))'
  <2>1. rx.ok \in BOOLEAN
    BY DEF TypeOK, Thread
  <2> QED BY <1>1, <1>2, <2>1 DEF Answers, Honest
<1>5. \A m \in Elems(uiIn') : m.status = "success" => Honest(m.cmd, TRUE)'
  BY <1>1, <1>2 DEF Answers
<1>6. \A c \in Ids : ui'[c] = "success" => Honest(c, TRUE)'
  BY <1>2 DEF Answers
<1> QED BY <1>3, <1>4, <1>5, <1>6 DEF Answers

\* A command starts: it comes after all that came before it.
LEMMA ProcessMessageInv ==
  ASSUME IInv, ProcessMessage
  PROVE  IInv'
<1> DEFINE c == Head(down)
<1>1. TypeOK /\ Places /\ Waiting /\ Gateway /\ Answers /\ Rows /\ Wanted
  BY DEF IInv
<1>2. UNCHANGED <<uiVars, pipeVars, pcVars, up, gl, relay, faults>> /\ Accepted' = Accepted
  BY DEF ProcessMessage, Accepted, uiVars, pipeVars
<1>3. /\ down \in Seq(Ids) /\ down # <<>> /\ down' = Tail(down)
      /\ \A i, j \in 1 .. Len(down) : i < j => down[i] < down[j]
  BY <1>1 DEF TypeOK, Waiting, ProcessMessage
<1>4. /\ down' \in Seq(Ids) /\ Len(down') = Len(down) - 1 /\ Len(down) \in Nat \ {0}
      /\ c = down[1] /\ c \in Ids /\ c \in Elems(down)
      /\ \A i \in 1 .. Len(down') : i + 1 \in 1 .. Len(down) /\ down'[i] = down[i + 1]
      /\ Elems(down') \subseteq Elems(down)
  <2>1. down \in Seq(Ids) /\ down # <<>> /\ down' = Tail(down)
    BY <1>3
  <2>2. /\ down' \in Seq(Ids) /\ Len(down') = Len(down) - 1 /\ Len(down) \in Nat \ {0}
        /\ c = down[1] /\ c \in Ids
        /\ \A i \in 1 .. Len(down') : i + 1 \in 1 .. Len(down) /\ down'[i] = down[i + 1]
    BY <2>1, TailElems
  <2>3. c \in Elems(down) /\ Elems(down') \subseteq Elems(down)
    BY <2>1, TailElems
  <2> QED BY <2>2, <2>3
<1>5. /\ \A i, j \in 1 .. Len(down') : i < j => down'[i] < down'[j]
      /\ \A x \in Elems(down') : c < x
  <2>1. \A i \in 1 .. Len(down') : c < down'[i]
    BY <1>3, <1>4
  <2> QED BY <1>3, <1>4, <2>1 DEF Elems
<1>6. /\ work[c] = "none" /\ ~Closing(c) /\ c <= Accepted
      /\ \A b \in Ids : work[b] # "none" => b < c
  BY <1>1, <1>4 DEF Waiting
<1>7. /\ gm' \in Thread({"exec"}) /\ gm'.at = "exec" /\ gm'.cmd = c /\ cur' = c
      /\ mixed \subseteq mixed' /\ mixed' \subseteq Ids /\ (Busy(gl) => c \in mixed')
  BY <1>1, <1>4 DEF ProcessMessage, Thread, TypeOK
<1>8. /\ work' \in [Ids -> {"none", "taken", "done", "refused"}]
      /\ work'[c] = "taken" /\ \A b \in Ids \ {c} : work'[b] = work[b]
  BY <1>1, <1>4 DEF ProcessMessage, TypeOK
<1> HIDE DEF c
<1>9. TypeOK'
  BY <1>1, <1>2, <1>4, <1>7, <1>8 DEF TypeOK, uiVars, pipeVars, pcVars
<1>10. \A b : Closing(b)' <=> Closing(b)
  BY <1>2 DEF Closing, uiVars, pipeVars
<1>11. Places'
  <2>1. \A b \in Ids : b > Accepted => b # c
    BY <1>1, <1>6, Contents DEF Ids
  <2> QED BY <1>1, <1>2, <1>8, <1>10, <2>1 DEF Places, uiVars, pipeVars, pcVars
<1>12. Waiting'
  <2>1. ASSUME NEW x \in Elems(down')
        PROVE  /\ x <= Accepted /\ work'[x] = "none" /\ ~Closing(x)
               /\ \A b \in Ids : work'[b] # "none" => b < x
    <3>1. x \in Elems(down) /\ x \in Ids /\ c < x
      BY <1>1, <1>4, <1>5, Contents
    <3>2. /\ x <= Accepted /\ work[x] = "none" /\ ~Closing(x)
          /\ \A b \in Ids : work[b] # "none" => b < x
      BY <1>1, <3>1 DEF Waiting
    <3>3. x # c
      BY <1>4, <3>1 DEF Ids
    <3> QED BY <1>4, <1>8, <3>1, <3>2, <3>3
  <2> QED BY <1>1, <1>2, <1>4, <1>5, <1>10, <2>1 DEF Waiting, pcVars
<1>13. Gateway'
  <2>1. \A b \in Ids : work'[b] # "none" => b <= c
    BY <1>4, <1>6, <1>8 DEF Ids
  <2> QED BY <1>2, <1>4, <1>7, <1>8, <2>1 DEF Gateway, Busy
<1>14. Answers'
  <2>1. \A b \in Ids : \A ok \in BOOLEAN : Honest(b, ok) => Honest(b, ok)'
    <3>1. /\ \A b \in Ids : work[b] # "none" => work'[b] # "none"
          /\ \A b \in Ids : work[b] = "done" => work'[b] = "done"
      BY <1>6, <1>8
    <3> QED BY <1>7, <3>1, HonestKept
  <2>2. UNCHANGED <<uiVars, pipeVars, pcVars>> /\ Elems(up') = Elems(up)
    BY <1>2
  <2> QED BY <1>1, <2>1, <2>2, AnswersKept
<1>15. Rows' /\ Wanted'
  BY <1>1, <1>2, <1>10 DEF Rows, Wanted, uiVars, pcVars
<1> QED BY <1>9, <1>11, <1>12, <1>13, <1>14, <1>15 DEF IInv

\* data_ack_send_*: the topic may have one acknowledgement more.
LEMMA AckSent ==
  ASSUME TypeOK, NEW other, NEW ok \in BOOLEAN, NEW ports \in SUBSET BOOLEAN,
         SendAck(other, ok, ports)
  PROVE  /\ up' \in Seq(Ack)
         /\ \A a \in Elems(up') : a \in Elems(up) \/ (cur # NoCmd /\ a.cmd = cur /\ a.ok = ok)
<1> PICK id \in AckCmdIds(other), port \in ports :
           up' = IF id = NoCmd THEN up ELSE Append(up, [cmd |-> id, ok |-> ok, port |-> port])
  BY DEF SendAck
<1> DEFINE a == [cmd |-> id, ok |-> ok, port |-> port]
<1>1. up \in Seq(Ack) /\ cur \in Ids \cup {NoCmd}
  BY DEF TypeOK, Ack
<1>2. id = cur \/ id = NoCmd
  BY DEF AckCmdIds
<1>3. a \in Ack /\ a.cmd = id /\ a.ok = ok
  BY <1>1, <1>2 DEF Ack
<1> HIDE DEF a
<1>4. CASE id = NoCmd
  BY <1>1, <1>4
<1>5. CASE id # NoCmd
  <2>1. up' = Append(up, a) /\ id = cur
    BY <1>2, <1>5 DEF a
  <2>2. a \in Ack
    BY <1>3
  <2>3. up' \in Seq(Ack) /\ \A x : x \in Elems(up') <=> x \in Elems(up) \/ x = a
    BY <1>1, <2>1, <2>2, AppendSet
  <2> QED BY <1>3, <1>5, <2>1, <2>3
<1> QED BY <1>4, <1>5

\* A command ends: its acknowledgement carries its cmd_id or none.
LEMMA HandledInv ==
  ASSUME IInv, gm.at = "exec", NEW ok \in BOOLEAN, NEW ports \in SUBSET BOOLEAN,
         work' = [work EXCEPT ![gm.cmd] = IF ok THEN "done" ELSE "refused"],
         SendAck(gl, ok, ports), relay' \in States, gm' = Idle, cur' = NoCmd,
         UNCHANGED <<uiVars, pipeVars, pcVars, down, gl, mixed, faults>>
  PROVE  IInv'
<1> DEFINE c == gm.cmd
<1>1. TypeOK /\ Places /\ Waiting /\ Gateway /\ Answers /\ Rows /\ Wanted
  BY DEF IInv
<1>2. c \in Ids /\ work[c] = "taken" /\ (cur # NoCmd => cur = c)
  BY <1>1 DEF Gateway
<1>3. /\ work' \in [Ids -> {"none", "taken", "done", "refused"}]
      /\ work'[c] # "none" /\ (ok => work'[c] = "done")
      /\ \A b \in Ids \ {c} : work'[b] = work[b]
  BY <1>1, <1>2 DEF TypeOK
<1>4. /\ up' \in Seq(Ack)
      /\ \A a \in Elems(up') : a \in Elems(up) \/ (cur # NoCmd /\ a.cmd = cur /\ a.ok = ok)
  BY <1>1, AckSent
<1>5. gm' \in Thread({"exec"}) /\ gm'.at = "idle"
  BY DEF Thread, Idle
<1>6. /\ Accepted' = Accepted
      /\ \A b : Closing(b)' <=> Closing(b)
      /\ \A b \in Ids : work[b] = "none" <=> work'[b] = "none"
  BY <1>2, <1>3 DEF Accepted, Closing, uiVars, pipeVars
<1> HIDE DEF c
<1>7. TypeOK'
  BY <1>1, <1>3, <1>4, <1>5 DEF TypeOK, uiVars, pipeVars, pcVars, Ack
<1>8. Places'
  BY <1>1, <1>6 DEF Places, uiVars, pipeVars, pcVars
<1>9. Waiting'
  <2>1. \A x \in Elems(down) : x \in Ids
    BY <1>1, Contents
  <2> QED BY <1>1, <1>6, <2>1 DEF Waiting, pcVars
<1>10. Gateway'
  BY <1>5 DEF Gateway, Busy
<1>11. Answers'
  <2>1. \A b \in Ids : \A k \in BOOLEAN : Honest(b, k) => Honest(b, k)'
    <3>1. /\ \A b \in Ids : work[b] # "none" => work'[b] # "none"
          /\ \A b \in Ids : work[b] = "done" => work'[b] = "done"
          /\ mixed \subseteq mixed'
      BY <1>2, <1>3
    <3> QED BY <3>1, HonestKept
  <2>3. \A a \in Elems(up') : a \in Elems(up) \/ (a.cmd \in Ids /\ Honest(a.cmd, a.ok)')
    <3>1. \A a : cur # NoCmd /\ a.cmd = cur /\ a.ok = ok => a.cmd \in Ids /\ Honest(a.cmd, a.ok)'
      BY <1>2, <1>3 DEF Honest
    <3> QED BY <1>4, <3>1
  <2>4. UNCHANGED <<uiVars, pipeVars, pcVars>>
    OBVIOUS
  <2> QED BY <1>1, <2>1, <2>3, <2>4, AnswersKept
<1>12. Rows' /\ Wanted'
  BY <1>1, <1>6 DEF Rows, Wanted, uiVars, pcVars
<1> QED BY <1>7, <1>8, <1>9, <1>10, <1>11, <1>12 DEF IInv

\* The relay board has what the command wants, or is left alone.
LEMMA HandleSetRelayInv ==
  ASSUME IInv, HandleSetRelay
  PROVE  IInv'
<1>1. TypeOK /\ Places /\ Gateway
  BY DEF IInv
<1>2. gm.cmd \in 1 .. Len(cmds)
  <2>1. gm.cmd \in Ids /\ work[gm.cmd] # "none"
    BY <1>1 DEF Gateway, HandleSetRelay
  <2>2. Accepted \in Nat /\ Accepted <= Len(cmds) /\ Len(cmds) \in Nat
    BY <1>1, Contents
  <2>3. ~(gm.cmd > Accepted)
    BY <1>1, <2>1 DEF Places
  <2> QED BY <2>1, <2>2, <2>3, BoundsAssumption DEF Ids
<1>3. cmds[gm.cmd].states \in States
  <2>1. cmds \in Seq(Command)
    BY <1>1 DEF TypeOK
  <2>2. cmds[gm.cmd] \in Command
    BY <1>2, <2>1
  <2> QED BY <2>2 DEF Command
<1> PICK ok \in BOOLEAN :
           /\ relay' = IF ok THEN cmds[gm.cmd].states ELSE relay
           /\ work' = [work EXCEPT ![gm.cmd] = IF ok THEN "done" ELSE "refused"]
           /\ SendAck(gl, ok, {TRUE})
  BY DEF HandleSetRelay
<1>4. relay' \in States
  BY <1>1, <1>3 DEF TypeOK
<1>5. /\ gm.at = "exec" /\ gm' = Idle /\ cur' = NoCmd /\ {TRUE} \in SUBSET BOOLEAN
      /\ UNCHANGED <<uiVars, pipeVars, pcVars, down, gl, mixed, faults>>
  BY DEF HandleSetRelay
<1> QED BY <1>4, <1>5, HandledInv

\* A device command ends; the relay board is left alone.
LEMMA HandleDeviceInv ==
  ASSUME IInv, HandleDevice
  PROVE  IInv'
<1> PICK ok \in BOOLEAN :
           /\ work' = [work EXCEPT ![gm.cmd] = IF ok THEN "done" ELSE "refused"]
           /\ SendAck(gl, ok, IF ok THEN {TRUE} ELSE BOOLEAN)
  BY DEF HandleDevice
<1> DEFINE ports == IF ok THEN {TRUE} ELSE BOOLEAN
<1>1. ports \in SUBSET BOOLEAN /\ SendAck(gl, ok, ports)
  OBVIOUS
<1>2. /\ gm.at = "exec" /\ gm' = Idle /\ cur' = NoCmd /\ relay' \in States
      /\ UNCHANGED <<uiVars, pipeVars, pcVars, down, gl, mixed, faults>>
  BY DEF HandleDevice, IInv, TypeOK
<1> HIDE DEF ports
<1> QED BY <1>1, <1>2, HandledInv

\* A command of the local screen starts: it clears the shared cmd_id.
LEMMA LocalProcessInv ==
  ASSUME IInv, LocalProcessMessage
  PROVE  IInv'
<1>1. TypeOK /\ Places /\ Waiting /\ Gateway /\ Answers /\ Rows /\ Wanted
  BY DEF IInv
<1>2. UNCHANGED <<uiVars, pipeVars, pcVars, netVars, gm, relay, work>> /\ Accepted' = Accepted
  BY DEF LocalProcessMessage, Accepted, uiVars, pipeVars
<1>3. gl' \in Thread({"exec"}) /\ cur' = NoCmd /\ faults' \in 0 .. MaxFault
  <2>1. [Idle EXCEPT !.at = "exec"] \in Thread({"exec"})
    BY DEF Thread, Idle
  <2>2. faults' \in 0 .. MaxFault
    BY <1>1, BoundsAssumption DEF LocalProcessMessage, TypeOK
  <2> QED BY <2>1, <2>2 DEF LocalProcessMessage
<1>4. mixed \subseteq mixed' /\ mixed' \subseteq Ids /\ (Busy(gm) => gm.cmd \in mixed')
  <2>1. Busy(gm) => gm.cmd \in Ids
    BY <1>1 DEF Gateway, Busy, TypeOK, Thread
  <2> QED BY <1>1, <2>1 DEF LocalProcessMessage, TypeOK
<1>5. TypeOK'
  BY <1>1, <1>2, <1>3, <1>4 DEF TypeOK, uiVars, pipeVars, pcVars, netVars
<1>6. \A b : Closing(b)' <=> Closing(b)
  BY <1>2 DEF Closing, uiVars, pipeVars
<1>7. Places' /\ Waiting' /\ Rows' /\ Wanted'
  BY <1>1, <1>2, <1>6 DEF Places, Waiting, Rows, Wanted, uiVars, pipeVars, pcVars, netVars
<1>8. Gateway'
  BY <1>1, <1>2, <1>3, <1>4 DEF Gateway, Busy
<1>9. Answers'
  <2>1. \A b \in Ids : \A ok \in BOOLEAN : Honest(b, ok) => Honest(b, ok)'
    BY <1>2, <1>4, HonestKept
  <2>2. UNCHANGED <<uiVars, pipeVars, pcVars>> /\ Elems(up') = Elems(up)
    BY <1>2 DEF netVars
  <2> QED BY <1>1, <2>1, <2>2, AnswersKept
<1> QED BY <1>5, <1>7, <1>8, <1>9 DEF IInv

\* It ends: its acknowledgement carries no cmd_id, or that of a command it met,
\* which is mixed.
LEMMA LocalHandleInv ==
  ASSUME IInv, LocalHandle
  PROVE  IInv'
<1>1. TypeOK /\ Places /\ Waiting /\ Gateway /\ Answers /\ Rows /\ Wanted
  BY DEF IInv
<1>2. UNCHANGED <<uiVars, pipeVars, pcVars, down, gm, relay, work, mixed, faults>>
      /\ Accepted' = Accepted /\ gl.at = "exec"
  BY DEF LocalHandle, Accepted, uiVars, pipeVars
<1> PICK ok \in BOOLEAN : SendAck(gm, ok, {TRUE})
  BY DEF LocalHandle
<1>3. /\ up' \in Seq(Ack)
      /\ \A a \in Elems(up') : a \in Elems(up) \/ (cur # NoCmd /\ a.cmd = cur /\ a.ok = ok)
  <2>1. {TRUE} \in SUBSET BOOLEAN
    OBVIOUS
  <2> QED BY <1>1, <2>1, AckSent
<1>4. gl' \in Thread({"exec"}) /\ gl'.at = "idle" /\ cur' = NoCmd
  BY DEF LocalHandle, Thread, Idle
<1>5. TypeOK'
  BY <1>1, <1>2, <1>3, <1>4 DEF TypeOK, uiVars, pipeVars, pcVars, Ack
<1>6. \A b : Closing(b)' <=> Closing(b)
  BY <1>2 DEF Closing, uiVars, pipeVars
<1>7. Places' /\ Waiting' /\ Rows' /\ Wanted'
  BY <1>1, <1>2, <1>6 DEF Places, Waiting, Rows, Wanted, uiVars, pipeVars, pcVars
<1>8. Gateway'
  BY <1>1, <1>2, <1>4 DEF Gateway, Busy
<1>9. Answers'
  <2>1. \A b \in Ids : \A k \in BOOLEAN : Honest(b, k) => Honest(b, k)'
    BY <1>2 DEF Honest
  <2>2. cur # NoCmd => cur \in Ids /\ cur \in mixed /\ work[cur] # "none"
    BY <1>1, <1>2 DEF Gateway, Busy
  <2>3. \A a : cur # NoCmd /\ a.cmd = cur /\ a.ok = ok => a.cmd \in Ids /\ Honest(a.cmd, a.ok)'
    BY <1>2, <2>2 DEF Honest
  <2>4. \A a \in Elems(up') : a \in Elems(up) \/ (a.cmd \in Ids /\ Honest(a.cmd, a.ok)')
    BY <1>3, <2>3
  <2>5. UNCHANGED <<uiVars, pipeVars, pcVars>>
    BY <1>2
  <2> QED BY <1>1, <2>1, <2>4, <2>5, AnswersKept
<1> QED BY <1>5, <1>7, <1>8, <1>9 DEF IInv

-----------------------------------------------------------------------------
\* The specification

\* The programs start with nothing issued and empty pipes and topics.
LEMMA InitInv == Init => IInv
<1> SUFFICES ASSUME Init PROVE IInv
  OBVIOUS
<1>1. ChannelCount \in 1 .. 16 /\ NoCmd \notin Ids /\ "idle" \notin {"log", "reply", "exec"}
  BY PackAssumption, BoundsAssumption DEF Ids, NoCmd
<1>2. Idle.at = "idle" /\ \A S : Idle \in Thread(S)
  BY DEF Idle, Thread
<1>3. /\ cmds = <<>> /\ uiOut = <<>> /\ uiIn = <<>> /\ down = <<>> /\ up = <<>>
      /\ ui = [c \in Ids |-> "none"] /\ pend = [c \in Ids |-> "absent"]
      /\ work = [c \in Ids |-> "none"] /\ log = [c \in Ids |-> "none"]
      /\ shown = [ch \in Channels |-> FALSE] /\ relay = shown
      /\ ipc = Idle /\ rx = Idle /\ tm = Idle /\ gm = Idle /\ gl = Idle /\ cur = NoCmd
      /\ mixed = {} /\ faults = 0
  BY DEF Init
<1> DEFINE e == <<>>
<1>4. Len(e) = 0 /\ Elems(e) = {} /\ \A T : e \in Seq(T)
  BY DEF Elems
<1>5. TypeOK
  <2>1. shown \in States /\ relay \in States
    BY <1>3 DEF States
  <2>2. faults \in 0 .. MaxFault /\ Len(cmds) <= MaxCmd
    BY <1>3, BoundsAssumption
  <2>3. /\ cmds \in Seq(Command) /\ uiOut \in Seq(Ids) /\ uiIn \in Seq(Message) /\ down \in Seq(Ids)
        /\ up \in Seq([cmd : Ids \cup {NoCmd}, ok : BOOLEAN, port : BOOLEAN])
    BY <1>3
  <2> QED BY <1>2, <1>3, <2>1, <2>2, <2>3 DEF TypeOK
<1>6. Places
  <2>1. Len(cmds) = 0 /\ Len(uiOut) = 0 /\ Accepted = 0 /\ Elems(uiIn) = {}
    BY <1>3, <1>4 DEF Accepted
  <2>2. \A c \in Ids : c > 0 /\ ~Closing(c)
    BY <1>3, <2>1, BoundsAssumption DEF Ids, Closing, Finished
  <2> QED BY <1>2, <1>3, <2>1, <2>2 DEF Places
<1>7. Waiting
  <2>1. Len(down) = 0 /\ Elems(down) = {} /\ ipc.at = "idle"
    BY <1>2, <1>3, <1>4
  <2> QED BY <2>1 DEF Waiting
<1>8. Gateway
  BY <1>2, <1>3 DEF Gateway, Busy
<1>9. Answers
  <2>1. Elems(up) = {} /\ Elems(uiIn) = {} /\ rx.at = "idle"
    BY <1>2, <1>3, <1>4
  <2> QED BY <1>3, <2>1 DEF Answers
<1>10. Rows
  <2>1. Elems(uiIn) = {} /\ ipc.at = "idle"
    BY <1>2, <1>3, <1>4
  <2> QED BY <1>3, <2>1 DEF Rows, Closing, Finished
<1>11. Wanted
  BY <1>3 DEF Wanted
<1> QED BY <1>5, <1>6, <1>7, <1>8, <1>9, <1>10, <1>11 DEF IInv

\* Every step of every thread keeps the invariant.
LEMMA StepInv == IInv /\ [Next]_vars => IInv'
<1> SUFFICES ASSUME IInv, [Next]_vars PROVE IInv'
  OBVIOUS
<1>1. CASE \E ch \in Channels : SendRelayCommand(ch)
  BY <1>1, SendRelayInv
<1>2. CASE \E kind \in DeviceKinds : SendDeviceCommand(kind)
  BY <1>2, SendDeviceInv
<1>3. CASE UiReceive
  BY <1>3, UiReceiveInv
<1>4. CASE ShowStates
  BY <1>4, ShowStatesInv
<1>5. CASE AcceptRelay
  BY <1>5, AcceptInv DEF AcceptRelay
<1>6. CASE AcceptDevice
  BY <1>6, AcceptInv DEF AcceptDevice
<1>7. CASE RememberPendingCommand
  BY <1>7, RememberInv
<1>8. CASE ReplySent
  BY <1>8, ReplySentInv
<1>9. CASE TakeAck
  BY <1>9, TakeAckInv
<1>10. CASE ReplyAck
  BY <1>10, ReplyAckInv
<1>11. CASE LogAck
  BY <1>11, LogAckInv
<1>12. CASE \E c \in Ids : CollectHardTimeout(c)
  BY <1>12, CollectInv
<1>13. CASE LogHardTimeout
  BY <1>13, LogHardTimeoutInv
<1>14. CASE LoseMessage
  BY <1>14, LoseMessageInv
<1>15. CASE ProcessMessage
  BY <1>15, ProcessMessageInv
<1>16. CASE HandleSetRelay
  BY <1>16, HandleSetRelayInv
<1>17. CASE HandleDevice
  BY <1>17, HandleDeviceInv
<1>18. CASE LocalProcessMessage
  BY <1>18, LocalProcessInv
<1>19. CASE LocalHandle
  BY <1>19, LocalHandleInv
<1>20. CASE UNCHANGED vars
  BY <1>20 DEF IInv, TypeOK, Places, Waiting, Gateway, Answers, Rows, Wanted, Accepted, Closing,
               Honest, Busy, vars, uiVars, pipeVars, pcVars, netVars, gwVars
<1> QED BY <1>1, <1>2, <1>3, <1>4, <1>5, <1>6, <1>7, <1>8, <1>9, <1>10, <1>11, <1>12, <1>13, <1>14,
           <1>15, <1>16, <1>17, <1>18, <1>19, <1>20
        DEF Next, User, IpcThread, RxThread, TimerThread, GatewayThread, LocalThread

\* The inductive invariant of the command chain holds in every behaviour, for
\* any number of commands, channels, losses and any capacity of the pipe.
THEOREM Inductive == Spec => []IInv
BY InitInv, StepInv, PTL DEF Spec

\* Every variable keeps its type.
THEOREM TypeCorrect == Spec => []TypeOK
<1>1. IInv => TypeOK
  BY DEF IInv
<1> QED BY <1>1, Inductive, PTL

\* A command the interface shows as successful was executed by the gateway,
\* unless a command of the gateway's own screen ran beside it.
THEOREM SuccessIsTrue == Spec => []SuccessIsOwn
<1>1. IInv => SuccessIsOwn
  BY DEF IInv, Answers, Honest, SuccessIsOwn
<1> QED BY <1>1, Inductive, PTL

\* Once the threads of Pc_data are idle, no command the interface has closed
\* is still pending or sent in command_log.
THEOREM LogFollows == Spec => []ClosedInLog
<1>1. IInv => ClosedInLog
  BY DEF IInv, Rows, Closing, Finished, ClosedInLog
<1> QED BY <1>1, Inductive, PTL

\* Executing a relay command, which writes every channel, keeps what an open
\* command before it has switched: the wanted states it carries include it, and
\* the gateway executes commands in the order they were issued.
THEOREM OpenKept == Spec => OpenCommandKept
<1> DEFINE Kept(c) == /\ cmds[c].kind = "set_relay" /\ ui[c] \in Open /\ work[c] = "done"
                      /\ relay[cmds[c].ch] = cmds[c].val
                      => relay'[cmds[c].ch] = cmds[c].val
<1>1. ASSUME IInv, GatewayThread PROVE \A c \in 1 .. Len(cmds) : Kept(c)
  <2> SUFFICES ASSUME NEW c \in 1 .. Len(cmds), HandleSetRelay,
                      cmds[c].kind = "set_relay", ui[c] \in Open, work[c] = "done",
                      relay[cmds[c].ch] = cmds[c].val
               PROVE  relay'[cmds[c].ch] = cmds[c].val
    BY <1>1 DEF GatewayThread, ProcessMessage, HandleDevice
  <2>1. Len(cmds) \in Nat /\ Len(cmds) <= MaxCmd /\ Accepted \in Nat /\ Accepted <= Len(cmds)
    BY <1>1, Contents DEF IInv
  <2>2. c \in Ids
    BY <2>1, BoundsAssumption DEF Ids
  <2>3. gm.cmd \in Ids /\ work[gm.cmd] = "taken" /\ c <= gm.cmd
    BY <1>1, <2>2 DEF IInv, Gateway, HandleSetRelay
  <2>4. gm.cmd \in 1 .. Len(cmds) /\ c < gm.cmd
    <3>1. ~(gm.cmd > Accepted)
      BY <1>1, <2>3 DEF IInv, Places
    <3>2. gm.cmd # c
      BY <2>3
    <3> QED BY <2>1, <2>2, <2>3, <3>1, <3>2, BoundsAssumption DEF Ids
  <2>5. cmds[gm.cmd].states[cmds[c].ch] = cmds[c].val
    BY <1>1, <2>4 DEF IInv, Wanted, HandleSetRelay
  <2> QED BY <2>5 DEF HandleSetRelay
<1>2. IInv /\ [Next]_vars => [GatewayThread => \A c \in 1 .. Len(cmds) : Kept(c)]_vars
  BY <1>1
<1> QED BY <1>2, Inductive, PTL DEF Spec, OpenCommandKept

\* What Pc_ui, Pc_data and Linux_data do to a command together is what
\* CommandContract allows: it is executed at most once and only while the
\* interface waits for it, and closed at most once.
THEOREM Refines == Spec => ImplementsContract
<1>1. Init => Contract!Init
  BY DEF Init, Contract!Init, Outcome, Open
<1>2. ASSUME IInv, [Next]_vars PROVE [Contract!Next]_(Contract!vars)
  <2>1. TypeOK /\ Places /\ Waiting /\ Gateway /\ Answers
    BY <1>2 DEF IInv
  <2>2. ui \in [Ids -> {"none", "success", "failed"} \cup Open]
        /\ work \in [Ids -> {"none", "taken", "done", "refused"}]
    BY <2>1 DEF TypeOK
  <2>3. ASSUME NEW command, Issue(command), work' = work
        PROVE  Contract!Next
    <3> DEFINE id == Len(cmds) + 1
    <3>1. id \in Ids /\ ui' = [ui EXCEPT ![id] = "pending"]
      BY <2>3 DEF Issue
    <3>2. ui[id] = "none"
      <4>1. Len(cmds) \in Nat
        BY <2>1, Contents
      <4> QED BY <2>1, <3>1, <4>1 DEF Places
    <3> HIDE DEF id
    <3>3. Outcome[id] = "none" /\ Outcome' = [Outcome EXCEPT ![id] = "open"]
      BY <2>2, <3>1, <3>2 DEF Outcome, Open
    <3> QED BY <2>3, <3>1, <3>3 DEF Contract!Next, Contract!Issue
  <2>4. CASE UiReceive
    <3> DEFINE m == Head(uiIn)
               v == IF m.type = "command_ack" THEN OnCommandAck(m) ELSE OnCommandLogUpdate(m)
    <3>1. m \in Message /\ m \in Elems(uiIn)
      <4>1. uiIn \in Seq(Message) /\ uiIn # <<>>
        BY <2>1, <2>4 DEF TypeOK, UiReceive
      <4> QED BY <4>1, TailElems
    <3>2. /\ m.type = "command_ack" => m.status \in {"sent", "success", "failed"}
          /\ m.type = "command_log_update" => m.status \in {"timeout", "success", "failed"}
          /\ m.type \in {"command_ack", "command_log_update"} /\ m.cmd \in Ids
      <4>1. /\ m.type = "command_ack" => m.status # "timeout"
            /\ m.type = "command_log_update" => m.status # "sent"
        BY <2>1, <3>1 DEF Places
      <4> QED BY <3>1, <4>1 DEF Message
    <3>3. /\ v \in {"success", "failed", "running", "timeout_waiting_ack"}
          /\ v = "success" => m.status = "success"
      BY <3>2 DEF OnCommandAck, OnCommandLogUpdate
    <3>4. m.status = "success" => work[m.cmd] # "none"
      BY <2>1, <3>1 DEF Answers, Honest
    <3>5. /\ ui' = IF ui[m.cmd] \in Open THEN [ui EXCEPT ![m.cmd] = v] ELSE ui
          /\ work' = work
      BY <2>4 DEF UiReceive, StillPending, gwVars
    <3> HIDE DEF m, v
    <3>6. CASE ui[m.cmd] \in Open /\ v \in {"success", "failed"}
      <4>1. Outcome[m.cmd] = "open" /\ Outcome' = [Outcome EXCEPT ![m.cmd] = v]
        BY <2>2, <3>2, <3>5, <3>6 DEF Outcome, Open
      <4> QED BY <3>2, <3>3, <3>4, <3>5, <3>6, <4>1 DEF Contract!Next, Contract!Close
    <3>7. CASE ~(ui[m.cmd] \in Open /\ v \in {"success", "failed"})
      <4>1. Outcome' = Outcome
        BY <2>2, <3>2, <3>3, <3>5, <3>7 DEF Outcome, Open
      <4> QED BY <3>5, <4>1 DEF Contract!vars
    <3> QED BY <3>6, <3>7
  <2>5. CASE ProcessMessage
    <3> DEFINE c == Head(down)
    <3>1. c \in Ids /\ c \in Elems(down)
      <4>1. down \in Seq(Ids) /\ down # <<>>
        BY <2>1, <2>5 DEF TypeOK, ProcessMessage
      <4> QED BY <4>1, TailElems
    <3>2. work[c] = "none" /\ ~Closing(c) /\ c <= Accepted
      BY <2>1, <3>1 DEF Waiting
    <3>3. ui[c] # "none"
      <4>1. Accepted \in Nat /\ Accepted <= Len(cmds) /\ Len(cmds) \in Nat
        BY <2>1, Contents
      <4> QED BY <2>1, <3>1, <3>2, <4>1 DEF Places, Ids
    <3>4. work' = [work EXCEPT ![c] = "taken"] /\ ui' = ui
      BY <2>5 DEF ProcessMessage, uiVars
    <3> HIDE DEF c
    <3>5. Outcome[c] = "open" /\ Outcome' = Outcome
      BY <2>2, <3>1, <3>2, <3>3, <3>4 DEF Outcome, Closing, Finished
    <3> QED BY <3>1, <3>2, <3>4, <3>5 DEF Contract!Next, Contract!Take
  <2>6. CASE HandleSetRelay \/ HandleDevice
    <3>1. gm.cmd \in Ids /\ work[gm.cmd] = "taken"
      BY <2>1, <2>6 DEF Gateway, HandleSetRelay, HandleDevice
    <3>2. /\ \E r \in {"done", "refused"} : work' = [work EXCEPT ![gm.cmd] = r]
          /\ ui' = ui
      BY <2>6 DEF HandleSetRelay, HandleDevice, uiVars
    <3>3. Outcome' = Outcome
      BY <3>2 DEF Outcome
    <3> QED BY <3>1, <3>2, <3>3 DEF Contract!Next, Contract!Execute
  <2>7. CASE ui' = ui /\ work' = work
    BY <2>7 DEF Contract!vars, Outcome
  <2>8. CASE User
    BY <2>3, <2>8 DEF User, SendRelayCommand, SendDeviceCommand, gwVars
  <2>9. CASE ShowStates \/ IpcThread \/ RxThread \/ TimerThread \/ LoseMessage \/ LocalThread
    <3>1. ui' = ui /\ work' = work
      BY <2>9 DEF ShowStates, IpcThread, RxThread, TimerThread, LoseMessage, LocalThread, AcceptRelay,
                  AcceptDevice, Accept, RememberPendingCommand, ReplySent, TakeAck, ReplyAck, LogAck,
                  CollectHardTimeout, LogHardTimeout, LocalProcessMessage, LocalHandle, uiVars, gwVars
    <3> QED BY <2>7, <3>1
  <2>10. CASE UNCHANGED vars
    BY <2>7, <2>10 DEF vars, uiVars, gwVars
  <2> QED BY <1>2, <2>4, <2>5, <2>6, <2>8, <2>9, <2>10 DEF Next, GatewayThread
<1> QED BY <1>1, <1>2, Inductive, PTL DEF Spec, ImplementsContract, Contract!Spec
=============================================================================
