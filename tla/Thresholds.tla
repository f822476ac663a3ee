---------------------------- MODULE Thresholds ----------------------------
(***************************************************************************)
(* The alarm thresholds of a temperature and humidity sensor, as           *)
(* operators: from the forms of the two user interfaces through the        *)
(* commands to the sensor of Linux_data, into its configuration file, to   *)
(* the point_config table of Pc_data, and the test of a reading.           *)
(*                                                                         *)
(* A JSON object is a function on the keys it has.  The two spellings of a *)
(* key (alarm_low, alarmLow) are one key here: senders write both or the   *)
(* first, and readers take either.  A limit that is JSON null, or whose    *)
(* has_ flag is 0, is NoLimit.                                             *)
(***************************************************************************)
EXTENDS Naturals, FiniteSetsExt

CONSTANTS
    NoLimit,      \* no such limit
    FormLimits,   \* limits entered in a form
    PollLimits,   \* limits a sensor is polled with
    Readings      \* values read

ASSUME ThresholdAssumption ==
    /\ FormLimits \cup PollLimits \cup Readings \subseteq Nat
    /\ NoLimit \notin Nat

Points == {"temperature", "humidity"}
PointsWith(L) == [enable_alarm : BOOLEAN, low : L \cup {NoLimit}, high : L \cup {NoLimit}]

(* sensor_threshold_config_t, and a sensor with has_config_.               *)
ConfigsWith(L) == [threshold_enabled : BOOLEAN, point : [Points -> PointsWith(L)]]
SensorsWith(L) == [has : BOOLEAN, config : ConfigsWith(L)]

ZeroPoint == [enable_alarm |-> FALSE, low |-> NoLimit, high |-> NoLimit]
ZeroConfig == [threshold_enabled |-> FALSE, point |-> [p \in Points |-> ZeroPoint]]

(* JSON: an object without keys, one with some keys of another, and the    *)
(* keys of two together.                                                   *)
NoKeys == <<>>
Only(o, keys) == [k \in keys |-> o[k]]
o ++ more == [k \in DOMAIN o \cup DOMAIN more |-> IF k \in DOMAIN o THEN o[k] ELSE more[k]]
Has(o, k) == k \in DOMAIN o
Get(o, k, default) == IF Has(o, k) THEN o[k] ELSE default

-----------------------------------------------------------------------------
(* The forms: a configuration is what is ticked and entered.               *)

Both(q) == q.low /= NoLimit /\ q.high /= NoLimit
Ticked(f) == {p \in Points : f.point[p].enable_alarm}

(* Linux_ui admits equal limits, Pc_ui does not.                           *)
ValidateThresholdConfig(f) ==
    f.threshold_enabled =>
        /\ Ticked(f) /= {}
        /\ \A p \in Ticked(f) :
              LET q == f.point[p]
              IN  /\ q.low /= NoLimit \/ q.high /= NoLimit
                  /\ Both(q) => q.low <= q.high

ValidateOptions(f) ==
    /\ ValidateThresholdConfig(f)
    /\ f.threshold_enabled =>
          \A p \in Ticked(f) : Both(f.point[p]) => f.point[p].low < f.point[p].high

(* The limits of a point that is not ticked are not sent.                  *)
PointThresholdPayload(q) ==
    Only([enable_alarm |-> q.enable_alarm, alarm_low |-> q.low, alarm_high |-> q.high],
         {"enable_alarm"} \cup {k \in {"alarm_low"}  : q.enable_alarm /\ q.low /= NoLimit}
                          \cup {k \in {"alarm_high"} : q.enable_alarm /\ q.high /= NoLimit})

ThresholdPayload(f) ==
    IF ~f.threshold_enabled THEN NoKeys
    ELSE [threshold_enabled |-> TRUE,
          thresholds |-> [p \in Points |-> PointThresholdPayload(f.point[p])]]

CollectOptions(f) == ThresholdPayload(f)

-----------------------------------------------------------------------------
(* The commands: every sender repeats the arguments under "payload".       *)

(* Widget::sendCommand *)
LocalAddDevice(f) == ThresholdPayload(f) ++ [payload |-> ThresholdPayload(f)]

(* CommandManager::sendAddDeviceCommand *)
SendAddDeviceCommand(f) ==
    CollectOptions(f) ++ [device |-> NoKeys, payload |-> CollectOptions(f)]

(* The object a command names its thresholds with.                         *)
Named(o) ==
    IF Has(o, "thresholds") THEN Only(o, {"thresholds"})
    ELSE IF Has(o, "threshold_config") THEN Only(o, {"threshold_config"})
    ELSE NoKeys

Enabled(o) == [threshold_enabled |-> Get(o, "threshold_enabled", TRUE)]

(* Pc_data, add_device: whether thresholds are enabled is not repeated     *)
(* under "payload".                                                        *)
ForwardAddDevice(root) ==
    (IF Named(root) = NoKeys THEN NoKeys ELSE Enabled(root) ++ Named(root))
      ++ [device |-> NoKeys, payload |-> Named(root)]

(* Pc_data, set_device_threshold; refused without thresholds.              *)
ForwardSetThreshold(root) ==
    LET request == Get(root, "payload", root)
        sent == Enabled(request) ++ Named(request)
    IN  sent ++ [payload |-> sent]

-----------------------------------------------------------------------------
(* Linux_data                                                              *)

CommandEffectiveRoot(root) == Get(root, "payload", root)

ParsePointThreshold(o) ==
    [enable_alarm |-> Get(o, "enable_alarm", FALSE),
     low  |-> Get(o, "alarm_low", NoLimit),
     high |-> Get(o, "alarm_high", NoLimit)]

HighKey(p) == IF p = "temperature" THEN "temp_high" ELSE "humi_high"

(* A point described by an object replaces the single limit of the older   *)
(* form, which enables the alarm.                                          *)
ParseSensorThresholdConfig(root) ==
    LET compat == Get(root, "threshold_config", NoKeys)
        thresholds == Get(root, "thresholds", Get(compat, "thresholds", NoKeys))
        single(p) == Get(thresholds, HighKey(p),
                         Get(root, HighKey(p), Get(compat, HighKey(p), NoLimit)))
    IN  [has    |-> \/ \E k \in {"threshold_enabled", "threshold_config", "thresholds"} : Has(root, k)
                    \/ \E p \in Points : Has(root, HighKey(p)),
         config |-> [threshold_enabled |->
                         Get(compat, "enable", Get(root, "threshold_enabled", FALSE)),
                     point |-> [p \in Points |->
                         IF Has(thresholds, p) THEN ParsePointThreshold(thresholds[p])
                         ELSE [ZeroPoint EXCEPT !.enable_alarm = single(p) /= NoLimit,
                                                !.high = single(p)]]]]

HandleAddDevice(root) ==
    LET r == CommandEffectiveRoot(root)
    IN  ParseSensorThresholdConfig(Get(r, "device", r))

HandleSetDeviceThreshold(root) == ParseSensorThresholdConfig(CommandEffectiveRoot(root))

(* The configuration file and the snapshot describe a sensor alike.        *)
ThresholdPointToJson(q) ==
    [enable_alarm |-> q.enable_alarm, alarm_low |-> q.low, alarm_high |-> q.high]

(* Mutant of ThresholdConfigToJson: a point's alarm is saved as it takes   *)
(* effect.                                                                 *)
MutThresholdConfigToJson(c) ==
    [threshold_enabled |-> c.threshold_enabled,
     thresholds |-> [p \in Points |->
         ThresholdPointToJson([c.point[p] EXCEPT !.enable_alarm = @ /\ c.threshold_enabled])]]

ThresholdConfigToJson(c) ==
    [threshold_enabled |-> c.threshold_enabled,
     thresholds |-> [p \in Points |-> ThresholdPointToJson(c.point[p])]]

ThresholdPointFromJson(o) ==
    [enable_alarm |-> Get(o, "enable_alarm", FALSE),
     low |-> Get(o, "alarm_low", NoLimit), high |-> Get(o, "alarm_high", NoLimit)]

ThresholdConfigFromJson(o) ==
    LET thresholds == Get(o, "thresholds", o)
    IN  [threshold_enabled |-> Get(o, "threshold_enabled", FALSE),
         point |-> [p \in Points |-> IF Has(thresholds, p)
                                     THEN ThresholdPointFromJson(thresholds[p]) ELSE ZeroPoint]]

WriteConfig(s) == IF s.has THEN [threshold_config |-> ThresholdConfigToJson(s.config)] ELSE NoKeys

LoadDevice(item) ==
    [has |-> Has(item, "threshold_config"),
     config |-> ThresholdConfigFromJson(Get(item, "threshold_config", NoKeys))]

(* exportConfigSnapshotJson: the devices of the slots, then those of the   *)
(* file that the slots do not have; only the wanted ones if any are named. *)
Accepts(wanted, d) == wanted = {} \/ d \in wanted

DeviceJson(s) == [threshold_enabled |-> s.has /\ s.config.threshold_enabled] ++ WriteConfig(s)

SlotDevices(slots, wanted) ==
    [d \in {x \in DOMAIN slots : Accepts(wanted, x)} |-> DeviceJson(slots[d])]

SavedDevices(slots, file, wanted) ==
    [d \in {x \in DOMAIN file \ DOMAIN slots : Accepts(wanted, x)} |->
        DeviceJson(LoadDevice(file[d]))]

ExportConfigSnapshot(slots, file, wanted) ==
    [full    |-> wanted = {},
     devices |-> SlotDevices(slots, wanted) ++ SavedDevices(slots, file, wanted)]

(* publishThresholdConfig, for a sensor that has a configuration.          *)
PublishThresholdConfig(c) ==
    [threshold_enabled |-> c.threshold_enabled,
     points |-> [p \in Points |->
         ThresholdPointToJson([c.point[p] EXCEPT !.enable_alarm = @ /\ c.threshold_enabled])]]

-----------------------------------------------------------------------------
(* Pc_data: the rows of point_config a message leads to                    *)

(* Older gateways send no points; a row then needs an upper limit.         *)
AppendLegacyThresholdConfig(dev, thresholds, compat) ==
    LET high(p) == Get(thresholds, HighKey(p), Get(compat, HighKey(p), NoLimit))
        enable == Get(compat, "enable", Get(dev, "threshold_enabled", FALSE))
    IN  [p \in {x \in Points : high(x) /= NoLimit} |->
            [ZeroPoint EXCEPT !.enable_alarm = enable, !.high = high(p)]]

ParsePointConfigs(dev) ==
    LET compat == Get(dev, "threshold_config", NoKeys)
        thresholds == Get(dev, "thresholds", Get(compat, "thresholds", NoKeys))
        row(p, o) ==
            [enable_alarm |-> Get(compat, "enable",
                                  Get(o, "enable_alarm", Get(dev, "threshold_enabled", FALSE))),
             low  |-> Get(o, "alarm_low", NoLimit),
             high |-> IF Get(o, "alarm_high", NoLimit) /= NoLimit THEN o["alarm_high"]
                      ELSE Get(thresholds, HighKey(p), Get(compat, HighKey(p), NoLimit))]
    IN  IF Has(dev, "points") THEN [p \in DOMAIN dev["points"] |-> row(p, dev["points"][p])]
        ELSE AppendLegacyThresholdConfig(dev, thresholds, compat)

AppendThresholdPointConfig(o) ==
    [enable_alarm |-> Get(o, "enable_alarm", FALSE),
     low |-> Get(o, "alarm_low", NoLimit), high |-> Get(o, "alarm_high", NoLimit)]

(* parseConfigSnapshot reads the points and not whether thresholds are     *)
(* enabled for the device.                                                 *)
SnapshotPointConfigs(dev) ==
    LET thresholds == Get(Get(dev, "threshold_config", NoKeys), "thresholds", NoKeys)
    IN  [p \in Points \cap DOMAIN thresholds |-> AppendThresholdPointConfig(thresholds[p])]

-----------------------------------------------------------------------------
(* The test of a reading, on the polling thread                            *)

OutOfRange(q, v) ==
    \/ q.high /= NoLimit /\ v > q.high
    \/ q.low /= NoLimit /\ v < q.low

(* Mutant of CheckPoint: a value back in range does not end the alarm.     *)
MutCheckPoint(q, v, last) ==
    IF ~q.enable_alarm \/ ~OutOfRange(q, v) THEN [fired |-> FALSE, last |-> last]
    ELSE [fired |-> ~last, last |-> TRUE]

(* Mutant of CheckPoint: last_state is not looked at.                      *)
MutCheckPointAgain(q, v, last) ==
    IF ~q.enable_alarm THEN [fired |-> FALSE, last |-> last]
    ELSE [fired |-> OutOfRange(q, v), last |-> OutOfRange(q, v)]

(* Whether an alarm is raised, and last_state afterwards.                  *)
CheckPoint(q, v, last) ==
    IF ~q.enable_alarm THEN [fired |-> FALSE, last |-> last]
    ELSE IF ~OutOfRange(q, v) THEN [fired |-> FALSE, last |-> FALSE]
    ELSE [fired |-> ~last, last |-> TRUE]

(* One event per poll: the humidity is not looked at when the temperature  *)
(* raises an alarm.                                                        *)
CheckThreshold(s, r, last) ==
    LET t == CheckPoint(s.config.point["temperature"], r["temperature"], last["temperature"])
        h == CheckPoint(s.config.point["humidity"], r["humidity"], last["humidity"])
    IN  IF ~s.has \/ ~s.config.threshold_enabled THEN [alarm |-> "none", last |-> last]
        ELSE IF t.fired THEN [alarm |-> "temperature",
                              last |-> [last EXCEPT !["temperature"] = t.last]]
        ELSE [alarm |-> IF h.fired THEN "humidity" ELSE "none",
              last |-> [temperature |-> t.last, humidity |-> h.last]]

-----------------------------------------------------------------------------
(* What the operators above are to agree with                              *)

(* The limits in force: what a form means, and what a sensor tests.        *)
InForce(c) ==
    {x \in Points \X {"low", "high"} \X (FormLimits \cup PollLimits) :
        c.threshold_enabled /\ c.point[x[1]].enable_alarm /\ c.point[x[1]][x[2]] = x[3]}
Tested(s) == IF s.has THEN InForce(s.config) ELSE {}

(* The rows of point_config with an alarm.                                 *)
Rows(pc) ==
    {x \in Points \X {"low", "high"} \X (FormLimits \cup PollLimits) :
        x[1] \in DOMAIN pc /\ pc[x[1]].enable_alarm /\ pc[x[1]][x[2]] = x[3]}

(* The limits an operator enters are the ones the sensor tests: from the   *)
(* form of Linux_ui, and from a set_device_threshold with the arguments of *)
(* Pc_ui's form (data_command.c:147). add_device from Pc_ui brings the     *)
(* same limits, disabled (IpcMessageHandler.cpp:877). A restart changes    *)
(* nothing (thresholdConfigFromJson), and the rows of Pc_data are the      *)
(* limits tested: after threshold_config, and after a snapshot of enabled  *)
(* thresholds, connected or from the file.                                 *)
LimitsArrive ==
    /\ \A f \in ConfigsWith(FormLimits) :
          LET local == HandleAddDevice(LocalAddDevice(f))
              added == HandleAddDevice(ForwardAddDevice(SendAddDeviceCommand(f)))
              set == HandleSetDeviceThreshold(ForwardSetThreshold(SendAddDeviceCommand(f)))
          IN  /\ ValidateThresholdConfig(f) => Tested(local) = InForce(f)
              /\ ValidateOptions(f) =>
                    /\ InForce([added.config EXCEPT !.threshold_enabled = f.threshold_enabled])
                         = InForce(f)
                    /\ f.threshold_enabled => Tested(set) = InForce(f)
    /\ \A s \in SensorsWith(PollLimits) :
          LET file == <<WriteConfig(s)>>
              sent == {ExportConfigSnapshot(<<s>>, file, {}), ExportConfigSnapshot(NoKeys, file, {1})}
          IN  s.has =>
                /\ LoadDevice(file[1]) = s
                /\ Rows(ParsePointConfigs(PublishThresholdConfig(s.config))) = Tested(s)
                /\ s.config.threshold_enabled =>
                      \A m \in sent : Rows(SnapshotPointConfigs(m.devices[1])) = Tested(s)

=============================================================================
