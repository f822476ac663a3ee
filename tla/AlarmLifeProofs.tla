--------------------------- MODULE AlarmLifeProofs ---------------------------
(***************************************************************************)
(* Proofs about AlarmLife and the operators of Thresholds, for any alarms, *)
(* limits and readings, any thresholds of the sensor and any bounds.       *)
(***************************************************************************)
EXTENDS AlarmLife, WellFoundedInduction, TLAPS

-----------------------------------------------------------------------------
(* JSON                                                                    *)

\* The keys of two objects together, and what they hold.
LEMMA Together ==
  ASSUME NEW o, NEW more, NEW k
  PROVE  /\ Has(o ++ more, k) <=> Has(o, k) \/ Has(more, k)
         /\ Has(o, k) => (o ++ more)[k] = o[k]
         /\ ~Has(o, k) /\ Has(more, k) => (o ++ more)[k] = more[k]
BY DEF ++, Has

\* An object without keys.
LEMMA Nothing == \A k : ~Has(NoKeys, k)
BY DEF NoKeys, Has

\* Some keys of an object.
LEMMA OnlyKeys ==
  ASSUME NEW o, NEW keys, NEW k
  PROVE  /\ Has(Only(o, keys), k) <=> k \in keys
         /\ k \in keys => Only(o, keys)[k] = o[k]
BY DEF Only, Has

-----------------------------------------------------------------------------
(* Thresholds from a form to the sensor                                    *)

\* What arrives of a point: the limits of one that is not ticked are not sent.
Sent(q) == [enable_alarm |-> q.enable_alarm,
            low  |-> IF q.enable_alarm THEN q.low ELSE NoLimit,
            high |-> IF q.enable_alarm THEN q.high ELSE NoLimit]

\* A point is read back as it was sent.
LEMMA PointArrives ==
  ASSUME NEW L, NEW q \in PointsWith(L)
  PROVE  ParsePointThreshold(PointThresholdPayload(q)) = Sent(q)
  <1> DEFINE whole == [enable_alarm |-> q.enable_alarm, alarm_low |-> q.low, alarm_high |-> q.high]
             keys == {"enable_alarm"}
                        \cup {k \in {"alarm_low"}  : q.enable_alarm /\ q.low /= NoLimit}
                        \cup {k \in {"alarm_high"} : q.enable_alarm /\ q.high /= NoLimit}
  <1>1. PointThresholdPayload(q) = Only(whole, keys) BY DEF PointThresholdPayload
  <1>2. /\ "enable_alarm" \in keys
        /\ "alarm_low" \in keys <=> q.enable_alarm /\ q.low /= NoLimit
        /\ "alarm_high" \in keys <=> q.enable_alarm /\ q.high /= NoLimit
    OBVIOUS
  <1>3. /\ whole["enable_alarm"] = q.enable_alarm
        /\ whole["alarm_low"] = q.low /\ whole["alarm_high"] = q.high
    OBVIOUS
  <1> HIDE DEF whole, keys
  <1>4. Get(Only(whole, keys), "enable_alarm", FALSE) = q.enable_alarm
    BY <1>2, <1>3, OnlyKeys DEF Get
  <1>5. Get(Only(whole, keys), "alarm_low", NoLimit) = IF q.enable_alarm THEN q.low ELSE NoLimit
    BY <1>2, <1>3, OnlyKeys DEF Get
  <1>6. Get(Only(whole, keys), "alarm_high", NoLimit) = IF q.enable_alarm THEN q.high ELSE NoLimit
    BY <1>2, <1>3, OnlyKeys DEF Get
  <1> QED BY <1>1, <1>4, <1>5, <1>6 DEF ParsePointThreshold, Sent

\* The thresholds of a form, as the object under "thresholds".
Limits(f) == [p \in Points |-> PointThresholdPayload(f.point[p])]

\* A command with these thresholds, and without the older names.
LEMMA ThresholdsParsed ==
  ASSUME NEW L, NEW f \in ConfigsWith(L), NEW root,
         Has(root, "thresholds"), root["thresholds"] = Limits(f), ~Has(root, "threshold_config")
  PROVE  LET s == ParseSensorThresholdConfig(root)
         IN  /\ s.has
             /\ s.config = [threshold_enabled |-> Get(root, "threshold_enabled", FALSE),
                            point |-> [p \in Points |-> Sent(f.point[p])]]
  <1>1. Get(root, "threshold_config", NoKeys) = NoKeys BY DEF Get
  <1>2. Get(root, "thresholds", Get(NoKeys, "thresholds", NoKeys)) = Limits(f) BY DEF Get
  <1>3. \A x : Get(NoKeys, "enable", x) = x BY Nothing DEF Get
  <1>4. \A p \in Points : f.point[p] \in PointsWith(L) BY DEF ConfigsWith
  <1>5. \A p \in Points : Has(Limits(f), p)
                          /\ ParsePointThreshold(Limits(f)[p]) = Sent(f.point[p])
    BY <1>4, PointArrives DEF Limits, Has
  <1> DEFINE s == ParseSensorThresholdConfig(root)
             single(p) == Get(Limits(f), HighKey(p),
                              Get(root, HighKey(p), Get(NoKeys, HighKey(p), NoLimit)))
             point == [p \in Points |->
                         IF Has(Limits(f), p) THEN ParsePointThreshold(Limits(f)[p])
                         ELSE [ZeroPoint EXCEPT !.enable_alarm = single(p) /= NoLimit,
                                                !.high = single(p)]]
  <1>6. s = [has |-> s.has,
             config |-> [threshold_enabled |->
                           Get(NoKeys, "enable", Get(root, "threshold_enabled", FALSE)),
                         point |-> point]]
    BY <1>1, <1>2, Zenon DEF ParseSensorThresholdConfig
  <1>7. s.has BY DEF ParseSensorThresholdConfig
  <1>8. point = [p \in Points |-> Sent(f.point[p])] BY <1>5
  <1> HIDE DEF s, point
  <1>9. s.config = [threshold_enabled |-> Get(root, "threshold_enabled", FALSE), point |-> point]
    <2>1. \E has, on : s = [has |-> has, config |-> [threshold_enabled |-> on, point |-> point]]
                       /\ on = Get(NoKeys, "enable", Get(root, "threshold_enabled", FALSE))
      BY <1>6, Zenon
    <2>2. Get(NoKeys, "enable", Get(root, "threshold_enabled", FALSE))
            = Get(root, "threshold_enabled", FALSE)
      BY <1>3
    <2>3. PICK has, on :
              /\ s = [has |-> has, config |-> [threshold_enabled |-> on, point |-> point]]
              /\ on = Get(NoKeys, "enable", Get(root, "threshold_enabled", FALSE))
      BY <2>1
    <2>4. s.config = [threshold_enabled |-> on, point |-> point] BY <2>3
    <2>5. on = Get(root, "threshold_enabled", FALSE) BY <2>2, <2>3
    <2> QED BY <2>4, <2>5
  <1> QED BY <1>7, <1>8, <1>9 DEF s

\* The limits of points that are not ticked are not in force, sent or not.
LEMMA SentInForce ==
  ASSUME NEW L, NEW f \in ConfigsWith(L), NEW c, c.threshold_enabled <=> f.threshold_enabled,
         c.point = [p \in Points |-> Sent(f.point[p])]
  PROVE  InForce(c) = InForce(f)
  <1>1. \A p \in Points : f.point[p] \in PointsWith(L) BY DEF ConfigsWith
  <1>2. ASSUME NEW p \in Points, NEW k \in {"low", "high"}, NEW x \in FormLimits \cup PollLimits
        PROVE  c.point[p].enable_alarm /\ c.point[p][k] = x
                 <=> f.point[p].enable_alarm /\ f.point[p][k] = x
    <2>1. c.point[p] = Sent(f.point[p]) BY <1>2
    <2>2. x /= NoLimit BY ThresholdAssumption
    <2>3. f.point[p].enable_alarm \in BOOLEAN BY <1>1 DEF PointsWith
    <2>4. Sent(f.point[p]).enable_alarm = f.point[p].enable_alarm BY DEF Sent
    <2>5. f.point[p].enable_alarm => Sent(f.point[p])[k] = f.point[p][k] BY DEF Sent
    <2> QED BY <2>1, <2>3, <2>4, <2>5
  <1> QED BY <1>2 DEF InForce

\* Thresholds that are not enabled are not in force.
LEMMA DisabledForce == ASSUME NEW c, ~c.threshold_enabled PROVE InForce(c) = {}
BY DEF InForce

\* A configuration is read from an object with a key of thresholds.
LEMMA NothingParsed ==
  ASSUME NEW root, \A k : ~Has(root, k)
  PROVE  ~ParseSensorThresholdConfig(root).has
BY DEF ParseSensorThresholdConfig

\* What a form sends, enabled or not.
LEMMA EnabledPayload ==
  ASSUME NEW f, f.threshold_enabled
  PROVE  /\ \A k : Has(ThresholdPayload(f), k) <=> k \in {"threshold_enabled", "thresholds"}
         /\ ThresholdPayload(f)["threshold_enabled"] = TRUE
         /\ ThresholdPayload(f)["thresholds"] = Limits(f)
  <1>1. ThresholdPayload(f) = [threshold_enabled |-> TRUE, thresholds |-> Limits(f)]
    BY DEF ThresholdPayload, Limits
  <1> HIDE DEF ThresholdPayload
  <1> QED BY <1>1 DEF Has

\* Disabled thresholds are not sent.
LEMMA DisabledPayload ==
  ASSUME NEW f, ~f.threshold_enabled
  PROVE  ThresholdPayload(f) = NoKeys
BY DEF ThresholdPayload

\* A form sends no other keys.
LEMMA PayloadKeys ==
  ASSUME NEW f, NEW k, Has(ThresholdPayload(f), k)
  PROVE  k \in {"threshold_enabled", "thresholds"}
  <1>1. CASE f.threshold_enabled BY <1>1, EnabledPayload
  <1>2. CASE ~f.threshold_enabled BY <1>2, DisabledPayload, Nothing
  <1> QED BY <1>1, <1>2

\* The payload comes last in a command, and is read first.
LEMMA PayloadRead ==
  ASSUME NEW o, ~Has(o, "payload"), NEW sent
  PROVE  CommandEffectiveRoot(o ++ [payload |-> sent]) = sent
  <1>1. Has([payload |-> sent], "payload") /\ [payload |-> sent]["payload"] = sent BY DEF Has
  <1> QED BY <1>1, Together DEF CommandEffectiveRoot, Get

\* Likewise when a device comes with it.
LEMMA DevicePayloadRead ==
  ASSUME NEW o, ~Has(o, "payload"), NEW sent
  PROVE  LET root == o ++ [device |-> NoKeys, payload |-> sent]
         IN  /\ CommandEffectiveRoot(root) = sent
             /\ \A k : Has(root, k) <=> Has(o, k) \/ k \in {"device", "payload"}
             /\ \A k : Has(o, k) => root[k] = o[k]
  <1> DEFINE more == [device |-> NoKeys, payload |-> sent]
  <1>1. /\ \A k : Has(more, k) <=> k \in {"device", "payload"}
        /\ more["payload"] = sent
    BY DEF Has
  <1> HIDE DEF more
  <1>2. /\ \A k : Has(o ++ more, k) <=> Has(o, k) \/ k \in {"device", "payload"}
        /\ \A k : Has(o, k) => (o ++ more)[k] = o[k]
        /\ (o ++ more)["payload"] = sent
    BY <1>1, Together
  <1>3. CommandEffectiveRoot(o ++ more) = sent BY <1>2 DEF CommandEffectiveRoot, Get
  <1> QED BY <1>2, <1>3 DEF more

\* The thresholds an object names are passed on under the same key.
LEMMA NamedThresholds ==
  ASSUME NEW o
  PROVE  /\ \A k : Has(Named(o), k) => k \in {"thresholds", "threshold_config"}
         /\ Has(o, "thresholds") => /\ \A k : Has(Named(o), k) <=> k = "thresholds"
                                    /\ Named(o)["thresholds"] = o["thresholds"]
         /\ ~Has(o, "thresholds") /\ ~Has(o, "threshold_config") => Named(o) = NoKeys
  <1>1. CASE Has(o, "thresholds") BY <1>1, OnlyKeys DEF Named
  <1>2. CASE ~Has(o, "thresholds") /\ Has(o, "threshold_config") BY <1>2, OnlyKeys DEF Named
  <1>3. CASE ~Has(o, "thresholds") /\ ~Has(o, "threshold_config") BY <1>3, Nothing DEF Named
  <1> QED BY <1>1, <1>2, <1>3

\* A parsed configuration has its two fields.
LEMMA ParsedConfig ==
  ASSUME NEW root
  PROVE  \E on, point : ParseSensorThresholdConfig(root).config
                          = [threshold_enabled |-> on, point |-> point]
BY DEF ParseSensorThresholdConfig

\* From the form of Linux_ui.
LEMMA LocalArrives ==
  ASSUME NEW L, NEW f \in ConfigsWith(L)
  PROVE  Tested(HandleAddDevice(LocalAddDevice(f))) = InForce(f)
  <1> DEFINE sent == ThresholdPayload(f)
             root == LocalAddDevice(f)
  <1>0. /\ ~Has(sent, "payload") /\ ~Has(sent, "device") /\ ~Has(sent, "threshold_config")
    BY PayloadKeys
  <1> HIDE DEF sent
  <1>1. CommandEffectiveRoot(root) = sent BY <1>0, PayloadRead DEF LocalAddDevice, sent
  <1>2. HandleAddDevice(root) = ParseSensorThresholdConfig(sent)
    BY <1>0, <1>1 DEF HandleAddDevice, Get
  <1> HIDE DEF root
  <1>3. CASE ~f.threshold_enabled
    <2>1. \A k : ~Has(sent, k) BY <1>3, DisabledPayload, Nothing DEF sent
    <2> QED BY <1>2, <1>3, <2>1, NothingParsed, DisabledForce DEF Tested, root
  <1>4. CASE f.threshold_enabled
    <2>1. Has(sent, "thresholds") /\ sent["thresholds"] = Limits(f)
          /\ Has(sent, "threshold_enabled") /\ sent["threshold_enabled"] = TRUE
      BY <1>4, EnabledPayload DEF sent
    <2>2. Get(sent, "threshold_enabled", FALSE) = TRUE BY <2>1 DEF Get
    <2> DEFINE s == ParseSensorThresholdConfig(sent)
    <2> HIDE DEF s
    <2>3. s.has /\ s.config = [threshold_enabled |-> TRUE, point |-> [p \in Points |-> Sent(f.point[p])]]
      BY <1>0, <2>1, <2>2, ThresholdsParsed DEF s
    <2>4. s.config.threshold_enabled <=> f.threshold_enabled BY <1>4, <2>3
    <2>5. s.config.point = [p \in Points |-> Sent(f.point[p])] BY <2>3
    <2>6. InForce(s.config) = InForce(f) BY <2>4, <2>5, SentInForce
    <2> QED BY <1>2, <2>3, <2>6 DEF Tested, s, root
  <1> QED BY <1>3, <1>4


\* From add_device of Pc_ui: the limits of the form, disabled.
LEMMA AddedArrives ==
  ASSUME NEW L, NEW f \in ConfigsWith(L)
  PROVE  LET added == HandleAddDevice(ForwardAddDevice(SendAddDeviceCommand(f)))
         IN  InForce([added.config EXCEPT !.threshold_enabled = f.threshold_enabled]) = InForce(f)
  <1> DEFINE sent == ThresholdPayload(f)
             root == SendAddDeviceCommand(f)
             fore == IF Named(root) = NoKeys THEN NoKeys ELSE Enabled(root) ++ Named(root)
             added == ParseSensorThresholdConfig(Named(root))
  <1>1. ~Has(sent, "payload") /\ ~Has(sent, "device") /\ ~Has(sent, "threshold_config")
    BY PayloadKeys
  <1>2. /\ \A k : Has(root, k) <=> Has(sent, k) \/ k \in {"device", "payload"}
        /\ \A k : Has(sent, k) => root[k] = sent[k]
    BY <1>1, DevicePayloadRead DEF SendAddDeviceCommand, CollectOptions
  <1> HIDE DEF sent, root
  <1>3. ~Has(fore, "payload") /\ ~Has(Named(root), "device") /\ ~Has(Named(root), "threshold_config")
    <2>1. \A k : Has(Named(root), k) => k = "thresholds" BY <1>1, <1>2, NamedThresholds, Nothing
    <2>2. ~Has(Enabled(root), "payload") BY DEF Enabled, Has
    <2> QED BY <2>1, <2>2, Together, Nothing
  <1> HIDE DEF fore
  <1>4. HandleAddDevice(ForwardAddDevice(root)) = added
    <2>1. ForwardAddDevice(root) = fore ++ [device |-> NoKeys, payload |-> Named(root)]
      BY Zenon DEF ForwardAddDevice, fore
    <2>2. CommandEffectiveRoot(ForwardAddDevice(root)) = Named(root) BY <1>3, <2>1, DevicePayloadRead
    <2> QED BY <1>3, <2>2 DEF HandleAddDevice, Get
  <1> DEFINE c == [added.config EXCEPT !.threshold_enabled = f.threshold_enabled]
  <1>5. c.threshold_enabled = f.threshold_enabled /\ c.point = added.config.point
    <2>1. PICK on, point : added.config = [threshold_enabled |-> on, point |-> point] BY ParsedConfig
    <2> HIDE DEF added
    <2> QED BY <2>1
  <1>6. InForce(c) = InForce(f)
    <2>1. CASE ~f.threshold_enabled BY <1>5, <2>1, DisabledForce
    <2>2. CASE f.threshold_enabled
      <3>1. Has(Named(root), "thresholds") /\ Named(root)["thresholds"] = Limits(f)
        BY <1>2, <2>2, EnabledPayload, NamedThresholds DEF sent
      <3> HIDE DEF added, c
      <3>2. added.config = [threshold_enabled |-> Get(Named(root), "threshold_enabled", FALSE),
                            point |-> [p \in Points |-> Sent(f.point[p])]]
        BY <1>3, <3>1, ThresholdsParsed DEF added
      <3> QED BY <1>5, <3>2, SentInForce
    <2> QED BY <2>1, <2>2
  <1> QED BY <1>4, <1>6 DEF root

\* From set_device_threshold of Pc_ui.
LEMMA SetArrives ==
  ASSUME NEW L, NEW f \in ConfigsWith(L), f.threshold_enabled
  PROVE  Tested(HandleSetDeviceThreshold(ForwardSetThreshold(SendAddDeviceCommand(f)))) = InForce(f)
  <1> DEFINE sent == ThresholdPayload(f)
             root == SendAddDeviceCommand(f)
             fore == Enabled(sent) ++ Named(sent)
             s == ParseSensorThresholdConfig(fore)
  <1>1. ~Has(sent, "payload") BY PayloadKeys
  <1>2. Get(root, "payload", root) = sent
    BY <1>1, DevicePayloadRead DEF SendAddDeviceCommand, CollectOptions, CommandEffectiveRoot
  <1>3. Has(sent, "thresholds") /\ sent["thresholds"] = Limits(f)
        /\ Has(sent, "threshold_enabled") /\ sent["threshold_enabled"] = TRUE
    BY EnabledPayload
  <1> HIDE DEF sent
  <1>4. /\ \A k : Has(Enabled(sent), k) <=> k = "threshold_enabled"
        /\ Enabled(sent)["threshold_enabled"] = TRUE
    BY <1>3 DEF Enabled, Has, Get
  <1>5. /\ \A k : Has(fore, k) <=> k \in {"threshold_enabled", "thresholds"}
        /\ fore["threshold_enabled"] = TRUE /\ fore["thresholds"] = Limits(f)
    BY <1>3, <1>4, NamedThresholds, Together
  <1>6. ForwardSetThreshold(root) = fore ++ [payload |-> fore]
    BY <1>2, Zenon DEF ForwardSetThreshold
  <1> HIDE DEF fore
  <1>7. HandleSetDeviceThreshold(ForwardSetThreshold(root)) = s
    BY <1>5, <1>6, PayloadRead DEF HandleSetDeviceThreshold
  <1> HIDE DEF root
  <1> HIDE DEF s
  <1>8. s.has /\ s.config = [threshold_enabled |-> TRUE, point |-> [p \in Points |-> Sent(f.point[p])]]
    <2>1. Get(fore, "threshold_enabled", FALSE) = TRUE BY <1>5 DEF Get
    <2>2. Has(fore, "thresholds") /\ fore["thresholds"] = Limits(f) /\ ~Has(fore, "threshold_config")
      BY <1>5
    <2> QED BY <2>1, <2>2, ThresholdsParsed DEF s
  <1>9. (s.config.threshold_enabled <=> f.threshold_enabled)
        /\ s.config.point = [p \in Points |-> Sent(f.point[p])]
    BY <1>8
  <1> QED BY <1>7, <1>8, <1>9, SentInForce DEF Tested, root, s

-----------------------------------------------------------------------------
(* Thresholds from the sensor to the file and to point_config              *)

\* The object a point is saved as has its three keys.
LEMMA SavedPoint ==
  ASSUME NEW q
  PROVE  LET o == ThresholdPointToJson(q)
         IN  /\ Get(o, "enable_alarm", FALSE) = q.enable_alarm
             /\ Get(o, "alarm_low", NoLimit) = q.low
             /\ Get(o, "alarm_high", NoLimit) = q.high
             /\ o["alarm_high"] = q.high
  <1> DEFINE o == ThresholdPointToJson(q)
  <1>1. /\ Has(o, "enable_alarm") /\ o["enable_alarm"] = q.enable_alarm
        /\ Has(o, "alarm_low") /\ o["alarm_low"] = q.low
        /\ Has(o, "alarm_high") /\ o["alarm_high"] = q.high
    BY DEF ThresholdPointToJson, Has
  <1> HIDE DEF o
  <1> QED BY <1>1 DEF Get, o

\* A point is loaded as it was saved.
LEMMA PointLoads ==
  ASSUME NEW L, NEW q \in PointsWith(L)
  PROVE  /\ ThresholdPointFromJson(ThresholdPointToJson(q)) = q
         /\ AppendThresholdPointConfig(ThresholdPointToJson(q)) = q
  <1>1. q = [enable_alarm |-> q.enable_alarm, low |-> q.low, high |-> q.high] BY DEF PointsWith
  <1> QED BY <1>1, SavedPoint DEF ThresholdPointFromJson, AppendThresholdPointConfig

\* The object a configuration is saved as.
LEMMA SavedConfig ==
  ASSUME NEW c
  PROVE  LET o == ThresholdConfigToJson(c)
         IN  /\ Has(o, "threshold_enabled") /\ o["threshold_enabled"] = c.threshold_enabled
             /\ Has(o, "thresholds")
             /\ o["thresholds"] = [p \in Points |-> ThresholdPointToJson(c.point[p])]
  <1> DEFINE points == [p \in Points |-> ThresholdPointToJson(c.point[p])]
  <1>1. ThresholdConfigToJson(c) = [threshold_enabled |-> c.threshold_enabled, thresholds |-> points]
    BY DEF ThresholdConfigToJson
  <1> HIDE DEF points
  <1> QED BY <1>1 DEF Has, points

\* A configuration is loaded as it was saved.
LEMMA ConfigLoads ==
  ASSUME NEW L, NEW c \in ConfigsWith(L)
  PROVE  ThresholdConfigFromJson(ThresholdConfigToJson(c)) = c
  <1> DEFINE o == ThresholdConfigToJson(c)
             points == [p \in Points |-> ThresholdPointToJson(c.point[p])]
             loaded == [p \in Points |-> IF Has(points, p) THEN ThresholdPointFromJson(points[p])
                                                           ELSE ZeroPoint]
  <1>1. Get(o, "thresholds", o) = points /\ Get(o, "threshold_enabled", FALSE) = c.threshold_enabled
    BY SavedConfig DEF Get
  <1>2. loaded = c.point
    <2>1. \A p \in Points : c.point[p] \in PointsWith(L) BY DEF ConfigsWith
    <2>2. \A p \in Points : Has(points, p) /\ ThresholdPointFromJson(points[p]) = c.point[p]
      BY <2>1, PointLoads DEF Has
    <2>3. loaded = [p \in Points |-> c.point[p]] BY <2>2
    <2>4. c.point = [p \in Points |-> c.point[p]] BY DEF ConfigsWith
    <2> QED BY <2>3, <2>4
  <1>3. c = [threshold_enabled |-> c.threshold_enabled, point |-> c.point] BY DEF ConfigsWith
  <1>4. ThresholdConfigFromJson(o) = [threshold_enabled |-> c.threshold_enabled, point |-> loaded]
    BY <1>1 DEF ThresholdConfigFromJson
  <1> HIDE DEF loaded
  <1> QED BY <1>2, <1>3, <1>4

\* A restart loads the sensor that was saved.
LEMMA SensorLoads ==
  ASSUME NEW L, NEW s \in SensorsWith(L), s.has
  PROVE  LoadDevice(WriteConfig(s)) = s
  <1> DEFINE o == ThresholdConfigToJson(s.config)
             item == [threshold_config |-> o]
  <1>1. s.config \in ConfigsWith(L) /\ s = [has |-> TRUE, config |-> s.config] BY DEF SensorsWith
  <1>2. ThresholdConfigFromJson(o) = s.config BY <1>1, ConfigLoads
  <1> HIDE DEF o
  <1>3. WriteConfig(s) = item BY DEF WriteConfig, o
  <1>4. Has(item, "threshold_config") /\ Get(item, "threshold_config", NoKeys) = o BY DEF Has, Get
  <1> HIDE DEF item
  <1>5. LoadDevice(item) = [has |-> TRUE, config |-> s.config]
    <2>1. Has(item, "threshold_config") = TRUE BY <1>4 DEF Has
    <2> QED BY <1>2, <1>4, <2>1 DEF LoadDevice
  <1> QED BY <1>1, <1>3, <1>5

\* Rows that hold the limits of a configuration, with an alarm where it has one in force.
LEMMA RowsInForce ==
  ASSUME NEW c, NEW pc, DOMAIN pc = Points,
         \A p \in Points : /\ pc[p].enable_alarm <=> c.threshold_enabled /\ c.point[p].enable_alarm
                           /\ pc[p].low = c.point[p].low /\ pc[p].high = c.point[p].high
  PROVE  Rows(pc) = InForce(c)
BY DEF Rows, InForce

\* The rows after threshold_config.
LEMMA PublishedRows ==
  ASSUME NEW L, NEW c \in ConfigsWith(L)
  PROVE  Rows(ParsePointConfigs(PublishThresholdConfig(c))) = InForce(c)
  <1> DEFINE dev == PublishThresholdConfig(c)
             q(p) == [c.point[p] EXCEPT !.enable_alarm = @ /\ c.threshold_enabled]
             points == [p \in Points |-> ThresholdPointToJson(q(p))]
             row(p, o) ==
               [enable_alarm |-> Get(NoKeys, "enable",
                                     Get(o, "enable_alarm", Get(dev, "threshold_enabled", FALSE))),
                low  |-> Get(o, "alarm_low", NoLimit),
                high |-> IF Get(o, "alarm_high", NoLimit) /= NoLimit THEN o["alarm_high"]
                         ELSE Get(NoKeys, HighKey(p), Get(NoKeys, HighKey(p), NoLimit))]
             pc == [p \in Points |-> row(p, points[p])]
  <1>1. \A p \in Points : c.point[p] \in PointsWith(L) BY DEF ConfigsWith
  <1>2. \A p \in Points : /\ q(p).enable_alarm <=> c.threshold_enabled /\ c.point[p].enable_alarm
                          /\ q(p).low = c.point[p].low /\ q(p).high = c.point[p].high
    BY <1>1 DEF PointsWith
  <1> HIDE DEF q
  <1>3. /\ Has(dev, "points") /\ dev["points"] = points
        /\ ~Has(dev, "thresholds") /\ ~Has(dev, "threshold_config")
    <2>1. dev = [threshold_enabled |-> c.threshold_enabled, points |-> points]
      BY Zenon DEF PublishThresholdConfig, q
    <2> HIDE DEF dev, points
    <2> QED BY <2>1 DEF Has
  <1> HIDE DEF dev
  <1>4. DOMAIN points = Points OBVIOUS
  <1>5. \A k, x : Get(NoKeys, k, x) = x BY Nothing DEF Get
  <1>6. Get(dev, "threshold_config", NoKeys) = NoKeys
        /\ Get(dev, "thresholds", Get(NoKeys, "thresholds", NoKeys)) = NoKeys
    BY <1>3, <1>5 DEF Get
  <1>7. ParsePointConfigs(dev) = pc
    BY <1>3, <1>4, <1>6, Zenon DEF ParsePointConfigs
  <1>8. ASSUME NEW p \in Points
        PROVE  /\ pc[p].enable_alarm <=> c.threshold_enabled /\ c.point[p].enable_alarm
               /\ pc[p].low = c.point[p].low /\ pc[p].high = c.point[p].high
    <2> DEFINE o == ThresholdPointToJson(q(p))
    <2>1. pc[p] = row(p, o) OBVIOUS
    <2>2. /\ Get(o, "alarm_low", NoLimit) = q(p).low
          /\ Get(o, "alarm_high", NoLimit) = q(p).high /\ o["alarm_high"] = q(p).high
          /\ \A x : Get(o, "enable_alarm", x) = q(p).enable_alarm
      BY SavedPoint DEF Get, Has, ThresholdPointToJson
    <2> HIDE DEF o, pc
    <2>3. row(p, o) = [enable_alarm |-> q(p).enable_alarm, low |-> q(p).low, high |-> q(p).high]
      BY <1>5, <2>2
    <2> HIDE DEF row
    <2>4. /\ pc[p].enable_alarm = q(p).enable_alarm
          /\ pc[p].low = q(p).low /\ pc[p].high = q(p).high
      BY <2>1, <2>3
    <2> QED BY <1>2, <2>4
  <1>9. DOMAIN pc = Points OBVIOUS
  <1> HIDE DEF pc
  <1> QED BY <1>7, <1>8, <1>9, RowsInForce DEF dev

\* The rows after a snapshot, of a sensor whose thresholds are enabled.
LEMMA SnapshotRows ==
  ASSUME NEW L, NEW s \in SensorsWith(L), s.has, s.config.threshold_enabled
  PROVE  Rows(SnapshotPointConfigs(DeviceJson(s))) = InForce(s.config)
  <1> DEFINE c == s.config
             o == ThresholdConfigToJson(c)
             points == [p \in Points |-> ThresholdPointToJson(c.point[p])]
             on == [threshold_enabled |-> s.has /\ c.threshold_enabled]
             dev == DeviceJson(s)
  <1>1. c \in ConfigsWith(L) BY DEF SensorsWith
  <1>2. /\ \A p \in Points : c.point[p] \in PointsWith(L)
        /\ c.point = [p \in Points |-> c.point[p]]
    BY <1>1 DEF ConfigsWith
  <1>3. Has(o, "thresholds") /\ o["thresholds"] = points BY SavedConfig
  <1> HIDE DEF o, c
  <1>4. Has(dev, "threshold_config") /\ dev["threshold_config"] = o
    <2>1. WriteConfig(s) = [threshold_config |-> o] BY DEF WriteConfig, o, c
    <2>2. ~Has(on, "threshold_config") BY DEF Has
    <2>3. dev = on ++ [threshold_config |-> o] BY <2>1 DEF DeviceJson, c
    <2>4. Has([threshold_config |-> o], "threshold_config")
          /\ [threshold_config |-> o]["threshold_config"] = o
      BY DEF Has
    <2> HIDE DEF dev, on
    <2> QED BY <2>2, <2>3, <2>4, Together
  <1> HIDE DEF dev
  <1>5. SnapshotPointConfigs(dev) = c.point
    <2>1. Get(Get(dev, "threshold_config", NoKeys), "thresholds", NoKeys) = points
      BY <1>3, <1>4 DEF Get
    <2>2. \A p \in Points : AppendThresholdPointConfig(points[p]) = c.point[p] BY <1>2, PointLoads
    <2>3. Points \cap DOMAIN points = Points OBVIOUS
    <2> HIDE DEF points
    <2>4. SnapshotPointConfigs(dev) = [p \in Points |-> AppendThresholdPointConfig(points[p])]
      BY <2>1, <2>3 DEF SnapshotPointConfigs
    <2> QED BY <1>2, <2>2, <2>4
  <1>6. \A p \in Points : /\ c.point[p].enable_alarm <=> c.threshold_enabled /\ c.point[p].enable_alarm
                          /\ c.point[p].low = c.point[p].low /\ c.point[p].high = c.point[p].high
    BY DEF c
  <1>7. DOMAIN c.point = Points BY <1>2
  <1> QED BY <1>5, <1>6, <1>7, RowsInForce DEF dev, c

\* The device in a snapshot, connected or from the file.
LEMMA SnapshotDevice ==
  ASSUME NEW L, NEW s \in SensorsWith(L), s.has,
         NEW m \in {ExportConfigSnapshot(<<s>>, <<WriteConfig(s)>>, {}),
                    ExportConfigSnapshot(NoKeys, <<WriteConfig(s)>>, {1})}
  PROVE  m.devices[1] = DeviceJson(s)
  <1> DEFINE file == <<WriteConfig(s)>>
  <1>1. DOMAIN <<s>> = {1} /\ DOMAIN file = {1} /\ <<s>>[1] = s /\ DOMAIN NoKeys = {}
    BY DEF NoKeys
  <1>2. LoadDevice(file[1]) = s BY SensorLoads
  <1> HIDE DEF file
  <1>3. CASE m = ExportConfigSnapshot(<<s>>, file, {})
    <2> DEFINE slot == SlotDevices(<<s>>, {})
               saved == SavedDevices(<<s>>, file, {})
    <2>1. Has(slot, 1) /\ slot[1] = DeviceJson(s)
      BY <1>1 DEF SlotDevices, Accepts, Has
    <2> HIDE DEF slot, saved
    <2>2. (slot ++ saved)[1] = DeviceJson(s) BY <2>1, Together
    <2>3. m.devices = slot ++ saved BY <1>3 DEF ExportConfigSnapshot, slot, saved
    <2> QED BY <2>2, <2>3
  <1>4. CASE m = ExportConfigSnapshot(NoKeys, file, {1})
    <2> DEFINE slot == SlotDevices(NoKeys, {1})
               saved == SavedDevices(NoKeys, file, {1})
    <2>1. ~Has(slot, 1) BY <1>1 DEF SlotDevices, Has
    <2>2. Has(saved, 1) /\ saved[1] = DeviceJson(s)
      BY <1>1, <1>2 DEF SavedDevices, Accepts, Has
    <2> HIDE DEF slot, saved
    <2>3. (slot ++ saved)[1] = DeviceJson(s) BY <2>1, <2>2, Together
    <2>4. m.devices = slot ++ saved BY <1>4 DEF ExportConfigSnapshot, slot, saved
    <2> QED BY <2>3, <2>4
  <1> QED BY <1>3, <1>4 DEF file

\* The limits an operator enters are tested, saved and stored.
THEOREM EveryLimitArrives == LimitsArrive
  <1>1. ASSUME NEW f \in ConfigsWith(FormLimits)
        PROVE  LET local == HandleAddDevice(LocalAddDevice(f))
                   added == HandleAddDevice(ForwardAddDevice(SendAddDeviceCommand(f)))
                   set == HandleSetDeviceThreshold(ForwardSetThreshold(SendAddDeviceCommand(f)))
               IN  /\ Tested(local) = InForce(f)
                   /\ InForce([added.config EXCEPT !.threshold_enabled = f.threshold_enabled])
                        = InForce(f)
                   /\ f.threshold_enabled => Tested(set) = InForce(f)
    BY LocalArrives, AddedArrives, SetArrives, Zenon
  <1>2. ASSUME NEW s \in SensorsWith(PollLimits), s.has
        PROVE  /\ LoadDevice(<<WriteConfig(s)>>[1]) = s
               /\ Rows(ParsePointConfigs(PublishThresholdConfig(s.config))) = Tested(s)
               /\ s.config.threshold_enabled =>
                    \A m \in {ExportConfigSnapshot(<<s>>, <<WriteConfig(s)>>, {}),
                              ExportConfigSnapshot(NoKeys, <<WriteConfig(s)>>, {1})} :
                       Rows(SnapshotPointConfigs(m.devices[1])) = Tested(s)
    <2>1. Tested(s) = InForce(s.config) BY <1>2 DEF Tested
    <2>2. LoadDevice(<<WriteConfig(s)>>[1]) = s BY <1>2, SensorLoads
    <2>3. s.config \in ConfigsWith(PollLimits) BY DEF SensorsWith
    <2>4. Rows(ParsePointConfigs(PublishThresholdConfig(s.config))) = Tested(s)
      BY <2>1, <2>3, PublishedRows
    <2>5. ASSUME s.config.threshold_enabled,
                 NEW m \in {ExportConfigSnapshot(<<s>>, <<WriteConfig(s)>>, {}),
                            ExportConfigSnapshot(NoKeys, <<WriteConfig(s)>>, {1})}
          PROVE  Rows(SnapshotPointConfigs(m.devices[1])) = Tested(s)
      <3>1. m.devices[1] = DeviceJson(s) BY <1>2, SnapshotDevice
      <3> QED BY <1>2, <2>1, <2>5, <3>1, SnapshotRows
    <2> QED BY <2>2, <2>4, <2>5
  <1> QED BY <1>1, <1>2, Zenon DEF LimitsArrive

\* ThresholdsArrive holds whatever the gateways, the services and the operator do.
THEOREM ThresholdsAlwaysArrive == Spec => []ThresholdsArrive
  <1>1. ThresholdsArrive BY EveryLimitArrives DEF ThresholdsArrive
  <1> QED BY <1>1, PTL

-----------------------------------------------------------------------------
(* Numbers                                                                 *)

\* The greatest element is the maximum.
LEMMA Greatest ==
  ASSUME NEW S, S \subseteq Nat, NEW n \in S, \A y \in S : y <= n
  PROVE  Max(S) = n
  <1>1. \E x \in S : \A y \in S : x >= y OBVIOUS
  <1> DEFINE m == Max(S)
  <1>2. m \in S /\ \A y \in S : m >= y BY <1>1 DEF Max
  <1> HIDE DEF m
  <1>3. m \in Nat /\ n \in Nat /\ m >= n /\ m <= n BY <1>2
  <1> QED BY <1>3 DEF m

Less == OpToRel(<, Nat)

\* A set of numbers that is not empty has a least one.
LEMMA Least ==
  ASSUME NEW S, S \subseteq Nat, S /= {}
  PROVE  \E x \in S : \A y \in S : x <= y
  <1>1. IsWellFoundedOn(Less, Nat) BY NatLessThanWellFounded DEF Less
  <1>2. \E x \in S : \A y \in S : ~ (<<y, x>> \in Less) BY <1>1, WFMin, Zenon
  <1>3. Less = {ss \in Nat \X Nat : ss[1] < ss[2]} BY DEF Less, OpToRel
  <1>4. \A x, y \in Nat : x < y => <<x, y>> \in Less BY <1>3
  <1>5. PICK x \in S : \A y \in S : ~ (<<y, x>> \in Less) BY <1>2
  <1>6. \A y \in S : ~ (y < x) BY <1>4, <1>5
  <1>7. \A y \in S : x <= y BY <1>5, <1>6
  <1> QED BY <1>5, <1>7

-----------------------------------------------------------------------------
(* The inductive invariant                                                 *)

\* Alarms have an id, wherever they are; a frame with an alarm holds it.
Messages == {m \in [kind : {"alarm_event", "emergency", "removed"},
                    id : Alarms \cup Points \cup {NoAlarm},
                    st : RowStates, gateway : BOOLEAN] :
                m.kind /= "removed" /\ m.gateway => m.id \in Alarms}
Handlers == {h \in [op : {"idle", "save", "send", "delete", "deleted", "kept"},
                    id : Alarms \cup {NoAlarm}, st : RowStates] :
                h.op \in {"save", "send"} => h.id \in Alarms}
Frames == {m \in [type : {"alarm_event", "alarm_events_snapshot", "removed", "not_removed",
                          "cleared", "not_cleared"}, list : Tables(Entry)] :
              m.type = "alarm_event" => 1 \in DOMAIN m.list}
Typed ==
    /\ up \in Seq(Messages) /\ Len(up) <= UpMax
    /\ rows \in Tables(Row)
    /\ mq \in Handlers
    /\ ip \in [op : {"idle", "query", "send", "cleared", "not_cleared"}, list : Tables(Entry)]
    /\ pipe \in Pipe(Frames, Request) /\ Len(pipe.toUi) <= PipeMax
    /\ ui \in [Alarms -> RowStates \cup {"none"}]
    /\ events \in 0 .. MaxEvents /\ requests \in 0 .. MaxRequests /\ breaks \in 0 .. MaxBreaks

\* What is under way was sent, and so was whatever added a row: the table has room for the rest.
\* A reading that is not tested yet has sent nothing.
Busy == IF mq.op = "idle" THEN 0 ELSE 1
Saving == IF mq.op = "save" THEN 1 ELSE 0
Used == IF polled = NoReading THEN events ELSE events - 1
Room ==
    /\ Len(up) + Busy <= Used
    /\ \A i \in DOMAIN rows : i + Len(up) + Saving <= Used

\* An active alarm is not acknowledged.
Unacked(rs) == \A i \in DOMAIN rs : rs[i].st = "active" => ~rs[i].acked

IInv == Typed /\ Room /\ Unacked(rows)

-----------------------------------------------------------------------------
(* The sensor                                                              *)

\* A point whose values are tested.
On(p) == /\ sensor.has /\ sensor.config.threshold_enabled
         /\ sensor.config.point[p].enable_alarm

SensorTyped ==
    /\ newer \in BOOLEAN
    /\ sensor \in SensorsWith(PollLimits) /\ last \in [Points -> BOOLEAN]
    /\ polled \in Polls \cup {NoReading} /\ tested \in Polls \cup {NoReading}
    /\ old \in SUBSET ConfigsWith(PollLimits) /\ told \in SUBSET Points

\* A point that was told of is in alarm, one in alarm is tested, and a temperature in
\* alarm was told of.  Nothing of the kind holds of the humidity: it stays in alarm while
\* its test is skipped, and is then not reported again.
SInv ==
    /\ SensorTyped
    /\ \A p \in told : last[p]
    /\ \A p \in Points : last[p] => On(p)
    /\ last["temperature"] => "temperature" \in told
    /\ TemperatureIsReported

\* Thresholds that were zeroed are thresholds.
LEMMA ZeroTyped == ZeroConfig \in ConfigsWith(PollLimits) /\ Quiet \in [Points -> BOOLEAN]
  <1>1. ZeroPoint \in PointsWith(PollLimits) BY DEF ZeroPoint, PointsWith
  <1> QED BY <1>1 DEF ZeroConfig, ConfigsWith, Quiet

\* The test of a point that was in alarm only if it has alarms.
LEMMA PointChecked ==
  ASSUME NEW q, NEW v, NEW was \in BOOLEAN, was => q.enable_alarm
  PROVE  /\ CheckPoint(q, v, was).fired <=> q.enable_alarm /\ OutOfRange(q, v) /\ ~was
         /\ CheckPoint(q, v, was).last = IF q.enable_alarm /\ OutOfRange(q, v) THEN TRUE ELSE FALSE
  <1>1. CASE ~q.enable_alarm
    <2>1. CheckPoint(q, v, was) = [fired |-> FALSE, last |-> was] BY <1>1 DEF CheckPoint
    <2>2. ~was BY <1>1
    <2>3. ~CheckPoint(q, v, was).fired /\ CheckPoint(q, v, was).last = was BY <2>1
    <2> QED BY <1>1, <2>2, <2>3
  <1>2. CASE q.enable_alarm /\ ~OutOfRange(q, v)
    <2>1. CheckPoint(q, v, was) = [fired |-> FALSE, last |-> FALSE] BY <1>2 DEF CheckPoint
    <2>2. ~CheckPoint(q, v, was).fired /\ CheckPoint(q, v, was).last = FALSE BY <2>1
    <2> QED BY <1>2, <2>2
  <1>3. CASE q.enable_alarm /\ OutOfRange(q, v)
    <2>1. CheckPoint(q, v, was) = [fired |-> ~was, last |-> TRUE] BY <1>3 DEF CheckPoint
    <2>2. CASE was = TRUE
      <3>1. CheckPoint(q, v, was) = [fired |-> FALSE, last |-> TRUE] BY <2>1, <2>2
      <3>2. ~CheckPoint(q, v, was).fired /\ CheckPoint(q, v, was).last = TRUE BY <3>1
      <3> QED BY <1>3, <2>2, <3>2
    <2>3. CASE was = FALSE
      <3>1. CheckPoint(q, v, was) = [fired |-> TRUE, last |-> TRUE] BY <2>1, <2>3
      <3>2. CheckPoint(q, v, was).fired /\ CheckPoint(q, v, was).last = TRUE BY <3>1
      <3> QED BY <1>3, <2>3, <3>2
    <2> QED BY <2>2, <2>3
  <1> QED BY <1>1, <1>2, <1>3

\* A reading is tested point by point, the humidity unless the temperature fires.
LEMMA Checked ==
  ASSUME NEW s, NEW r, NEW l \in [Points -> BOOLEAN],
         \A p \in Points : l[p] => s.has /\ s.config.threshold_enabled
                                   /\ s.config.point[p].enable_alarm
  PROVE  LET test == CheckThreshold(s, r, l)
             on(p) == s.has /\ s.config.threshold_enabled /\ s.config.point[p].enable_alarm
             out(p) == OutOfRange(s.config.point[p], r[p])
         IN  /\ test.last \in [Points -> BOOLEAN]
             /\ test.alarm \in Points => on(test.alarm) /\ out(test.alarm) /\ ~l[test.alarm]
                                         /\ test.last[test.alarm]
             /\ \A p \in Points : test.last[p] => on(p)
             /\ \A p \in Points : l[p] /\ out(p) => test.last[p]
             /\ test.last["temperature"] =>
                   out("temperature") /\ (l["temperature"] \/ test.alarm = "temperature")
             /\ on("temperature") /\ out("temperature") =>
                   l["temperature"] \/ test.alarm = "temperature"
  <1> DEFINE q(p) == s.config.point[p]
             t == CheckPoint(q("temperature"), r["temperature"], l["temperature"])
             h == CheckPoint(q("humidity"), r["humidity"], l["humidity"])
             test == CheckThreshold(s, r, l)
  <1>1. Points = {"temperature", "humidity"} /\ "temperature" /= "humidity"
        /\ "none" \notin Points /\ l["temperature"] \in BOOLEAN /\ l["humidity"] \in BOOLEAN
    BY DEF Points
  <1>2. /\ t.fired <=> q("temperature").enable_alarm
                       /\ OutOfRange(q("temperature"), r["temperature"]) /\ ~l["temperature"]
        /\ t.last = IF q("temperature").enable_alarm
                       /\ OutOfRange(q("temperature"), r["temperature"]) THEN TRUE ELSE FALSE
    BY <1>1, PointChecked
  <1>3. /\ h.fired <=> q("humidity").enable_alarm
                       /\ OutOfRange(q("humidity"), r["humidity"]) /\ ~l["humidity"]
        /\ h.last = IF q("humidity").enable_alarm
                       /\ OutOfRange(q("humidity"), r["humidity"]) THEN TRUE ELSE FALSE
    BY <1>1, PointChecked
  <1>4. test = IF ~s.has \/ ~s.config.threshold_enabled THEN [alarm |-> "none", last |-> l]
               ELSE IF t.fired THEN [alarm |-> "temperature",
                                     last |-> [l EXCEPT !["temperature"] = t.last]]
               ELSE [alarm |-> IF h.fired THEN "humidity" ELSE "none",
                     last |-> [temperature |-> t.last, humidity |-> h.last]]
    BY Zenon DEF CheckThreshold
  <1> HIDE DEF test, t, h
  <1>5. CASE ~s.has \/ ~s.config.threshold_enabled
    <2>1. test.alarm = "none" /\ test.last = l
      <3>1. test = [alarm |-> "none", last |-> l] BY <1>4, <1>5
      <3> QED BY <3>1
    <2>2. \A p \in Points : ~l[p] BY <1>5
    <2> QED BY <1>1, <1>5, <2>1, <2>2 DEF test
  <1>6. CASE s.has /\ s.config.threshold_enabled /\ t.fired
    <2>1. test.alarm = "temperature" /\ test.last = [l EXCEPT !["temperature"] = TRUE]
      <3>1. test = [alarm |-> "temperature", last |-> [l EXCEPT !["temperature"] = t.last]]
        BY <1>4, <1>6
      <3>2. t.last = TRUE BY <1>2, <1>6
      <3> QED BY <3>1, <3>2
    <2>2. /\ test.last \in [Points -> BOOLEAN] /\ test.last["temperature"]
          /\ test.last["humidity"] = l["humidity"]
      BY <1>1, <2>1
    <2> QED BY <1>1, <1>2, <1>6, <2>1, <2>2 DEF test
  <1>7. CASE s.has /\ s.config.threshold_enabled /\ ~t.fired
    <2>1. /\ test.alarm = IF h.fired THEN "humidity" ELSE "none"
          /\ test.last = [temperature |-> t.last, humidity |-> h.last]
      <3>1. test = [alarm |-> IF h.fired THEN "humidity" ELSE "none",
                    last |-> [temperature |-> t.last, humidity |-> h.last]]
        BY <1>4, <1>7
      <3> QED BY <3>1
    <2>2. t.last \in BOOLEAN /\ h.last \in BOOLEAN BY <1>2, <1>3
    <2>3. /\ test.last \in [Points -> BOOLEAN]
          /\ test.last["temperature"] = t.last /\ test.last["humidity"] = h.last
      <3>1. \A x, y \in BOOLEAN : [temperature |-> x, humidity |-> y] \in [Points -> BOOLEAN]
        BY <1>1
      <3> QED BY <2>1, <2>2, <3>1
    <2> QED BY <1>1, <1>2, <1>3, <1>7, <2>1, <2>3 DEF test
  <1> QED BY <1>5, <1>6, <1>7

-----------------------------------------------------------------------------
(* The table                                                               *)

\* A table of rows of a kind is a function on row numbers.
LEMMA InTables ==
  ASSUME NEW K, NEW rs
  PROVE  rs \in Tables(K) <=> /\ DOMAIN rs \subseteq 1 .. MaxEvents
                              /\ rs \in [DOMAIN rs -> K]
  <1>1. ASSUME rs \in Tables(K) PROVE DOMAIN rs \subseteq 1 .. MaxEvents /\ rs \in [DOMAIN rs -> K]
    <2>1. PICK numbers \in SUBSET (1 .. MaxEvents) : rs \in [numbers -> K] BY <1>1 DEF Tables
    <2> QED BY <2>1
  <1>2. ASSUME DOMAIN rs \subseteq 1 .. MaxEvents, rs \in [DOMAIN rs -> K] PROVE rs \in Tables(K)
    BY <1>2 DEF Tables
  <1> QED BY <1>1, <1>2

\* The empty table is of every kind, and a row makes a table when there is room for it.
LEMMA SmallTables ==
  ASSUME NEW K
  PROVE  /\ NoRows \in Tables(K) /\ DOMAIN NoRows = {}
         /\ \A e \in K : 1 <= MaxEvents => <<e>> \in Tables(K) /\ 1 \in DOMAIN <<e>>
  <1>1. MaxEvents \in Nat BY AlarmAssumption
  <1>2. DOMAIN NoRows = {} /\ NoRows \in [{} -> K] BY DEF NoRows
  <1>3. NoRows \in Tables(K) BY <1>2, InTables
  <1>4. ASSUME NEW e \in K, 1 <= MaxEvents PROVE <<e>> \in Tables(K) /\ 1 \in DOMAIN <<e>>
    <2>1. DOMAIN <<e>> = {1} /\ <<e>> \in [{1} -> K] OBVIOUS
    <2>2. {1} \subseteq 1 .. MaxEvents BY <1>1, <1>4
    <2> QED BY <2>1, <2>2, InTables
  <1> QED BY <1>2, <1>3, <1>4

\* A set of numbers below a bound has a greatest one.
LEMMA HasGreatest ==
  ASSUME NEW n \in Nat, NEW S, S \subseteq 0 .. n, S /= {}
  PROVE  Max(S) \in S /\ \A y \in S : y <= Max(S)
  <1> DEFINE D == {n - y : y \in S}
  <1>0. \A y \in S : y \in Nat /\ n - y \in Nat OBVIOUS
  <1>1. D \subseteq Nat /\ D /= {}
    <2>1. D \subseteq Nat BY <1>0
    <2>2. PICK y \in S : TRUE OBVIOUS
    <2>3. n - y \in D BY <2>2
    <2> QED BY <2>1, <2>3
  <1>2. PICK d \in D : \A e \in D : d <= e
    <2> HIDE DEF D
    <2> QED BY <1>1, Least
  <1>3. PICK x \in S : d = n - x BY <1>2
  <1>4. \A y \in S : y <= x
    <2> TAKE y \in S
    <2>1. n - y \in D OBVIOUS
    <2>2. n - x <= n - y BY <1>2, <1>3, <2>1
    <2> QED BY <2>2
  <1>5. S \subseteq Nat OBVIOUS
  <1>6. Max(S) = x BY <1>4, <1>5, Greatest
  <1> QED BY <1>4, <1>6

\* A row is inserted above the others.
LEMMA NewIsAbove ==
  ASSUME NEW rs, DOMAIN rs \subseteq 1 .. MaxEvents
  PROVE  /\ NewNumber(rs) \in Nat \ {0} /\ NewNumber(rs) \notin DOMAIN rs
         /\ NewNumber(rs) = 1 \/ NewNumber(rs) - 1 \in DOMAIN rs
  <1> DEFINE S == {0} \cup DOMAIN rs
             top == Max(S)
  <1>1. MaxEvents \in Nat /\ S \subseteq 0 .. MaxEvents /\ S /= {} BY AlarmAssumption
  <1>2. NewNumber(rs) = 1 + top BY DEF NewNumber
  <1> HIDE DEF S
  <1>3. top \in S /\ \A y \in S : y <= top BY <1>1, HasGreatest
  <1> HIDE DEF top
  <1>4. top \in Nat /\ 1 + top \notin S BY <1>1, <1>3
  <1> QED BY <1>2, <1>3, <1>4 DEF S

\* A new alarm replaces open rows, or adds one.
LEMMA SaveKeeps ==
  ASSUME NEW rs \in Tables(Row), Unacked(rs), NEW a \in Alarms, NEW st \in RowStates,
         NewNumber(rs) <= MaxEvents
  PROVE  LET new == SaveAlarmEvent(rs, a, st)
         IN  new \in Tables(Row) /\ Unacked(new) /\ DOMAIN new \subseteq DOMAIN rs \cup {NewNumber(rs)}
  <1> DEFINE row == [id |-> a, st |-> st, acked |-> FALSE]
             new == SaveAlarmEvent(rs, a, st)
  <1>1. row \in Row /\ ~row.acked BY DEF Row
  <1>2. DOMAIN rs \subseteq 1 .. MaxEvents /\ rs \in [DOMAIN rs -> Row] BY InTables
  <1> HIDE DEF row
  <1>3. CASE OpenRows(rs, a) /= {}
    <2> DEFINE next(i) == IF i \in OpenRows(rs, a) THEN row ELSE rs[i]
               put == [i \in DOMAIN rs |-> next(i)]
    <2>1. new = put BY <1>3, Zenon DEF SaveAlarmEvent, row
    <2>2. put \in [DOMAIN rs -> Row] /\ DOMAIN put = DOMAIN rs BY <1>1, <1>2
    <2>3. \A i \in DOMAIN put : put[i].st = "active" => ~put[i].acked BY <1>1 DEF Unacked
    <2> HIDE DEF put, new
    <2>4. put \in Tables(Row) BY <1>2, <2>2, InTables
    <2> QED BY <2>1, <2>2, <2>3, <2>4 DEF Unacked, new
  <1>4. CASE OpenRows(rs, a) = {}
    <2> DEFINE n == NewNumber(rs)
               put == Inserted(rs, row)
    <2>1. new = put BY <1>4 DEF SaveAlarmEvent, row
    <2>2. n \in 1 .. MaxEvents
      <3>1. n \in Nat \ {0} /\ n <= MaxEvents /\ MaxEvents \in Nat
        BY <1>2, NewIsAbove, AlarmAssumption
      <3> HIDE DEF n
      <3> QED BY <3>1
    <2>3. put = [i \in DOMAIN rs \cup {n} |-> IF i \in DOMAIN rs THEN rs[i] ELSE row] BY DEF Inserted
    <2> HIDE DEF n, put, new
    <2>4. DOMAIN put = DOMAIN rs \cup {n} /\ put \in [DOMAIN put -> Row] BY <1>1, <1>2, <2>3
    <2>5. \A i \in DOMAIN put : put[i].st = "active" => ~put[i].acked
      BY <1>1, <2>3, <2>4 DEF Unacked
    <2>6. put \in Tables(Row) BY <1>2, <2>2, <2>4, InTables
    <2> QED BY <2>1, <2>4, <2>5, <2>6 DEF Unacked, n, new
  <1> QED BY <1>3, <1>4

\* An acknowledgement changes rows in place.
LEMMA AcknowledgeKeeps ==
  ASSUME NEW rs \in Tables(Row), Unacked(rs), NEW a
  PROVE  LET new == AcknowledgeAlarm(rs, a)
         IN  new \in Tables(Row) /\ Unacked(new) /\ DOMAIN new = DOMAIN rs
  <1> DEFINE new == AcknowledgeAlarm(rs, a)
             done(i) == [rs[i] EXCEPT !.st = "acknowledged", !.acked = TRUE]
  <1>1. DOMAIN rs \subseteq 1 .. MaxEvents /\ rs \in [DOMAIN rs -> Row] BY InTables
  <1>2. \A i \in DOMAIN rs : done(i) \in Row /\ done(i).st /= "active" BY <1>1 DEF Row, RowStates
  <1>3. new = [i \in DOMAIN rs |-> IF rs[i].id = a THEN done(i) ELSE rs[i]]
    BY Zenon DEF AcknowledgeAlarm
  <1> HIDE DEF done, new
  <1>4. DOMAIN new = DOMAIN rs /\ new \in [DOMAIN rs -> Row] BY <1>1, <1>2, <1>3
  <1>5. \A i \in DOMAIN new : new[i].st = "active" => ~new[i].acked BY <1>2, <1>3 DEF Unacked
  <1>6. new \in Tables(Row) BY <1>1, <1>4, InTables
  <1> QED BY <1>4, <1>5, <1>6 DEF Unacked, new

\* Rows that are left stay what they are.
LEMMA KeptKeeps ==
  ASSUME NEW rs \in Tables(Row), Unacked(rs), NEW numbers \in SUBSET DOMAIN rs
  PROVE  LET new == Kept(rs, numbers)
         IN  /\ new \in Tables(Row) /\ Unacked(new) /\ DOMAIN new = numbers
             /\ \A i \in numbers : new[i] = rs[i]
  <1> DEFINE new == Kept(rs, numbers)
  <1>1. DOMAIN rs \subseteq 1 .. MaxEvents /\ rs \in [DOMAIN rs -> Row] BY InTables
  <1>2. new = [i \in numbers |-> rs[i]] BY DEF Kept
  <1> HIDE DEF new
  <1>3. DOMAIN new = numbers /\ new \in [DOMAIN new -> Row] /\ \A i \in numbers : new[i] = rs[i]
    BY <1>1, <1>2
  <1>4. new \in Tables(Row) BY <1>1, <1>3, InTables
  <1> QED BY <1>3, <1>4 DEF Unacked, new

\* A snapshot lists the rows.
LEMMA QueryTyped ==
  ASSUME NEW rs \in Tables(Row)
  PROVE  QueryAlarmEvents(rs) \in Tables(Entry)
  <1> DEFINE list == QueryAlarmEvents(rs)
  <1>1. DOMAIN rs \subseteq 1 .. MaxEvents /\ rs \in [DOMAIN rs -> Row] BY InTables
  <1>2. \A i \in DOMAIN rs : [id |-> rs[i].id, st |-> rs[i].st] \in Entry BY <1>1 DEF Row, Entry
  <1>3. list = [i \in DOMAIN rs |-> [id |-> rs[i].id, st |-> rs[i].st]] BY DEF QueryAlarmEvents
  <1> HIDE DEF list
  <1>4. DOMAIN list = DOMAIN rs /\ list \in [DOMAIN list -> Entry] BY <1>2, <1>3
  <1> QED BY <1>1, <1>4, InTables DEF list

-----------------------------------------------------------------------------
(* The pipe                                                                *)

\* The four operations on the pipe.
LEMMA PipeTypes ==
  ASSUME NEW p \in Pipe(Frames, Request), Len(p.toUi) <= PipeMax
  PROVE  /\ \A m \in Frames : CanSend(p) => /\ ServerSend(p, m) \in Pipe(Frames, Request)
                                            /\ Len(ServerSend(p, m).toUi) <= PipeMax
         /\ \A r \in Request : /\ ClientSend(p, r) \in Pipe(Frames, Request)
                               /\ Len(ClientSend(p, r).toUi) <= PipeMax
         /\ p.toUi /= <<>> => /\ ClientRead(p) \in Pipe(Frames, Request)
                              /\ Len(ClientRead(p).toUi) <= PipeMax
                              /\ Head(p.toUi) \in Frames
         /\ p.toSvc /= <<>> => /\ ServerRead(p) \in Pipe(Frames, Request)
                               /\ Len(ServerRead(p).toUi) <= PipeMax
  <1>1. p.up \in BOOLEAN /\ p.toUi \in Seq(Frames) /\ p.toSvc \in Seq(Request) BY DEF Pipe
  <1>2. Len(p.toUi) \in Nat /\ PipeMax \in Nat BY <1>1, PipeAssumption
  <1>3. ASSUME NEW m \in Frames, CanSend(p)
        PROVE  ServerSend(p, m) \in Pipe(Frames, Request) /\ Len(ServerSend(p, m).toUi) <= PipeMax
    <2>1. CASE p.up
      <3>1. Append(p.toUi, m) \in Seq(Frames) /\ Len(Append(p.toUi, m)) = Len(p.toUi) + 1
        BY <1>1
      <3>2. Len(p.toUi) < PipeMax BY <1>3, <2>1 DEF CanSend
      <3>3. /\ ServerSend(p, m) \in Pipe(Frames, Request)
            /\ ServerSend(p, m).toUi = Append(p.toUi, m)
        BY <2>1, <3>1 DEF ServerSend, Pipe
      <3> QED BY <1>2, <3>1, <3>2, <3>3
    <2>2. CASE ~p.up BY <2>2 DEF ServerSend
    <2> QED BY <2>1, <2>2
  <1>4. ASSUME NEW r \in Request
        PROVE  ClientSend(p, r) \in Pipe(Frames, Request) /\ ClientSend(p, r).toUi = p.toUi
    <2>1. Append(p.toSvc, r) \in Seq(Request) BY <1>1
    <2> QED BY <2>1 DEF ClientSend, Pipe
  <1>5. ASSUME p.toUi /= <<>>
        PROVE  /\ ClientRead(p) \in Pipe(Frames, Request) /\ Len(ClientRead(p).toUi) <= PipeMax
               /\ Head(p.toUi) \in Frames
    <2>1. /\ Tail(p.toUi) \in Seq(Frames) /\ Len(Tail(p.toUi)) = Len(p.toUi) - 1
          /\ Head(p.toUi) \in Frames
      BY <1>1, <1>5
    <2>2. ClientRead(p) \in Pipe(Frames, Request) /\ ClientRead(p).toUi = Tail(p.toUi)
      BY <2>1 DEF ClientRead, Pipe
    <2> QED BY <1>2, <2>1, <2>2
  <1>6. ASSUME p.toSvc /= <<>>
        PROVE  ServerRead(p) \in Pipe(Frames, Request) /\ ServerRead(p).toUi = p.toUi
    <2>1. Tail(p.toSvc) \in Seq(Request) BY <1>1, <1>6
    <2> QED BY <2>1 DEF ServerRead, Pipe
  <1> QED BY <1>3, <1>4, <1>5, <1>6

\* The pipe when it breaks and when it opens.
LEMMA PipeStarts ==
  /\ Broken \in Pipe(Frames, Request) /\ Len(Broken.toUi) <= PipeMax
  /\ Opened \in Pipe(Frames, Request) /\ Len(Opened.toUi) <= PipeMax
  <1>1. Broken \in Pipe(Frames, Request) /\ Broken.toUi = <<>> BY DEF Broken, Pipe
  <1>2. Opened \in Pipe(Frames, Request) /\ Opened.toUi = <<>>
    <2>1. Broken = [up |-> FALSE, toUi |-> <<>>, toSvc |-> <<>>] BY DEF Broken
    <2>2. Opened = [Broken EXCEPT !.up = TRUE] BY DEF Opened
    <2> QED BY <1>1, <2>1, <2>2 DEF Pipe
  <1>3. Len(<<>>) <= PipeMax BY PipeAssumption
  <1> QED BY <1>1, <1>2, <1>3

\* A request for the table.
LEMMA RequestTyped == GetAlarmEvents \in Request
BY DEF GetAlarmEvents, Request

-----------------------------------------------------------------------------
(* The steps                                                               *)

\* Numbers of the types.
LEMMA Numbers ==
  ASSUME Typed
  PROVE  /\ Len(up) \in Nat /\ events \in Nat /\ MaxEvents \in Nat /\ events <= MaxEvents
         /\ Used \in Int /\ Used <= MaxEvents
         /\ DOMAIN rows \subseteq 1 .. MaxEvents
  <1>1. MaxEvents \in Nat /\ up \in Seq(Messages) BY AlarmAssumption DEF Typed
  <1>2. events \in Nat /\ events <= MaxEvents BY <1>1 DEF Typed
  <1>3. Used \in Int /\ Used <= MaxEvents BY <1>1, <1>2 DEF Used
  <1> QED BY <1>1, <1>2, <1>3, InTables DEF Typed

\* What was sent is what it was, if nothing is read, tested or sent.
LEMMA UsedStays ==
  ASSUME polled' = polled, events' = events
  PROVE  Used' = Used
BY DEF Used

\* A step that receives nothing and adds no row leaves the room there is.
LEMMA RoomStays ==
  ASSUME Typed, Room, up' = up, polled' = polled, events' = events, DOMAIN rows' \subseteq DOMAIN rows,
         mq.op = "idle" => mq'.op = "idle", mq'.op = "save" => mq.op = "save"
  PROVE  Room'
  <1>1. Len(up) \in Nat /\ Used \in Int /\ Used' = Used /\ DOMAIN rows \subseteq Nat
    BY Numbers, UsedStays
  <1>2. Busy' \in {0, 1} /\ Busy \in {0, 1} /\ Busy' <= Busy BY DEF Busy
  <1>3. Saving' \in {0, 1} /\ Saving \in {0, 1} /\ Saving' <= Saving BY DEF Saving
  <1>4. Len(up') + Busy' <= Used' BY <1>1, <1>2 DEF Room
  <1>5. ASSUME NEW i \in DOMAIN rows' PROVE i + Len(up') + Saving' <= Used'
    <2>1. i \in Nat /\ i + Len(up) + Saving <= Used BY <1>1 DEF Room
    <2> QED BY <1>1, <1>3, <2>1
  <1> QED BY <1>4, <1>5 DEF Room

\* A message is sent by a gateway, or none; what is sent counts once.
LEMMA SendingKeeps ==
  ASSUME IInv, NEW m \in Messages, up' = up \/ (Len(up) < UpMax /\ up' = Append(up, m)),
         events' \in 0 .. MaxEvents, Used' = Used + 1, UNCHANGED pcVars
  PROVE  IInv'
  <1>1. Len(up) \in Nat /\ Used \in Int /\ DOMAIN rows \subseteq Nat BY Numbers DEF IInv
  <1>2. up \in Seq(Messages) /\ UpMax \in Nat BY AlarmAssumption DEF IInv, Typed
  <1>3. up' \in Seq(Messages) /\ Len(up') \in Nat /\ Len(up') <= Len(up) + 1 /\ Len(up') <= UpMax
    <2>1. Len(up) <= UpMax BY DEF IInv, Typed
    <2>2. CASE up' = up BY <1>1, <1>2, <2>1, <2>2
    <2>3. CASE Len(up) < UpMax /\ up' = Append(up, m) BY <1>1, <1>2, <2>3
    <2> QED BY <2>2, <2>3
  <1>4. UNCHANGED <<rows, mq, ip, pipe, ui, requests, breaks>> BY DEF pcVars
  <1>5. Typed' BY <1>3, <1>4 DEF IInv, Typed
  <1>6. Room'
    <2>1. Busy' = Busy /\ Busy \in {0, 1} BY <1>4 DEF Busy
    <2>2. Saving' = Saving /\ Saving \in {0, 1} BY <1>4 DEF Saving
    <2>3. Len(up') + Busy' <= Used' BY <1>1, <1>3, <2>1 DEF IInv, Room
    <2>4. \A i \in DOMAIN rows : i + Len(up') + Saving' <= Used'
      BY <1>1, <1>3, <2>2 DEF IInv, Room
    <2> QED BY <1>4, <2>3, <2>4 DEF Room
  <1>7. Unacked(rows') BY <1>4 DEF IInv
  <1> QED BY <1>5, <1>6, <1>7 DEF IInv

\* Another gateway sends a message.
LEMMA SendKeeps ==
  ASSUME IInv, NEW m \in Messages, Send(m)
  PROVE  IInv'
  <1>1. events \in Nat /\ MaxEvents \in Nat BY Numbers DEF IInv
  <1>2. events' = events + 1 /\ events' \in 0 .. MaxEvents BY <1>1 DEF Send, Event
  <1>3. polled' = polled BY DEF Send, gateway, sensorVars
  <1>4. Used' = Used + 1 BY <1>1, <1>2, <1>3 DEF Used
  <1> QED BY <1>2, <1>4, SendingKeeps DEF Send

\* The device is read.
LEMMA PollDeviceKeeps ==
  ASSUME IInv, NEW r \in Polls, PollDevice(r)
  PROVE  IInv'
  <1>1. events \in Nat /\ MaxEvents \in Nat BY Numbers DEF IInv
  <1>2. events' = events + 1 /\ events' \in 0 .. MaxEvents BY <1>1 DEF PollDevice, Event
  <1>3. r /= NoReading
    <2>1. DOMAIN r = Points /\ DOMAIN NoReading = {} BY DEF Polls, NoReading
    <2> QED BY <2>1 DEF Points
  <1>4. Used' = Used BY <1>1, <1>2, <1>3 DEF Used, PollDevice
  <1>5. UNCHANGED <<up, rows, mq, ip, pipe, ui, requests, breaks>> BY DEF PollDevice, pcVars
  <1>6. Typed' BY <1>2, <1>5 DEF IInv, Typed
  <1>7. Room' BY <1>4, <1>5 DEF IInv, Room, Busy, Saving
  <1> QED BY <1>5, <1>6, <1>7 DEF IInv

\* The test of a reading names a point, or none.
LEMMA NamesPoint ==
  ASSUME NEW s, NEW r, NEW l
  PROVE  CheckThreshold(s, r, l).alarm \in Points \cup {"none"}
BY DEF CheckThreshold, Points

\* The reading is tested.
LEMMA TestReadingKeeps ==
  ASSUME IInv, TestReading
  PROVE  IInv'
  <1> DEFINE alarm == CheckThreshold(sensor, polled, last).alarm
  <1>1. events \in Nat /\ events \in 0 .. MaxEvents BY Numbers DEF IInv, Typed
  <1>2. Used' = Used + 1 /\ events' \in 0 .. MaxEvents BY <1>1 DEF TestReading, Used
  <1>3. alarm \in Points \cup {"none"} /\ PublishThresholdAlarm(alarm) /\ UNCHANGED pcVars
    BY NamesPoint DEF TestReading
  <1> HIDE DEF alarm
  <1>4. \A p \in Points : Emergency(p) \in Messages BY DEF Emergency, Messages, RowStates
  <1>5. Removed \in Messages BY DEF Removed, Messages, RowStates
  <1>6. CASE alarm = "none"
    <2>1. up' = up BY <1>3, <1>6 DEF PublishThresholdAlarm
    <2>2. up' = up \/ (Len(up) < UpMax /\ up' = Append(up, Removed)) BY <2>1
    <2> QED BY <1>2, <1>3, <1>5, <2>2, SendingKeeps
  <1>7. CASE alarm /= "none"
    <2>1. Emergency(alarm) \in Messages BY <1>3, <1>4, <1>7
    <2> QED BY <1>2, <1>3, <1>7, <2>1, SendingKeeps DEF PublishThresholdAlarm
  <1> QED BY <1>6, <1>7

\* Thresholds are set.
LEMMA SetThresholdKeeps ==
  ASSUME IInv, EndSetThreshold \/ \E c : BeginSetThreshold(c)
  PROVE  IInv'
  <1>1. UNCHANGED <<polled, up, rows, mq, ip, pipe, ui, requests, breaks>>
    BY DEF BeginSetThreshold, EndSetThreshold, pcVars
  <1>2. events \in 0 .. MaxEvents /\ MaxEvents \in Nat BY AlarmAssumption DEF IInv, Typed
  <1>3. events' \in {events, events + 1} /\ events' \in 0 .. MaxEvents
    <2>1. CASE EndSetThreshold BY <1>2, <2>1 DEF EndSetThreshold
    <2>2. ASSUME NEW c, BeginSetThreshold(c)
          PROVE  events' \in {events, events + 1} /\ events' \in 0 .. MaxEvents
      BY <1>2, <2>2 DEF BeginSetThreshold, Event
    <2> QED BY <2>1, <2>2
  <1>4. Used \in Int /\ Used' \in {Used, Used + 1}
    <2>1. events \in Int /\ events' \in Int BY <1>2, <1>3
    <2>2. CASE polled = NoReading
      <3>1. Used = events /\ Used' = events' BY <1>1, <2>2 DEF Used
      <3> QED BY <1>3, <2>1, <3>1
    <2>3. CASE polled /= NoReading
      <3>1. Used = events - 1 /\ Used' = events' - 1 BY <1>1, <2>3 DEF Used
      <3>2. CASE events' = events BY <2>1, <3>1, <3>2
      <3>3. CASE events' = events + 1
        <4>1. Used' = events BY <2>1, <3>1, <3>3
        <4>2. Used \in Int /\ Used + 1 = events BY <2>1, <3>1
        <4> QED BY <4>1, <4>2
      <3> QED BY <1>3, <3>2, <3>3
    <2> QED BY <2>2, <2>3
  <1>5. Typed' BY <1>1, <1>3 DEF IInv, Typed
  <1>6. Room'
    <2>1. Len(up) \in Nat /\ DOMAIN rows \subseteq Nat BY Numbers DEF IInv
    <2>2. Busy' = Busy /\ Busy \in {0, 1} BY <1>1 DEF Busy
    <2>3. Saving' = Saving /\ Saving \in {0, 1} BY <1>1 DEF Saving
    <2>4. Len(up') + Busy' <= Used' BY <1>1, <1>4, <2>1, <2>2 DEF IInv, Room
    <2>5. \A i \in DOMAIN rows : i + Len(up') + Saving' <= Used'
      BY <1>1, <1>4, <2>1, <2>3 DEF IInv, Room
    <2> QED BY <1>1, <2>4, <2>5 DEF Room
  <1> QED BY <1>1, <1>5, <1>6 DEF IInv

\* The MQTT callback thread takes a message.
LEMMA MqReceiveKeeps ==
  ASSUME IInv, MqReceive
  PROVE  IInv'
  <1> DEFINE m == Head(up)
  <1>1. /\ mq.op = "idle" /\ up /= <<>> /\ up' = Tail(up)
        /\ UNCHANGED <<polled, rows, ip, ui, events, requests, breaks>>
    BY DEF MqReceive, bounds, gateway, sensorVars
  <1>2. Len(up) \in Nat /\ Used \in Int /\ Used' = Used /\ DOMAIN rows \subseteq Nat
    BY <1>1, Numbers, UsedStays DEF IInv
  <1>3. /\ up' \in Seq(Messages) /\ Len(up') = Len(up) - 1 /\ Len(up') <= UpMax /\ m \in Messages
    <2>1. up \in Seq(Messages) /\ UpMax \in Nat /\ Len(up) <= UpMax
      BY AlarmAssumption DEF IInv, Typed
    <2> QED BY <1>1, <1>2, <2>1
  <1>4. MqIdle \in Handlers BY DEF MqIdle, Handlers, RowStates
  <1>5. mq' \in Handlers /\ pipe' \in Pipe(Frames, Request) /\ Len(pipe'.toUi) <= PipeMax
    <2>1. CASE m.kind /= "removed"
      <3>1. /\ UNCHANGED pipe
            /\ mq' = IF m.gateway THEN [op |-> "save", id |-> m.id, st |-> m.st] ELSE MqIdle
        BY <2>1 DEF MqReceive, ParseAlarmEventPayload
      <3>2. m.gateway => [op |-> "save", id |-> m.id, st |-> m.st] \in Handlers
        BY <1>3, <2>1 DEF Messages, Handlers
      <3> QED BY <1>4, <3>1, <3>2 DEF IInv, Typed
    <2>2. CASE m.kind = "removed"
      <3> DEFINE f == [type |-> "removed", list |-> NoRows]
      <3>1. CanSend(pipe) /\ pipe' = ServerSend(pipe, f) /\ mq' = [MqIdle EXCEPT !.op = "delete"]
        BY <2>2 DEF MqReceive
      <3>2. f \in Frames BY SmallTables DEF Frames
      <3>3. mq' \in Handlers BY <1>4, <3>1 DEF MqIdle, Handlers
      <3> HIDE DEF f
      <3> QED BY <3>1, <3>2, <3>3, PipeTypes DEF IInv, Typed
    <2> QED BY <2>1, <2>2
  <1>6. Typed' BY <1>1, <1>3, <1>5 DEF IInv, Typed
  <1>7. Room'
    <2>1. Busy = 0 /\ Saving = 0 BY <1>1 DEF Busy, Saving
    <2>2. Busy' \in {0, 1} /\ Saving' \in {0, 1} BY DEF Busy, Saving
    <2>3. Len(up') + Busy' <= Used' BY <1>1, <1>2, <1>3, <2>1, <2>2 DEF IInv, Room
    <2>4. \A i \in DOMAIN rows : i + Len(up') + Saving' <= Used'
      BY <1>1, <1>2, <1>3, <2>1, <2>2 DEF IInv, Room
    <2> QED BY <1>1, <2>3, <2>4 DEF Room
  <1>8. Unacked(rows') BY <1>1 DEF IInv
  <1> QED BY <1>6, <1>7, <1>8 DEF IInv

\* It stores an alarm.
LEMMA MqSaveKeeps ==
  ASSUME IInv, MqSave
  PROVE  IInv'
  <1>1. mq.op = "save" /\ UNCHANGED <<polled, up, ip, pipe, ui, events, requests, breaks>>
    BY DEF MqSave, bounds, gateway, sensorVars
  <1>2. /\ Len(up) \in Nat /\ MaxEvents \in Nat
        /\ Used \in Int /\ Used <= MaxEvents /\ Used' = Used
        /\ DOMAIN rows \subseteq 1 .. MaxEvents /\ rows \in Tables(Row) /\ Unacked(rows)
    BY <1>1, Numbers, UsedStays DEF IInv, Typed
  <1>3. mq \in Handlers /\ mq.id \in Alarms /\ mq.st \in RowStates
    BY <1>1 DEF IInv, Typed, Handlers
  <1>4. CASE UNCHANGED rows /\ mq' = MqIdle
    <2>1. mq' \in Handlers /\ mq'.op = "idle" BY <1>4 DEF MqIdle, Handlers, RowStates
    <2>2. Typed' BY <1>1, <1>4, <2>1 DEF IInv, Typed
    <2>3. Room' BY <1>1, <1>4, <2>1, RoomStays DEF IInv
    <2> QED BY <1>4, <2>2, <2>3 DEF IInv
  <1>5. CASE rows' = SaveAlarmEvent(rows, mq.id, mq.st) /\ mq' = [mq EXCEPT !.op = "send"]
    <2> DEFINE n == NewNumber(rows)
    <2>1. n \in Nat \ {0} /\ (n = 1 \/ n - 1 \in DOMAIN rows) BY <1>2, NewIsAbove
    <2> HIDE DEF n
    <2>2. Busy = 1 /\ Saving = 1 BY <1>1 DEF Busy, Saving
    <2>3. n + Len(up) <= Used
      <3>1. CASE n = 1 BY <1>2, <2>2, <3>1 DEF IInv, Room
      <3>2. CASE n - 1 \in DOMAIN rows
        <4>1. n - 1 + Len(up) + 1 <= Used BY <2>2, <3>2 DEF IInv, Room
        <4> QED BY <1>2, <2>1, <4>1
      <3> QED BY <2>1, <3>1, <3>2
    <2>4. rows' \in Tables(Row) /\ Unacked(rows') /\ DOMAIN rows' \subseteq DOMAIN rows \cup {n}
      <3>1. n <= MaxEvents BY <1>2, <2>1, <2>3
      <3> QED BY <1>2, <1>3, <1>5, <3>1, SaveKeeps DEF n
    <2>5. mq' \in Handlers /\ mq'.op = "send" BY <1>3, <1>5 DEF Handlers
    <2>6. Typed' BY <1>1, <2>4, <2>5 DEF IInv, Typed
    <2>7. Room'
      <3>1. Busy' = 1 /\ Saving' = 0 BY <2>5 DEF Busy, Saving
      <3>2. Len(up') + Busy' <= Used' BY <1>1, <1>2, <2>2, <3>1 DEF IInv, Room
      <3>3. ASSUME NEW i \in DOMAIN rows' PROVE i + Len(up') + Saving' <= Used'
        <4>1. CASE i = n BY <1>1, <1>2, <2>1, <2>3, <3>1, <4>1
        <4>2. CASE i \in DOMAIN rows
          <5>1. i \in Nat /\ i + Len(up) + 1 <= Used BY <1>2, <2>2, <4>2 DEF IInv, Room
          <5> QED BY <1>1, <1>2, <3>1, <5>1
        <4> QED BY <2>4, <4>1, <4>2
      <3> QED BY <3>2, <3>3 DEF Room
    <2> QED BY <2>4, <2>6, <2>7 DEF IInv
  <1> QED BY <1>4, <1>5 DEF MqSave

\* It sends the alarm to Pc_ui.
LEMMA MqSendKeeps ==
  ASSUME IInv, MqSend
  PROVE  IInv'
  <1> DEFINE e == [id |-> mq.id, st |-> mq.st]
             f == [type |-> "alarm_event", list |-> <<e>>]
  <1>1. /\ mq.op = "send" /\ CanSend(pipe) /\ pipe' = ServerSend(pipe, f) /\ mq' = MqIdle
        /\ UNCHANGED <<polled, up, rows, ip, ui, events, requests, breaks>>
    BY DEF MqSend, bounds, gateway, sensorVars
  <1>2. 1 <= MaxEvents
    <2>1. Busy = 1 BY <1>1 DEF Busy
    <2>2. Len(up) \in Nat /\ Used \in Int /\ MaxEvents \in Nat /\ Used <= MaxEvents
      BY Numbers DEF IInv
    <2> QED BY <2>1, <2>2 DEF IInv, Room
  <1>3. f \in Frames
    <2>1. e \in Entry BY <1>1 DEF IInv, Typed, Handlers, Entry
    <2> HIDE DEF e
    <2>2. <<e>> \in Tables(Entry) /\ 1 \in DOMAIN <<e>> BY <1>2, <2>1, SmallTables
    <2> QED BY <2>2 DEF Frames
  <1> HIDE DEF f
  <1>4. pipe' \in Pipe(Frames, Request) /\ Len(pipe'.toUi) <= PipeMax
    BY <1>1, <1>3, PipeTypes DEF IInv, Typed
  <1>5. mq' \in Handlers /\ mq'.op = "idle" BY <1>1 DEF MqIdle, Handlers, RowStates
  <1>6. Typed' BY <1>1, <1>4, <1>5 DEF IInv, Typed
  <1>7. Room' BY <1>1, <1>5, RoomStays DEF IInv
  <1> QED BY <1>1, <1>6, <1>7 DEF IInv

\* It deletes the rows of a device that was removed.
LEMMA MqDeleteKeeps ==
  ASSUME IInv, MqDelete
  PROVE  IInv'
  <1>1. /\ mq.op = "delete" /\ rows' \in {NoRows, rows}
        /\ mq' \in {[mq EXCEPT !.op = "deleted"], [mq EXCEPT !.op = "kept"]}
        /\ UNCHANGED <<polled, up, ip, pipe, ui, events, requests, breaks>>
    BY DEF MqDelete, bounds, gateway, sensorVars
  <1>2. mq' \in Handlers /\ mq'.op \in {"deleted", "kept"} BY <1>1 DEF IInv, Typed, Handlers
  <1>3. rows' \in Tables(Row) /\ Unacked(rows') /\ DOMAIN rows' \subseteq DOMAIN rows
    BY <1>1, SmallTables DEF IInv, Typed, Unacked
  <1>4. Typed' BY <1>1, <1>2, <1>3 DEF IInv, Typed
  <1>5. Room' BY <1>1, <1>2, <1>3, RoomStays DEF IInv
  <1> QED BY <1>3, <1>4, <1>5 DEF IInv

\* It reports the outcome.
LEMMA MqLogUpdateKeeps ==
  ASSUME IInv, MqLogUpdate
  PROVE  IInv'
  <1> DEFINE f == [type |-> IF mq.op = "deleted" THEN "removed" ELSE "not_removed", list |-> NoRows]
  <1>1. /\ CanSend(pipe) /\ pipe' = ServerSend(pipe, f) /\ mq' = MqIdle
        /\ UNCHANGED <<polled, up, rows, ip, ui, events, requests, breaks>>
    BY DEF MqLogUpdate, bounds, gateway, sensorVars
  <1>2. f \in Frames BY SmallTables DEF Frames
  <1> HIDE DEF f
  <1>3. pipe' \in Pipe(Frames, Request) /\ Len(pipe'.toUi) <= PipeMax
    BY <1>1, <1>2, PipeTypes DEF IInv, Typed
  <1>4. mq' \in Handlers /\ mq'.op = "idle" BY <1>1 DEF MqIdle, Handlers, RowStates
  <1>5. Typed' BY <1>1, <1>3, <1>4 DEF IInv, Typed
  <1>6. Room' BY <1>1, <1>4, RoomStays DEF IInv
  <1> QED BY <1>1, <1>5, <1>6 DEF IInv

\* What a request does to the table of Pc_data: rows go or stay, and active rows stay.
LEMMA StoredKeeps ==
  ASSUME rows \in Tables(Row), Unacked(rows), NEW r, NEW new \in Stored(r)
  PROVE  /\ new \in Tables(Row) /\ Unacked(new) /\ DOMAIN new \subseteq DOMAIN rows
         /\ DOMAIN rows \ DOMAIN new /= {} =>
              \A i \in DOMAIN rows : rows[i].st = "active" => i \in DOMAIN new /\ new[i] = rows[i]
  <1>1. CASE new = rows BY <1>1
  <1>2. CASE new = AcknowledgeAlarm(rows, r.id) BY <1>2, AcknowledgeKeeps
  <1>3. CASE new = ClearRecoveredAlarms(rows)
    <2> DEFINE left == {i \in DOMAIN rows : rows[i].st /= "recovered"}
    <2>1. new = Kept(rows, left) BY <1>3 DEF ClearRecoveredAlarms
    <2>2. left \in SUBSET DOMAIN rows /\ \A i \in DOMAIN rows : rows[i].st = "active" => i \in left
      OBVIOUS
    <2> HIDE DEF left
    <2> QED BY <2>1, <2>2, KeptKeeps
  <1>4. CASE new = ClearAcknowledgedAlarms(rows)
    <2> DEFINE left == {i \in DOMAIN rows : rows[i].st /= "acknowledged" /\ ~rows[i].acked}
    <2>1. new = Kept(rows, left) BY <1>4 DEF ClearAcknowledgedAlarms
    <2>2. left \in SUBSET DOMAIN rows /\ \A i \in DOMAIN rows : rows[i].st = "active" => i \in left
      BY DEF Unacked
    <2> HIDE DEF left
    <2> QED BY <2>1, <2>2, KeptKeeps
  <1> QED
    <2>1. new \in {rows, AcknowledgeAlarm(rows, r.id), ClearRecoveredAlarms(rows),
                   ClearAcknowledgedAlarms(rows)}
      BY DEF Stored
    <2> QED BY <1>1, <1>2, <1>3, <1>4, <2>1

\* The IPC thread serves a request.
LEMMA IpReceiveKeeps ==
  ASSUME IInv, IpReceive
  PROVE  IInv'
  <1> DEFINE r == Head(pipe.toSvc)
  <1>1. /\ pipe.toSvc /= <<>> /\ pipe' = ServerRead(pipe)
        /\ UNCHANGED <<polled, up, mq, ui, events, requests, breaks>>
    BY DEF IpReceive, bounds, gateway, sensorVars
  <1>2. pipe' \in Pipe(Frames, Request) /\ Len(pipe'.toUi) <= PipeMax
    BY <1>1, PipeTypes DEF IInv, Typed
  <1>3. ip' \in {[IpIdle EXCEPT !.op = "query"], [IpIdle EXCEPT !.op = "cleared"],
                 [IpIdle EXCEPT !.op = "not_cleared"]}
    BY DEF IpReceive
  <1>4. ip' \in [op : {"idle", "query", "send", "cleared", "not_cleared"}, list : Tables(Entry)]
    BY <1>3, SmallTables DEF IpIdle
  <1>5. rows' \in Tables(Row) /\ Unacked(rows') /\ DOMAIN rows' \subseteq DOMAIN rows
    <2>1. CASE rows' \in Stored(r) BY <2>1, StoredKeeps DEF IInv, Typed
    <2>2. CASE rows' = NoRows BY <2>2, SmallTables DEF Unacked
    <2>3. CASE UNCHANGED rows BY <2>3 DEF IInv, Typed
    <2> QED BY <2>1, <2>2, <2>3 DEF IpReceive
  <1>6. Typed' BY <1>1, <1>2, <1>4, <1>5 DEF IInv, Typed
  <1>7. Room' BY <1>1, <1>5, RoomStays DEF IInv
  <1> QED BY <1>5, <1>6, <1>7 DEF IInv

\* It reads the table.
LEMMA IpQueryKeeps ==
  ASSUME IInv, IpQuery
  PROVE  IInv'
  <1>1. /\ ip' = [op |-> "send", list |-> QueryAlarmEvents(rows)]
        /\ UNCHANGED <<polled, up, rows, mq, pipe, ui, events, requests, breaks>>
    BY DEF IpQuery, bounds, gateway, sensorVars
  <1>2. ip' \in [op : {"idle", "query", "send", "cleared", "not_cleared"}, list : Tables(Entry)]
    <2>1. QueryAlarmEvents(rows) \in Tables(Entry) BY QueryTyped DEF IInv, Typed
    <2> QED BY <1>1, <2>1
  <1>3. Typed' BY <1>1, <1>2 DEF IInv, Typed
  <1>4. Room' BY <1>1, RoomStays DEF IInv
  <1> QED BY <1>1, <1>3, <1>4 DEF IInv

\* It answers.
LEMMA IpSendKeeps ==
  ASSUME IInv, IpSend
  PROVE  IInv'
  <1> DEFINE f == [type |-> IF ip.op = "send" THEN "alarm_events_snapshot" ELSE ip.op,
                   list |-> ip.list]
  <1>1. /\ ip.op \in {"send", "cleared", "not_cleared"} /\ CanSend(pipe)
        /\ pipe' = ServerSend(pipe, f) /\ ip' = IpIdle
        /\ UNCHANGED <<polled, up, rows, mq, ui, events, requests, breaks>>
    BY DEF IpSend, bounds, gateway, sensorVars
  <1>2. f \in Frames BY <1>1 DEF IInv, Typed, Frames
  <1> HIDE DEF f
  <1>3. pipe' \in Pipe(Frames, Request) /\ Len(pipe'.toUi) <= PipeMax
    BY <1>1, <1>2, PipeTypes DEF IInv, Typed
  <1>4. ip' \in [op : {"idle", "query", "send", "cleared", "not_cleared"}, list : Tables(Entry)]
    BY <1>1, SmallTables DEF IpIdle
  <1>5. Typed' BY <1>1, <1>3, <1>4 DEF IInv, Typed
  <1>6. Room' BY <1>1, RoomStays DEF IInv
  <1> QED BY <1>1, <1>5, <1>6 DEF IInv

\* What a snapshot shows.
LEMMA SnapshotTyped ==
  ASSUME NEW list \in Tables(Entry)
  PROVE  OnAlarmSnapshot(list) \in [Alarms -> RowStates \cup {"none"}]
  <1>1. DOMAIN list \subseteq 1 .. MaxEvents /\ list \in [DOMAIN list -> Entry] BY InTables
  <1>2. ASSUME NEW a \in Alarms
        PROVE  LET at == {i \in DOMAIN list : list[i].id = a}
               IN  (IF at = {} THEN "none" ELSE list[Min(at)].st) \in RowStates \cup {"none"}
    <2> DEFINE at == {i \in DOMAIN list : list[i].id = a}
    <2>1. at \subseteq Nat /\ at \subseteq DOMAIN list BY <1>1
    <2> HIDE DEF at
    <2>2. CASE at = {} BY <2>2 DEF at
    <2>3. CASE at /= {}
      <3>1. \E x \in at : \A y \in at : x <= y BY <2>1, <2>3, Least
      <3>2. Min(at) \in at BY <3>1 DEF Min
      <3>3. list[Min(at)] \in Entry BY <1>1, <2>1, <3>2
      <3>4. list[Min(at)].st \in RowStates BY <3>3 DEF Entry
      <3> QED BY <2>3, <3>4 DEF at
    <2> QED BY <2>2, <2>3
  <1> QED BY <1>2 DEF OnAlarmSnapshot

\* Pc_ui takes a message.
LEMMA UiReceiveKeeps ==
  ASSUME IInv, UiReceive
  PROVE  IInv'
  <1> DEFINE m == Head(pipe.toUi)
             S == [Alarms -> RowStates \cup {"none"}]
  <1>1. /\ pipe.toUi /= <<>> /\ UNCHANGED <<polled, up, rows, mq, ip, events, requests, breaks>>
        /\ pipe' \in {ClientRead(pipe), ClientSend(ClientRead(pipe), GetAlarmEvents)}
    BY DEF UiReceive, bounds, gateway, sensorVars
  <1>2. /\ ClientRead(pipe) \in Pipe(Frames, Request) /\ Len(ClientRead(pipe).toUi) <= PipeMax
        /\ m \in Frames
    BY <1>1, PipeTypes DEF IInv, Typed
  <1>3. pipe' \in Pipe(Frames, Request) /\ Len(pipe'.toUi) <= PipeMax
    BY <1>1, <1>2, PipeTypes, RequestTyped
  <1>4. m.list \in Tables(Entry) /\ (m.type = "alarm_event" => 1 \in DOMAIN m.list)
    BY <1>2 DEF Frames
  <1>5. ui \in S /\ NothingShown \in S BY DEF IInv, Typed, NothingShown
  <1>6. OnAlarmSnapshot(m.list) \in S BY <1>4, SnapshotTyped
  <1>7. m.type = "alarm_event" => OnAlarmMessage(m.list[1]) \in S
    <2> SUFFICES ASSUME m.type = "alarm_event" PROVE OnAlarmMessage(m.list[1]) \in S OBVIOUS
    <2>1. m.list[1] \in Entry BY <1>4, InTables
    <2>2. m.list[1].st \in RowStates BY <2>1 DEF Entry
    <2> QED BY <1>5, <2>2 DEF OnAlarmMessage
  <1> HIDE DEF S
  <1>8. ui' \in S BY <1>5, <1>6, <1>7 DEF UiReceive
  <1>9. Typed' BY <1>1, <1>3, <1>8 DEF IInv, Typed, S
  <1>10. Room' BY <1>1, RoomStays DEF IInv
  <1> QED BY <1>1, <1>9, <1>10 DEF IInv

\* Pc_ui connects, requests something, or loses the pipe.
LEMMA OthersKeep ==
  ASSUME IInv, UiConnect \/ PipeBreaks \/ \E r \in Request : UiRequest(r)
  PROVE  IInv'
  <1>1. UNCHANGED <<polled, up, rows, mq, ip, ui, events>>
    BY DEF UiConnect, PipeBreaks, UiRequest, bounds, gateway, sensorVars
  <1>2. pipe' \in Pipe(Frames, Request) /\ Len(pipe'.toUi) <= PipeMax
    <2>1. CASE UiConnect BY <2>1, PipeStarts, PipeTypes, RequestTyped DEF UiConnect
    <2>2. CASE PipeBreaks BY <2>2, PipeStarts DEF PipeBreaks
    <2>3. ASSUME NEW r \in Request, UiRequest(r)
          PROVE  pipe' \in Pipe(Frames, Request) /\ Len(pipe'.toUi) <= PipeMax
      BY <2>3, PipeTypes DEF UiRequest, IInv, Typed
    <2> QED BY <2>1, <2>2, <2>3
  <1>3. requests' \in 0 .. MaxRequests /\ breaks' \in 0 .. MaxBreaks
    <2>1. /\ requests \in 0 .. MaxRequests /\ breaks \in 0 .. MaxBreaks
          /\ MaxRequests \in Nat /\ MaxBreaks \in Nat
      BY AlarmAssumption DEF IInv, Typed
    <2>2. CASE UiConnect BY <2>1, <2>2 DEF UiConnect, bounds
    <2>3. CASE PipeBreaks BY <2>1, <2>3 DEF PipeBreaks
    <2>4. ASSUME NEW r \in Request, UiRequest(r)
          PROVE  requests' \in 0 .. MaxRequests /\ breaks' \in 0 .. MaxBreaks
      BY <2>1, <2>4 DEF UiRequest
    <2> QED BY <2>2, <2>3, <2>4
  <1>4. Typed' BY <1>1, <1>2, <1>3 DEF IInv, Typed
  <1>5. Room' BY <1>1, RoomStays DEF IInv
  <1> QED BY <1>1, <1>4, <1>5 DEF IInv

-----------------------------------------------------------------------------
(* The theorems                                                            *)

\* The invariant holds initially.
LEMMA InitHolds == Init => IInv
  <1> SUFFICES ASSUME Init PROVE IInv OBVIOUS
  <1>1. /\ UpMax \in Nat /\ MaxEvents \in Nat /\ MaxRequests \in Nat /\ MaxBreaks \in Nat
    BY AlarmAssumption
  <1>2. up = <<>> /\ rows = NoRows /\ mq = MqIdle /\ ip = IpIdle /\ pipe = Broken
        /\ ui = NothingShown /\ events = 0 /\ requests = 0 /\ breaks = 0 /\ polled = NoReading
    BY DEF Init
  <1>3. rows \in Tables(Row) /\ NoRows \in Tables(Entry) /\ DOMAIN rows = {}
    BY <1>2, SmallTables
  <1>4. mq \in Handlers /\ mq.op = "idle" BY <1>2 DEF MqIdle, Handlers, RowStates
  <1>5. ip \in [op : {"idle", "query", "send", "cleared", "not_cleared"}, list : Tables(Entry)]
    BY <1>2, <1>3 DEF IpIdle
  <1>6. ui \in [Alarms -> RowStates \cup {"none"}] BY <1>2 DEF NothingShown
  <1>7. up \in Seq(Messages) /\ Len(up) = 0 BY <1>2
  <1>8. Typed BY <1>1, <1>2, <1>3, <1>4, <1>5, <1>6, <1>7, PipeStarts DEF Typed
  <1>9. Room BY <1>2, <1>3, <1>4, <1>7 DEF Room, Busy, Used
  <1> QED BY <1>3, <1>8, <1>9 DEF IInv, Unacked

\* Every step keeps it.
LEMMA NextKeeps == IInv /\ [Next]_vars => IInv'
  <1> SUFFICES ASSUME IInv, [Next]_vars PROVE IInv' OBVIOUS
  <1>1. CASE \/ \E r \in Polls : PollDevice(r)
             \/ TestReading \/ EndSetThreshold \/ \E c : BeginSetThreshold(c)
    BY <1>1, PollDeviceKeeps, TestReadingKeeps, SetThresholdKeeps
  <1>2. ASSUME NEW m \in AlarmEvents, Send(m) PROVE IInv'
    <2>1. m \in Messages BY DEF AlarmEvents, Messages, RowStates
    <2> QED BY <1>2, <2>1, SendKeeps
  <1>3. CASE Send(Removed)
    <2>1. Removed \in Messages BY DEF Removed, Messages, RowStates
    <2> QED BY <1>3, <2>1, SendKeeps
  <1>4. CASE MqttThread
    BY <1>4, MqReceiveKeeps, MqSaveKeeps, MqSendKeeps, MqDeleteKeeps, MqLogUpdateKeeps
    DEF MqttThread
  <1>5. CASE IpcThread BY <1>5, IpReceiveKeeps, IpQueryKeeps, IpSendKeeps DEF IpcThread
  <1>6. CASE UiReceive BY <1>6, UiReceiveKeeps
  <1>7. CASE UiConnect \/ PipeBreaks \/ \E r \in Request : UiRequest(r) BY <1>7, OthersKeep
  <1>8. CASE UNCHANGED vars
    BY <1>8 DEF vars, gateway, sensorVars, bounds, IInv, Typed, Room, Busy, Saving, Used, Unacked
  <1> QED BY <1>1, <1>2, <1>3, <1>4, <1>5, <1>6, <1>7, <1>8 DEF Next

\* IInv is an invariant.
THEOREM Invariant == Spec => []IInv
BY InitHolds, NextKeeps, PTL DEF Spec

-----------------------------------------------------------------------------
(* Alarms and readings                                                     *)

\* A reading is tested.
LEMMA TestReadingTells ==
  ASSUME SInv, TestReading
  PROVE  SInv'
  <1> DEFINE test == CheckThreshold(sensor, polled, last)
             out(p) == OutOfRange(sensor.config.point[p], polled[p])
  <1>1. /\ polled /= NoReading /\ last' = test.last /\ polled' = NoReading /\ tested' = polled
        /\ told' = {p \in Points : (p \in told \/ p = test.alarm) /\ out(p)}
        /\ UNCHANGED <<newer, sensor, old>>
    BY DEF TestReading, OutOfRangeNow
  <1>2. /\ test.last \in [Points -> BOOLEAN]
        /\ test.alarm \in Points => test.last[test.alarm]
        /\ \A p \in Points : test.last[p] => On(p)
        /\ \A p \in Points : last[p] /\ out(p) => test.last[p]
        /\ test.last["temperature"] =>
              out("temperature") /\ (last["temperature"] \/ test.alarm = "temperature")
        /\ On("temperature") /\ out("temperature") =>
              last["temperature"] \/ test.alarm = "temperature"
    <2>1. last \in [Points -> BOOLEAN] BY DEF SInv, SensorTyped
    <2>2. \A p \in Points : last[p] => sensor.has /\ sensor.config.threshold_enabled
                                       /\ sensor.config.point[p].enable_alarm
      BY DEF SInv, On
    <2> HIDE DEF test
    <2> QED BY <2>1, <2>2, Checked DEF On, test
  <1>3. /\ "temperature" \in Points /\ \A p \in told : p \in Points /\ last[p]
        /\ last["temperature"] => "temperature" \in told
    BY DEF SInv, SensorTyped, Points
  <1> HIDE DEF test, out
  <1>4. SensorTyped' BY <1>1, <1>2 DEF SInv, SensorTyped
  <1>5. \A p \in told' : last'[p] BY <1>1, <1>2, <1>3
  <1>6. \A p \in Points : last'[p] => On(p)' BY <1>1, <1>2 DEF On
  <1>7. On("temperature") /\ out("temperature") => "temperature" \in told' BY <1>1, <1>2, <1>3
  <1>8. last'["temperature"] => "temperature" \in told' BY <1>1, <1>2, <1>3
  <1>9. TemperatureIsReported'
    <2>1. Exceeds("temperature")' => On("temperature") /\ out("temperature")
      BY <1>1 DEF Exceeds, On, OutOfRangeNow, out
    <2> QED BY <1>7, <2>1 DEF TemperatureIsReported
  <1> QED BY <1>4, <1>5, <1>6, <1>8, <1>9 DEF SInv

\* Thresholds are set: nothing is in alarm, told of or tested with them.
LEMMA SetTells ==
  ASSUME SInv, NEW c \in ConfigsWith(PollLimits), SetThresholdConfig(c),
         UNCHANGED <<newer, polled>>, old' \in SUBSET ConfigsWith(PollLimits)
  PROVE  SInv'
  <1>1. /\ sensor' = [has |-> TRUE, config |-> c] /\ last' = Quiet
        /\ tested' = NoReading /\ told' = {}
    BY DEF SetThresholdConfig
  <1>2. sensor' \in SensorsWith(PollLimits) BY <1>1 DEF SensorsWith
  <1>3. SensorTyped' BY <1>1, <1>2, ZeroTyped DEF SInv, SensorTyped
  <1>4. \A p \in Points : ~last'[p] BY <1>1 DEF Quiet
  <1>5. "temperature" \in Points BY DEF Points
  <1>6. TemperatureIsReported' BY <1>1 DEF TemperatureIsReported, Exceeds
  <1> QED BY <1>1, <1>3, <1>4, <1>5, <1>6 DEF SInv

\* The sensor's state is kept by every step.
LEMMA SensorKeeps == SInv /\ [Next]_vars => SInv'
  <1> SUFFICES ASSUME SInv, [Next]_vars PROVE SInv' OBVIOUS
  <1>1. CASE UNCHANGED gateway
    BY <1>1 DEF gateway, sensorVars, SInv, SensorTyped, On, TemperatureIsReported, Exceeds,
                OutOfRangeNow
  <1>2. ASSUME NEW r \in Polls, PollDevice(r) PROVE SInv'
    BY <1>2 DEF PollDevice, SInv, SensorTyped, On, TemperatureIsReported, Exceeds, OutOfRangeNow
  <1>3. CASE TestReading BY <1>3, TestReadingTells
  <1>4. ASSUME NEW s \in Sensors, BeginSetThreshold(s.config) PROVE SInv'
    <2>1. s.config \in ConfigsWith(PollLimits) BY AlarmAssumption DEF SensorsWith
    <2>2. sensor.config \in ConfigsWith(PollLimits) BY DEF SInv, SensorTyped, SensorsWith
    <2>3. old' \in SUBSET ConfigsWith(PollLimits) BY <1>4, <2>2, ZeroTyped DEF BeginSetThreshold
    <2> QED BY <1>4, <2>1, <2>3, SetTells DEF BeginSetThreshold
  <1>5. CASE EndSetThreshold
    <2>1. /\ UNCHANGED <<newer, polled>> /\ old' = {} /\ old \in SUBSET ConfigsWith(PollLimits)
      BY <1>5 DEF EndSetThreshold, SInv, SensorTyped
    <2>2. ASSUME NEW c \in old, SetThresholdConfig(c) PROVE SInv' BY <2>1, <2>2, SetTells
    <2>3. CASE UNCHANGED <<sensor, last, tested, told>>
      BY <2>1, <2>3 DEF SInv, SensorTyped, On, TemperatureIsReported, Exceeds, OutOfRangeNow
    <2> QED BY <1>5, <2>2, <2>3 DEF EndSetThreshold
  <1>6. CASE \/ \E m \in AlarmEvents : newer /\ Send(m)
             \/ newer /\ Send(Removed)
             \/ MqttThread \/ IpcThread \/ UiReceive \/ UiConnect \/ PipeBreaks
             \/ \E r \in Request : UiRequest(r)
             \/ UNCHANGED vars
    BY <1>1, <1>6 DEF Send, MqttThread, MqReceive, MqSave, MqSend, MqDelete, MqLogUpdate, IpcThread,
                      IpReceive, IpQuery, IpSend, UiReceive, UiConnect, PipeBreaks, UiRequest, vars
  <1> QED BY <1>2, <1>3, <1>4, <1>5, <1>6 DEF Next

\* SInv is an invariant.
THEOREM SensorInvariant == Spec => []SInv
  <1>1. Init => SInv
    <2> SUFFICES ASSUME Init PROVE SInv OBVIOUS
    <2>1. /\ sensor \in SensorsWith(PollLimits) /\ newer \in BOOLEAN
      <3>1. NoThresholds \in SensorsWith(PollLimits) BY ZeroTyped DEF NoThresholds, SensorsWith
      <3> QED BY <3>1, AlarmAssumption DEF Init
    <2>2. last = Quiet /\ polled = NoReading /\ old = {} /\ tested = NoReading /\ told = {}
      BY DEF Init
    <2>3. SensorTyped BY <2>1, <2>2, ZeroTyped DEF SensorTyped
    <2>4. \A p \in Points : ~last[p] BY <2>2 DEF Quiet
    <2>5. "temperature" \in Points BY DEF Points
    <2> QED BY <2>2, <2>3, <2>4, <2>5 DEF SInv, TemperatureIsReported, Exceeds
  <1> QED BY <1>1, SensorKeeps, PTL DEF Spec

\* TemperatureIsReported: whatever is in alarm was told of with the thresholds that are
\* set, and what is out of range is in alarm after its test.
THEOREM TemperatureAlwaysReported == Spec => []TemperatureIsReported
BY SensorInvariant, PTL DEF SInv

\* OneAlarmPerExcursion: a point fires only while it is not in alarm, and whatever was
\* told of is in alarm.
THEOREM OneAlarmEach == Spec => OneAlarmPerExcursion
  <1> DEFINE Step == \A p \in Points :
                        up' = Append(up, Emergency(p)) => p \notin told /\ Exceeds(p)'
  <1>1. IInv /\ SInv /\ [Next]_vars => [Step]_vars
    <2> SUFFICES ASSUME IInv, SInv, Next, NEW p \in Points, up' = Append(up, Emergency(p))
                 PROVE  p \notin told /\ Exceeds(p)'
      BY DEF vars
    <2>1. up \in Seq(Messages) BY DEF IInv, Typed
    <2>2. Len(up') = Len(up) + 1 /\ up'[Len(up')] = Emergency(p) BY <2>1
    <2>3. up' /= up BY <2>1, <2>2
    <2>4. ASSUME NEW m, m.kind /= "emergency", up' = Append(up, m) PROVE FALSE
      <3>1. up'[Len(up')] = m BY <2>1, <2>4
      <3> QED BY <2>2, <2>4, <3>1 DEF Emergency
    <2>5. CASE TestReading
      <3> DEFINE test == CheckThreshold(sensor, polled, last)
                 out == OutOfRange(sensor.config.point[p], polled[p])
      <3>1. test.alarm \in Points \cup {"none"} BY NamesPoint
      <3>2. PublishThresholdAlarm(test.alarm) BY <2>5 DEF TestReading
      <3>3. test.alarm \in Points => On(test.alarm) /\ ~last[test.alarm]
                                     /\ OutOfRange(sensor.config.point[test.alarm], polled[test.alarm])
        <4>1. last \in [Points -> BOOLEAN] BY DEF SInv, SensorTyped
        <4>2. \A x \in Points : last[x] => sensor.has /\ sensor.config.threshold_enabled
                                           /\ sensor.config.point[x].enable_alarm
          BY DEF SInv, On
        <4> HIDE DEF test
        <4> QED BY <4>1, <4>2, Checked DEF On, test
      <3> HIDE DEF test
      <3>4. test.alarm /= "none" /\ up' = Append(up, Emergency(test.alarm))
        BY <2>3, <3>2 DEF PublishThresholdAlarm
      <3>5. test.alarm = p
        <4>1. up'[Len(up')] = Emergency(test.alarm) BY <2>1, <3>4
        <4> QED BY <2>2, <4>1 DEF Emergency
      <3>6. On(p) /\ ~last[p] /\ out BY <3>3, <3>5
      <3>7. p \notin told BY <3>6 DEF SInv
      <3>8. tested' = polled /\ polled /= NoReading /\ UNCHANGED sensor BY <2>5 DEF TestReading
      <3> QED BY <3>6, <3>7, <3>8 DEF Exceeds, On, OutOfRangeNow
    <2>6. ASSUME NEW m \in AlarmEvents, Send(m) PROVE FALSE
      BY <2>4, <2>6 DEF Send, AlarmEvents
    <2>7. CASE Send(Removed) BY <2>4, <2>7 DEF Send, Removed
    <2>8. CASE MqttThread
      <3>1. Len(up) \in Nat BY <2>1
      <3>2. CASE MqReceive
        <4>1. up /= <<>> /\ up' = Tail(up) BY <3>2 DEF MqReceive
        <4> QED BY <2>1, <2>2, <3>1, <4>1
      <3>3. CASE MqSave \/ MqSend \/ MqDelete \/ MqLogUpdate
        BY <2>3, <3>3 DEF MqSave, MqSend, MqDelete, MqLogUpdate
      <3> QED BY <2>8, <3>2, <3>3 DEF MqttThread
    <2>9. CASE \/ \E r \in Polls : PollDevice(r)
               \/ \E s \in Sensors : BeginSetThreshold(s.config)
               \/ EndSetThreshold \/ IpcThread \/ UiReceive \/ UiConnect \/ PipeBreaks
               \/ \E r \in Request : UiRequest(r)
      BY <2>3, <2>9 DEF PollDevice, BeginSetThreshold, EndSetThreshold, IpcThread, IpReceive, IpQuery,
                        IpSend, UiReceive, UiConnect, PipeBreaks, UiRequest
    <2> QED BY <2>5, <2>6, <2>7, <2>8, <2>9 DEF Next
  <1> QED BY <1>1, Invariant, SensorInvariant, PTL DEF Spec, OneAlarmPerExcursion

-----------------------------------------------------------------------------
(* Types, and what clearing leaves                                         *)

\* TypeOK holds in every state: the messages of an alarm hold its id, and the table has
\* room for every alarm that is under way.
THEOREM TypeCorrect == Spec => []TypeOK
  <1>1. IInv /\ SInv => TypeOK
    <2> SUFFICES ASSUME Typed, SensorTyped PROVE TypeOK BY DEF IInv, SInv
    <2> DEFINE AllMessages == [kind : {"alarm_event", "emergency", "removed"},
                               id : Alarms \cup Points \cup {NoAlarm},
                               st : RowStates, gateway : BOOLEAN]
               AllFrames == [type : {"alarm_event", "alarm_events_snapshot", "removed", "not_removed",
                                     "cleared", "not_cleared"}, list : Tables(Entry)]
    <2>1. Messages \subseteq AllMessages /\ Frames \subseteq AllFrames BY DEF Messages, Frames
    <2>2. mq \in [op : {"idle", "save", "send", "delete", "deleted", "kept"},
                  id : Alarms \cup {NoAlarm}, st : RowStates]
      BY DEF Typed, Handlers
    <2> HIDE DEF AllMessages, AllFrames
    <2>3. Seq(Messages) \subseteq Seq(AllMessages) /\ Seq(Frames) \subseteq Seq(AllFrames) BY <2>1
    <2>4. up \in Seq(AllMessages) /\ pipe \in Pipe(AllFrames, Request) BY <2>3 DEF Typed, Pipe
    <2> QED BY <2>2, <2>4 DEF TypeOK, Typed, SensorTyped, AllMessages, AllFrames
  <1> QED BY <1>1, Invariant, SensorInvariant, PTL

\* ActiveNotCleared: an active row is never acknowledged, so that clearing what is
\* acknowledged or recovered leaves it; whoever else deletes rows is the MQTT thread or
\* clear_all_data.
THEOREM ClearingSparesActive == Spec => ActiveNotCleared
  <1> DEFINE Spared == \A i \in DOMAIN rows :
                          rows[i].st = "active" => i \in DOMAIN rows' /\ rows'[i] = rows[i]
             Step == DOMAIN rows \ DOMAIN rows' /= {} /\ UNCHANGED mq /\ ip'.op /= "cleared" => Spared
  <1>1. IInv /\ [Next]_vars => [Step]_vars
    <2> SUFFICES ASSUME IInv, Next, DOMAIN rows \ DOMAIN rows' /= {}, UNCHANGED mq,
                        ip'.op /= "cleared"
                 PROVE  Spared
      BY DEF vars
    <2>1. rows' /= rows OBVIOUS
    <2>2. CASE IpReceive
      <3> DEFINE r == Head(pipe.toSvc)
      <3>1. CASE rows' \in Stored(r) BY <3>1, StoredKeeps DEF IInv, Typed
      <3>2. CASE ip' = [IpIdle EXCEPT !.op = "cleared"] BY <3>2 DEF IpIdle
      <3>3. CASE UNCHANGED rows BY <2>1, <3>3
      <3> QED BY <2>2, <3>1, <3>2, <3>3 DEF IpReceive
    <2>3. CASE MqttThread
      <3>1. CASE MqReceive BY <2>1, <3>1 DEF MqReceive
      <3>2. CASE MqSave
        <4>1. mq' = MqIdle \/ mq' = [mq EXCEPT !.op = "send"] BY <3>2 DEF MqSave
        <4>2. mq'.op /= mq.op BY <3>2, <4>1 DEF MqSave, MqIdle, IInv, Typed, Handlers
        <4> QED BY <4>2
      <3>3. CASE MqSend BY <2>1, <3>3 DEF MqSend
      <3>4. CASE MqDelete
        <4>1. mq' = [mq EXCEPT !.op = "deleted"] \/ mq' = [mq EXCEPT !.op = "kept"]
          BY <3>4 DEF MqDelete
        <4>2. mq'.op /= mq.op BY <3>4, <4>1 DEF MqDelete, IInv, Typed, Handlers
        <4> QED BY <4>2
      <3>5. CASE MqLogUpdate BY <2>1, <3>5 DEF MqLogUpdate
      <3> QED BY <2>3, <3>1, <3>2, <3>3, <3>4, <3>5 DEF MqttThread
    <2>4. CASE ~IpReceive /\ ~MqttThread
      BY <2>1, <2>4 DEF Next, PollDevice, TestReading, BeginSetThreshold, EndSetThreshold, pcVars,
                        Send, IpcThread, IpQuery, IpSend, UiReceive, UiConnect, PipeBreaks, UiRequest
    <2> QED BY <2>2, <2>3, <2>4
  <1> QED BY <1>1, Invariant, PTL DEF Spec, ActiveNotCleared
=============================================================================
