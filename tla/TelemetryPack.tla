--------------------------- MODULE TelemetryPack ---------------------------
(***************************************************************************)
(* What becomes of a reading on its way to the two screens: Linux_data     *)
(* packs it (data_telemetry.c); Linux_ui reads the pack (data_parser.cpp); *)
(* Pc_data reads it too (TelemetryPackParser), turns it into points        *)
(* (ModelConverter), drops the points it does not know                     *)
(* (handleTelemetryMessage), and Pc_ui fills a device's fields from the    *)
(* points (DataManager).                                                   *)
(*                                                                         *)
(* A reading maps the fields of its type to values.  The fields of a relay *)
(* board are its channels, the bits of relayStates.  In the pack a field   *)
(* occurs several times under several names with one value; that is one    *)
(* field here.  The entries of points[] are kept apart.                    *)
(***************************************************************************)
EXTENDS Naturals, FiniteSetsExt, Functions

CONSTANT ChannelCount   \* RelayDevice::ChannelCount

ASSUME PackAssumption == ChannelCount \in 1 .. 16

Channels == 1 .. ChannelCount
Types == {"sensor_th", "electric_meter", "relay", "sysinfo"}

Fields(type) == CASE type = "sensor_th"      -> {"temperature", "humidity"}
                  [] type = "electric_meter" -> {"voltage", "current", "power", "energy"}
                  [] type = "relay"          -> Channels
                  [] type = "sysinfo"        -> {"kernel", "arch", "os", "cpuUsage", "memoryUsage"}

\* RelayDevice::read
RelayReading(states) == [type |-> "relay", valid |-> TRUE, val |-> states]

-----------------------------------------------------------------------------
(* Linux_data                                                              *)

\* Of a relay board only channel 1 is listed.
PackedPoints(type) == CASE type = "sensor_th" -> Fields(type)
                        [] type = "relay"     -> {1}
                        [] OTHER              -> {}

PackDevice(r) ==
  [type |-> r.type, valid |-> r.valid, fields |-> r.val,
   channelCount |-> IF r.type = "relay" THEN ChannelCount ELSE 0,
   points |-> Restrict(r.val, PackedPoints(r.type))]

-----------------------------------------------------------------------------
(* Linux_ui                                                                *)

\* Points are not read, nor a meter; an invalid device has no values.
DataParser(j) ==
  IF j.valid /\ j.type # "electric_meter" THEN j.fields ELSE <<>>

-----------------------------------------------------------------------------
(* Pc_data: TelemetryPackParser                                            *)

MaxPointChannel(j) == Max({0} \cup {c \in DOMAIN j.points : c <= 64})

RelayChannelCount(j) ==
  IF j.channelCount \in 1 .. 64 THEN Max({j.channelCount, MaxPointChannel(j)})
  ELSE IF MaxPointChannel(j) > 0 THEN MaxPointChannel(j)
  ELSE 16

\* A point goes before the field of the same name; relayStates is not read
\* when there is a point of any channel.
Parsed(j, k) == IF k \in DOMAIN j.points THEN j.points[k]
                ELSE IF j.type = "relay" /\ DOMAIN j.points # {} THEN FALSE
                ELSE j.fields[k]

ParseJson(j) ==
  LET count == IF j.type = "relay" THEN RelayChannelCount(j) ELSE 0
      keys  == IF j.type = "relay" THEN 1 .. count ELSE Fields(j.type)
  IN  [type |-> j.type, valid |-> j.valid, channelCount |-> count,
       val  |-> [k \in keys |-> IF j.type = "relay" /\ k \notin Channels THEN FALSE
                                ELSE Parsed(j, k)]]

-----------------------------------------------------------------------------
(* Pc_data: ModelConverter, and the filter of handleTelemetryMessage       *)

Points(d, keys) == [k \in keys |-> d.val[k]]

TemperatureHumidityPoints(d) == Points(d, {"temperature", "humidity"})
ElectricMeterPoints(d)       == Points(d, {"voltage", "current", "power", "energy"})
RelayPoints(d)               == Points(d, 1 .. (IF d.channelCount > 64 THEN 64 ELSE d.channelCount))
SysInfoPoints(d)             == Points(d, Fields("sysinfo"))

ToTelemetryPoints(d) == CASE d.type = "sensor_th"      -> TemperatureHumidityPoints(d)
                          [] d.type = "electric_meter" -> ElectricMeterPoints(d)
                          [] d.type = "relay"          -> RelayPoints(d)
                          [] d.type = "sysinfo"        -> SysInfoPoints(d)

\* The channels that default points exist for.
RelayPointKeys == 1 .. 16

DefaultPointKeys(type) == CASE type = "sensor_th"      -> {"temperature", "humidity"}
                            [] type = "relay"          -> RelayPointKeys
                            [] type = "electric_meter" -> {"voltage", "current", "power", "energy"}
                            [] OTHER                   -> {}

\* configured: the keys registered for the device with point_config.
KnownPoints(type, pts, configured) ==
  Restrict(pts, DOMAIN pts \cap (DefaultPointKeys(type) \cup configured))

-----------------------------------------------------------------------------
(* Pc_ui                                                                   *)

\* The fields that points of a valid device set; a sysinfo device has none.
ApplyPointToTypedFields(d, pts) ==
  IF d.valid /\ d.type # "sysinfo" THEN pts ELSE <<>>

-----------------------------------------------------------------------------
(* The values a pack brings to Pc_ui.                                      *)
ShownByPcUi(j) ==
  LET d == ParseJson(j)
  IN  ApplyPointToTypedFields(d, KnownPoints(d.type, ToTelemetryPoints(d), {}))

=============================================================================
