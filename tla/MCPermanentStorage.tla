------------------------- MODULE MCPermanentStorage -------------------------
(***************************************************************************)
(* An instance of PermanentStorage: the variables whose place or use       *)
(* matters, in the order of the structure, of which the last two are new.  *)
(***************************************************************************)
EXTENDS PermanentStorage

SomeVariables ==
  <<"initialised", "stationID", "batteryThreshold_mV", "batteryEmergencyThresh_mV",
    "stationsToRelayCommands", "stationsToRelayWeather", "frequency_i", "bandwidth_i",
    "chargeVoltage_mV", "chargeResponseRate", "messageTypesToRecord",
    "inboundPreambleLength", "stasisRequested", "codingRate">>
OneByte == {"initialised", "stationID", "stasisRequested", "codingRate"}
SomeGroups == [thresholds |-> <<"batteryThreshold_mV", "batteryEmergencyThresh_mV">>,
               charging |-> <<"chargeVoltage_mV", "chargeResponseRate">>,
               frequency |-> <<"frequency_i">>]
SomeDefault ==
  [v \in Variables |->
     CASE v = "initialised" -> "TRUE"
       [] v = "stationID" -> 1
       [] v \in {"stationsToRelayWeather", "stationsToRelayCommands"} -> [i \in 1..ListSize |-> 0]
       [] v = "messageTypesToRecord" -> [i \in 1..TypeListSize |-> 0]
       [] v = "stasisRequested" -> "FALSE"
       [] OTHER -> "default"]
FirstTypes == [i \in 1..TypeListSize |-> IF i <= MaxId THEN i ELSE 0]
SomeUsed == {[Default EXCEPT !["batteryThreshold_mV"] = "other", !["stationID"] = 3],
             [Default EXCEPT !["frequency_i"] = "other", !["stationID"] = 2,
                             !["stationsToRelayWeather"] = [i \in 1..ListSize |-> i]]}
=============================================================================
