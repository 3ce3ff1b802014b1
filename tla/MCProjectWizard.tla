------------------------------- MODULE MCProjectWizard -------------------------------
(* The wizard over the catalogue: every solution's steps, some selections of components, and     *)
(* workspaces of up to three boards.                                                             *)
EXTENDS ProjectWizard, VehicleSolutions, DeviceSolutions

AllSolutions == VehicleRegistry @@ DeviceRegistry

\* The length of the longest chain of components that ends in one.
Depth[id \in DOMAIN DefaultComponents] ==
    LET below == (DefaultComponents[id].auto_load \cup DefaultComponents[id].dependencies)
                    \cap DOMAIN DefaultComponents
    IN  IF below = {} THEN 0 ELSE 1 + Max({Depth[other] : other \in below})

\* What the catalogue has to be like for every graph to be drawn to the end.
ASSUME CatalogueInOrder ==
    LayeredBy(Depth) /\ \A id \in DOMAIN AllSolutions : InOrder(AllSolutions[id].steps)

UplinkNames ==
    [EspNow |-> "esp_now", WifiMesh |-> "wifi_mesh", Wifi80211lr |-> "wifi_80211lr",
     BleMesh |-> "ble_mesh", Crsf |-> "crsf", Sbus |-> "sbus", WifiMavlink |-> "wifi_mavlink",
     WifiCrtp |-> "wifi_crtp", BleGatt |-> "ble_gatt", UsbCdc |-> "usb_cdc", None |-> "none"]

Chips == {"Esp32S3", "Esp32C6", "Esp32D0wd"}

Profile(solution, chip, protocol) ==
    [solution |-> solution, chip |-> chip, protocol |-> protocol]

\* Transmitters, receivers with equal and with different telemetry, boards outside the pairing,
\* and bridges with and without their parameter.
SomeProfiles ==
    {Profile(s, c, Unset) :
        s \in {"elrs_tx_solution", "esp_now_tx_solution", "quad_stabilizer_solution",
               "elrs_crsf_dshot_solution", "elrs_crsf_brushed_solution", "mecanum_control_solution",
               "climbing_controller_solution", "mavlink_groundstation_solution",
               "video_board_solution", "no_such_solution"},
        c \in Chips}
    \cup {Profile("phone_bridge_solution", c, w) : c \in Chips, w \in {Unset, "esp_now", "ble_mesh"}}

SomeSelections ==
    {{}} \cup {AllSolutions[id].required : id \in DOMAIN AllSolutions}
         \cup {S \in SUBSET {"dht", "api", "i2c", "camera"} : S # {}}

\* No component is called like a stage of a build.
ASSUME SelectionsDistinct == \A ids \in SomeSelections : ids \cap BuildStages = {}
=============================================================================
