----------------------------- MODULE PlatformCatalogue -----------------------------
(* The hardware tables: the GPIO capabilities of each chip as the resource tracker and as the    *)
(* wizard pin picker know them, the ESP-IDF targets, the modules, and the vehicle topologies and *)
(* form factors.                                                                                 *)
EXTENDS ComponentCatalogue

Pins(max, input_only, flash, strapping) ==
    [max_gpio |-> max, input_only |-> input_only, flash_reserved |-> flash, strapping |-> strapping]

\* What the resource tracker of the pipeline knows of each chip.
capabilities_for ==
    [Esp32 |-> Pins(39, 34..39, 6..11, {0, 2, 5, 12, 15}),
     Esp32S2 |-> Pins(46, {46}, 26..32, {0, 45, 46}),
     Esp32S3 |-> Pins(48, {}, 26..32, {0, 3, 45, 46}),
     Esp32C2 |-> Pins(20, {}, 12..17, {8, 9}),
     Esp32C3 |-> Pins(21, {}, 11..17, {2, 8, 9}),
     Esp32C5 |-> Pins(28, {}, 24..28, {7, 8, 27}),
     Esp32C6 |-> Pins(30, {}, 24..30, {8, 9, 15}),
     Esp32C61 |-> Pins(24, {}, 12..17, {5, 8, 9}),
     Esp32H2 |-> Pins(27, {}, 15..21, {8, 9, 25}),
     Esp32P4 |-> Pins(54, {}, {}, {34, 35})]

PickerPins(max, input_only, flash, strapping, adc, touch) ==
    [max_gpio |-> max, input_only |-> input_only, flash_reserved |-> flash,
     strapping |-> strapping, adc |-> adc, touch |-> touch]

\* The table of the wizard pin picker, kept separately and said to mirror the one above.
chip_pins ==
    [Esp32 |-> PickerPins(39, 34..39, 6..11, {0, 2, 5, 12, 15}, 32..39, {0, 2, 4, 12, 13, 14, 15,
         27, 32, 33}),
     Esp32S2 |-> PickerPins(46, {46}, 26..32, {0, 45, 46}, 1..20, 1..14),
     Esp32S3 |-> PickerPins(48, {}, 26..32, {0, 3, 45, 46}, 1..10, 1..14),
     Esp32C2 |-> PickerPins(20, {}, 12..17, {8, 9}, 0..4, {}),
     Esp32C3 |-> PickerPins(21, {}, 11..17, {2, 8, 9}, 0..5, {}),
     Esp32C5 |-> PickerPins(28, {}, 24..28, {7, 8, 27}, 0..6, {}),
     Esp32C6 |-> PickerPins(30, {}, 24..30, {8, 9, 15}, 0..6, {}),
     Esp32C61 |-> PickerPins(24, {}, 12..17, {5, 8, 9}, 0..5, {}),
     Esp32H2 |-> PickerPins(27, {}, 15..21, {8, 9, 25}, 1..5, {}),
     Esp32P4 |-> PickerPins(54, {}, {}, {34, 35}, (16..23) \cup (49..54), 2..15)]

\* The modes the pin picker offers for a GPIO: plain input is offered for every pin.
supported_modes(chip, gpio) ==
    LET caps == chip_pins[chip] IN
    {"input"}
    \cup (IF gpio \in caps.input_only \cup caps.flash_reserved THEN {}
          ELSE {"output", "pwm", "i2c_sda", "i2c_scl", "spi_mosi", "spi_miso", "spi_clk", "spi_cs",
                "uart"})
    \cup (IF gpio \in caps.adc THEN {"analog"} ELSE {})
    \cup (IF gpio \in caps.touch THEN {"touch"} ELSE {})

esp32_target ==
    [capabilities |-> {"DualCoreCpu", "Wifi", "Ble", "Gptimer", "Ledc", "Mcpwm", "Rmt", "Pcnt",
         "Gpio", "Uart", "I2c", "Spi", "I2s", "Adc", "Touch", "TemperatureSensor", "EspNow"},
     inputs |-> {"ButtonGpio", "TouchPad", "UartRx", "AdcVoltage", "I2cSensor", "SpiSensor",
         "UartSensor", "PulseCounter", "CaptureSignal", "TimerTick", "InterruptEvent",
         "WifiEvent", "BleEvent", "WakeupReason", "ServiceCall", "ApiCommand", "MqttMessage",
         "EspNowData"},
     transforms |-> {"UartProtocolParse", "CommandDispatch", "SensorFrameDecode", "Debounce",
         "Filter", "Calibration", "Normalization", "Threshold", "Mapping", "StateMachine",
         "PidLoop", "SafetyInterlock", "PeriodicTask", "DelayedAction", "PwmSchedule",
         "CaptureCompare", "OneToOne", "OneToMany", "ManyToOne", "ClosedLoopFeedback"},
     outputs |-> {"GpioLevel", "LedcPwm", "McpwmPwm", "RmtWaveform", "RelayDrive", "MotorDrive",
         "ServoDrive", "BuzzerDrive", "UartTx", "I2cMasterWrite", "SpiMasterWrite", "WifiPacket",
         "BlePacket", "StatusLed", "NetworkApiState", "EspNowData"}]

esp32s3_target ==
    [capabilities |-> {"DualCoreCpu", "Wifi", "Ble", "UsbOtg", "UsbSerialJtag", "Gptimer",
         "Ledc", "Mcpwm", "Rmt", "Pcnt", "Gpio", "Uart", "I2c", "Spi", "I2s", "Adc", "Touch",
         "TemperatureSensor", "Lcd", "Camera", "AudioI2s", "Psram", "EspNow"},
     inputs |-> {"ButtonGpio", "TouchPad", "UartRx", "UsbCdcCommand", "RotaryEncoder",
         "AdcVoltage", "I2cSensor", "SpiSensor", "UartSensor", "PulseCounter", "CaptureSignal",
         "TimerTick", "InterruptEvent", "WifiEvent", "BleEvent", "WakeupReason", "CameraFrame",
         "AudioInput", "ServiceCall", "ApiCommand", "MqttMessage", "EspNowData"},
     transforms |-> {"UartProtocolParse", "CommandDispatch", "SensorFrameDecode", "Debounce",
         "Filter", "Calibration", "Normalization", "Threshold", "Mapping", "StateMachine",
         "PidLoop", "SafetyInterlock", "PeriodicTask", "DelayedAction", "PwmSchedule",
         "CaptureCompare", "OneToOne", "OneToMany", "ManyToOne", "ClosedLoopFeedback",
         "JpegEncode", "AudioEncode", "ProtobufEncode"},
     outputs |-> {"GpioLevel", "LedcPwm", "McpwmPwm", "RmtWaveform", "RelayDrive", "MotorDrive",
         "ServoDrive", "BuzzerDrive", "UartTx", "UsbTx", "I2cMasterWrite", "SpiMasterWrite",
         "WifiPacket", "BlePacket", "StatusLed", "LcdFrame", "AudioStream", "NetworkApiState",
         "HttpMjpegStream", "RtspStream", "EspNowData"}]

esp32c6_target ==
    [capabilities |-> {"SingleCoreCpu", "Wifi", "Ble", "UsbSerialJtag", "Gptimer", "Ledc", "Rmt",
         "Pcnt", "Gpio", "Uart", "I2c", "Spi", "Adc", "TemperatureSensor", "Thread", "Zigbee",
         "EspNow", "MeshLite"},
     inputs |-> {"ButtonGpio", "UartRx", "AdcVoltage", "I2cSensor", "SpiSensor", "UartSensor",
         "PulseCounter", "TimerTick", "InterruptEvent", "WifiEvent", "BleEvent", "WakeupReason",
         "ServiceCall", "ApiCommand", "MqttMessage", "EspNowData"},
     transforms |-> {"UartProtocolParse", "CommandDispatch", "SensorFrameDecode", "Debounce",
         "Filter", "Calibration", "Normalization", "Threshold", "Mapping", "StateMachine",
         "PidLoop", "SafetyInterlock", "PeriodicTask", "DelayedAction", "PwmSchedule",
         "OneToOne", "OneToMany", "ManyToOne", "ClosedLoopFeedback"},
     outputs |-> {"GpioLevel", "LedcPwm", "RmtWaveform", "RelayDrive", "UartTx",
         "I2cMasterWrite", "SpiMasterWrite", "WifiPacket", "BlePacket", "StatusLed",
         "NetworkApiState", "EspNowData"}]

\* The ESP-IDF targets of the platform catalogue.
PlatformTargets ==
    [Esp32 |-> esp32_target, Esp32S3 |-> esp32s3_target, Esp32C6 |-> esp32c6_target]

esp32s3_wroom1 ==
    [target |-> "Esp32S3",
     caps |-> {"DualCoreCpu", "Wifi", "Ble", "Gpio", "I2c", "Spi", "Uart", "I2s", "Adc", "Ledc",
         "Mcpwm", "Touch", "UsbOtg", "Camera", "Psram", "Rmt", "MotorControl", "Imu",
         "FailsafeStop", "ApSta", "Bridge", "LongRange", "Csi", "EspNow", "MeshLite", "AudioI2s"}]

esp32s3_mini1 ==
    [target |-> "Esp32S3",
     caps |-> {"DualCoreCpu", "Wifi", "Ble", "Gpio", "I2c", "Spi", "Uart", "I2s", "Adc", "Ledc",
         "Mcpwm", "Touch", "UsbOtg", "Camera", "Psram", "Rmt", "MotorControl", "Imu",
         "FailsafeStop", "ApSta", "Bridge", "LongRange", "Csi", "EspNow", "MeshLite", "AudioI2s"}]

esp32c6_wroom1 ==
    [target |-> "Esp32C6",
     caps |-> {"SingleCoreCpu", "Wifi", "Ble", "Thread", "Zigbee", "Gpio", "I2c", "Spi", "Uart",
         "I2s", "Adc", "Ledc", "Rmt", "EspNow", "MeshLite"}]

esp32c6_mini1 ==
    [target |-> "Esp32C6",
     caps |-> {"SingleCoreCpu", "Wifi", "Ble", "Thread", "Zigbee", "Gpio", "I2c", "Spi", "Uart",
         "I2s", "Adc", "Ledc", "Rmt", "EspNow", "MeshLite"}]

esp32_d0wd_v3 ==
    [target |-> "Esp32",
     caps |-> {"DualCoreCpu", "Wifi", "Ble", "Gpio", "I2c", "Spi", "Uart", "I2s", "Adc", "Ledc",
         "Mcpwm", "Touch", "Rmt", "CanBus", "Rs485", "EspNow"}]

\* The module registry; constraints are free text no check reads.
Modules ==
    [esp32s3_wroom1 |-> esp32s3_wroom1, esp32s3_mini1 |-> esp32s3_mini1,
     esp32c6_wroom1 |-> esp32c6_wroom1, esp32c6_mini1 |-> esp32c6_mini1,
     esp32_d0wd_v3 |-> esp32_d0wd_v3]

VehicleRoles ==
    {"RemoteControlTx", "SmartphoneGateway", "ControlBoard", "ControlTelemetryBoard",
     "AllInOneCam", "VideoBoard", "ReceiverDirectDrive"}

\* Every role is supported unless the topology says otherwise.
topology_role_compat(overrides) == overrides @@ [r \in VehicleRoles |-> "Supported"]

\* The roles each vehicle topology supports, warns about or hides.
TopologyMeta ==
    [DiyLowcost |-> topology_role_compat(("ReceiverDirectDrive" :> "Warning")
         @@ ("VideoBoard" :> "Hidden")),
     StandardFpv |-> topology_role_compat(("ControlTelemetryBoard" :> "Warning")
         @@ ("AllInOneCam" :> "Hidden")
         @@ ("ReceiverDirectDrive" :> "Warning")),
     ResearchHybrid |-> topology_role_compat(("AllInOneCam" :> "Hidden")
         @@ ("ReceiverDirectDrive" :> "Hidden"))]

FF(family, tier, actuator) ==
    [family |-> family, min_sensor_tier |-> tier, actuator |-> actuator]

FormFactors1 ==
    [Wheeled2wdDiff |-> FF("GroundWheeledReactive", "Basic6ax", "MixedDiffDrive"),
     Wheeled4wdDiff |-> FF("GroundWheeledReactive", "Basic6ax", "MixedDiffDrive"),
     Wheeled4wdAckermann |-> FF("GroundWheeledReactive", "Basic6ax", "MixedAckermann"),
     Wheeled6wd |-> FF("GroundWheeledReactive", "Basic6ax", "MixedDiffDrive"),
     Mecanum4wheel |-> FF("GroundWheeledReactive", "Standard9ax", "MixedDiffDrive"),
     Omniwheel3wheel |-> FF("GroundWheeledReactive", "Standard9ax", "MixedDiffDrive"),
     Omniwheel4wheel |-> FF("GroundWheeledReactive", "Standard9ax", "MixedDiffDrive"),
     BigfootMonsterTruck |-> FF("GroundWheeledReactive", "Basic6ax", "MixedAckermann"),
     BigfootRockCrawler |-> FF("GroundWheeledReactive", "Basic6ax", "MixedAckermann"),
     AtvOffroad |-> FF("GroundWheeledReactive", "Basic6ax", "MixedAckermann"),
     DriftRallyRacer |-> FF("GroundWheeledReactive", "Basic6ax", "BrushlessEscDshot"),
     TrackedSkidsteer |-> FF("GroundWheeledReactive", "Basic6ax", "MixedDiffDrive"),
     Balance2wheel |-> FF("GroundWheeledBalancing", "Standard9ax", "MixedDiffDrive")]

FormFactors2 ==
    [BalanceUnicycle |-> FF("GroundWheeledBalancing", "Advanced10ax", "MixedDiffDrive"),
     Ballbot |-> FF("GroundWheeledBalancing", "Advanced10ax", "MixedDiffDrive"),
     BipedHumanoid |-> FF("GroundLegged", "Standard9ax", "none"),
     Quadruped |-> FF("GroundLegged", "Standard9ax", "none"),
     Hexapod |-> FF("GroundLegged", "Standard9ax", "none"),
     Octopod |-> FF("GroundLegged", "Standard9ax", "none"),
     BoatSingleRudder |-> FF("AquaticSurface", "Basic6ax", "MixedAckermann"),
     BoatTwinPropDiff |-> FF("AquaticSurface", "Basic6ax", "MixedDiffDrive"),
     Hovercraft |-> FF("AquaticSurface", "Standard9ax", "MixedAckermann"),
     Hydrofoil |-> FF("AquaticSurface", "Standard9ax", "FixedwingSurfaces"),
     Sailboat |-> FF("AquaticSurface", "Standard9ax", "SteeringServo"),
     Rov4thruster |-> FF("AquaticSubmerged", "Standard9ax", "ThrusterVector"),
     Rov6thruster |-> FF("AquaticSubmerged", "Standard9ax", "ThrusterVector")]

FormFactors3 ==
    [AuvTorpedo |-> FF("AquaticSubmerged", "Research", "ThrusterVector"),
     QuadcopterX |-> FF("AerialMultirotor", "Standard9ax", "QuadMix"),
     QuadcopterPlus |-> FF("AerialMultirotor", "Standard9ax", "QuadMix"),
     Tricopter |-> FF("AerialMultirotor", "Standard9ax", "QuadMix"),
     Hexacopter |-> FF("AerialMultirotor", "Standard9ax", "QuadMix"),
     OctocopterX |-> FF("AerialMultirotor", "Standard9ax", "QuadMix"),
     OctocopterCoax |-> FF("AerialMultirotor", "Standard9ax", "QuadMix"),
     HeliSingleRotor |-> FF("AerialHelicopter", "Standard9ax", "HeliSwashplate"),
     HeliCoaxial |-> FF("AerialHelicopter", "Standard9ax", "HeliSwashplate"),
     HeliTandem |-> FF("AerialHelicopter", "Standard9ax", "HeliSwashplate"),
     FixedwingStandard |-> FF("AerialFixedwing", "Standard9ax", "FixedwingSurfaces"),
     FixedwingVtail |-> FF("AerialFixedwing", "Standard9ax", "FixedwingSurfaces"),
     FlyingWing |-> FF("AerialFixedwing", "Standard9ax", "FixedwingSurfaces")]

FormFactors4 ==
    [Glider |-> FF("AerialFixedwing", "Standard9ax", "FixedwingSurfaces"),
     VtolTailsitter |-> FF("AerialVtol", "Advanced10ax", "VtolTransition"),
     VtolTiltrotor |-> FF("AerialVtol", "Advanced10ax", "VtolTransition"),
     VtolQuadplane |-> FF("AerialVtol", "Advanced10ax", "VtolTransition"),
     VtolBicopter |-> FF("AerialVtol", "Advanced10ax", "VtolTransition"),
     LtaBlimp |-> FF("LighterThanAir", "Basic6ax", "ThrusterVector"),
     LtaAirship |-> FF("LighterThanAir", "Basic6ax", "FixedwingSurfaces"),
     SnakeSerpentine |-> FF("Articulated", "Standard9ax", "TendonCable"),
     WormModular |-> FF("Articulated", "Basic6ax", "PneumaticChamber"),
     RollingBall |-> FF("Articulated", "Standard9ax", "TendonCable"),
     AutonomousMower |-> FF("Agricultural", "Standard9ax", "MixedDiffDrive"),
     SprayerSpot |-> FF("Agricultural", "Standard9ax", "MixedAckermann"),
     TractorTowedImplement |-> FF("Agricultural", "Research", "HydraulicJoint")]

FormFactors5 ==
    [ExcavatorArm |-> FF("Construction", "Advanced10ax", "HydraulicJoint"),
     CraneBoom |-> FF("Construction", "Standard9ax", "HydraulicJoint"),
     SkidSteerLoader |-> FF("Construction", "Standard9ax", "HydraulicJoint"),
     WallClimbingSuction |-> FF("Climbing", "Standard9ax", "PneumaticChamber"),
     CableClimbing |-> FF("Climbing", "Basic6ax", "MixedDiffDrive"),
     MagneticClimber |-> FF("Climbing", "Standard9ax", "TendonCable"),
     AmphibiousWheelsPlusProp |-> FF("Amphibious", "Standard9ax", "none"),
     SoftGripper |-> FF("SoftContinuum", "Basic6ax", "PneumaticChamber"),
     TentacleArm |-> FF("SoftContinuum", "Standard9ax", "TendonCable"),
     ModularCubelets |-> FF("EducationalModular", "Basic6ax", "none"),
     JumpingRobot |-> FF("JumpingHopping", "Advanced10ax", "none"),
     Grasshopper |-> FF("JumpingHopping", "Advanced10ax", "none")]

\* The vehicle form factors: family, least sensor tier, actuator family.
FormFactorMeta == FormFactors1 @@ FormFactors2 @@ FormFactors3 @@ FormFactors4 @@ FormFactors5

\* Sensor tiers, least first.
SensorTiers == <<"none", "Basic6ax", "Standard9ax", "Advanced10ax", "Research">>
=============================================================================
