------------------------------ MODULE VehicleSolutions ------------------------------
(* The vehicle and aircraft control solutions of the catalogue.                                  *)
EXTENDS SolutionHelpers

direct_control_solution_plan ==
    Plan({"esp32s3_wroom1"}, {"WifiEvent"}, {"MotorDrive", "StatusLed"},
         <<Step("wifi_softap", {}), Step("udp_listener", {}), Step("crtp_dispatch", {}),
           Step("stabilizer_loop", {})>>)

direct_control_solution_params ==
    <<vehicle_type_param, control_protocol_param, actuator_type_param, imu_axis_tier_param,
      imu_chip_param, control_rate_hz_param, failsafe_timeout_ms_param,
      Field("app_compat_mode", "true")>>

direct_control_solution ==
    [Solution(direct_control_solution_plan, direct_control_solution_params,
              <<Path("WifiEvent", <<"CommandDispatch", "PidLoop", "SafetyInterlock">>,
                     "MotorDrive")>>) EXCEPT
        !.required = {"wifi"}, !.optional = {"ota"}, !.domain = "VehicleAircraftControl",
        !.role = "ControlBoard", !.pins = vehicle_control_pins,
        !.form_factors = {"Wheeled2wdDiff", "Wheeled4wdDiff", "Wheeled6wd", "TrackedSkidsteer"},
        !.uplink = "WifiCrtp", !.video = "None", !.telemetry = "CustomUart",
        !.sensor_tier = "Basic6ax", !.watchdog_ms = 500,
        !.assembly = "esp32s3_va_wheeled_diff_assembly",
        !.coverage = [Esp32C6 |-> "Preferred", Esp32S3 |-> "Preferred", Esp32D0wd |-> "Caveat"]]

direct_control_video_solution_plan ==
    Plan({"esp32s3_wroom1"}, {"WifiEvent", "CameraFrame"},
         {"MotorDrive", "HttpMjpegStream", "StatusLed"},
         <<Step("wifi_softap", {}), Step("control_init", {}), Step("video_init", {})>>)

direct_control_video_solution_params ==
    <<vehicle_type_param, control_protocol_param, actuator_type_param, imu_axis_tier_param,
      imu_chip_param, camera_sensor_param,
      Choice("video_protocol", "http_mjpeg", {"http_mjpeg", "rtsp"}), frame_size_param,
      Field("video_enable_on_boot", "false"), Field("dual_mode_relay", "false"),
      DependsOn(Choice("default_mode", "relay", {"relay", "direct"}), "dual_mode_relay", "true",
                Absent), safe_stop_timeout_ms_param, direct_probe_threshold_param,
      fallback_rssi_threshold_param>>

direct_control_video_solution ==
    [Solution(direct_control_video_solution_plan, direct_control_video_solution_params,
              <<Path("WifiEvent", <<"CommandDispatch", "PidLoop">>, "MotorDrive"),
                Path("CameraFrame", <<"JpegEncode">>, "HttpMjpegStream")>>) EXCEPT
        !.required = {"wifi"}, !.optional = {"ota"}, !.domain = "VehicleAircraftControl",
        !.role = "AllInOneCam", !.pins = all_in_one_cam_pins,
        !.form_factors = {"Wheeled4wdAckermann", "BigfootMonsterTruck", "BigfootRockCrawler",
                          "AtvOffroad", "DriftRallyRacer"}, !.uplink = "WifiCrtp",
        !.video = "MjpegHttp", !.telemetry = "CustomUart", !.sensor_tier = "Basic6ax",
        !.watchdog_ms = 500,
        !.coverage = [Esp32S3 |-> "Preferred", Esp32C6 |-> "Insufficient",
                      Esp32D0wd |-> "Insufficient"]]

direct_control_telemetry_solution_plan ==
    Plan({"esp32s3_wroom1", "esp32s3_mini1"}, {"WifiEvent"},
         {"MotorDrive", "WifiPacket", "StatusLed"},
         <<Step("wifi_softap", {}), Step("udp_listener", {"wifi_softap"}),
           Step("mavlink_listener", {"wifi_softap"}),
           Step("control_loop", {"udp_listener", "mavlink_listener"})>>)

direct_control_telemetry_solution_params ==
    <<vehicle_type_param, control_protocol_param, actuator_type_param, imu_axis_tier_param,
      imu_chip_param, control_rate_hz_param, failsafe_timeout_ms_param,
      Field("mavlink_system_id", "1"), Choice("telemetry_rate_hz", "10", {"1", "5", "10", "50"})>>

direct_control_telemetry_solution ==
    [Solution(direct_control_telemetry_solution_plan, direct_control_telemetry_solution_params,
              <<Path("WifiEvent", <<"CommandDispatch", "PidLoop", "SafetyInterlock">>,
                     "MotorDrive"),
                Path("TimerTick", <<"ProtobufEncode", "PeriodicTask">>, "WifiPacket")>>) EXCEPT
        !.required = {"wifi"}, !.optional = {"ota"}, !.domain = "VehicleAircraftControl",
        !.role = "ControlTelemetryBoard", !.pins = vehicle_car_pins,
        !.form_factors = {"Wheeled2wdDiff", "Wheeled4wdDiff", "Wheeled4wdAckermann",
                          "Wheeled6wd", "TrackedSkidsteer"}, !.uplink = "WifiCrtp",
        !.video = "None", !.telemetry = "MavlinkWifi", !.sensor_tier = "Basic6ax",
        !.watchdog_ms = 500,
        !.coverage = [Esp32S3 |-> "Preferred", Esp32C6 |-> "Preferred", Esp32D0wd |-> "Caveat"]]

dual_mcu_car_solution_plan ==
    Plan({"esp32s3_wroom1"}, {"WifiEvent", "CameraFrame"},
         {"MotorDrive", "HttpMjpegStream", "StatusLed"},
         <<Step("control_board_init", {}), Step("camera_board_init", {}),
           Step("interboard_link", {}), Step("control_loop", {})>>)

dual_mcu_car_solution_params ==
    <<vehicle_type_param, control_protocol_param, actuator_type_param, imu_axis_tier_param,
      imu_chip_param,
      Choice("interboard_baud", "460800", {"115200", "230400", "460800", "921600"})>>

dual_mcu_car_solution ==
    [Solution(dual_mcu_car_solution_plan, dual_mcu_car_solution_params,
              <<Path("WifiEvent", <<"CommandDispatch", "PidLoop", "SafetyInterlock">>,
                     "MotorDrive"), Path("CameraFrame", <<"JpegEncode">>, "HttpMjpegStream")>>) EXCEPT
        !.required = {"wifi"}, !.optional = {"ota"}, !.domain = "VehicleAircraftControl",
        !.role = "ControlBoard", !.pins = dual_mcu_control_board_pins,
        !.form_factors = {"Wheeled2wdDiff", "Wheeled4wdDiff", "Wheeled6wd", "TrackedSkidsteer"},
        !.uplink = "WifiCrtp", !.video = "MjpegUart", !.telemetry = "MavlinkWifi",
        !.sensor_tier = "Basic6ax", !.watchdog_ms = 500,
        !.coverage = [Esp32C6 |-> "Preferred", Esp32S3 |-> "Preferred", Esp32D0wd |-> "Caveat"]]

balance_stabilizer_solution_plan ==
    Plan({"esp32s3_wroom1", "esp32s3_mini1", "esp32c6_wroom1", "esp32c6_mini1"},
         {"I2cSensor", "EspNowData", "ButtonGpio"}, {"MotorDrive", "StatusLed"},
         <<Step("imu_calibrate", {}), Step("esp_now_init", {}), Step("estop_wire", {}),
           Step("balance_loop", {"imu_calibrate", "esp_now_init", "estop_wire"})>>)

balance_stabilizer_solution_params ==
    <<Choice("balance_loop_hz", "500", {"250", "500", "1000"}), imu_axis_tier_param,
      imu_chip_param, Field("tilt_pid_kp", "18.0"), Field("tilt_pid_ki", "0.5"),
      Field("tilt_pid_kd", "1.2"), Choice("fall_angle_deg", "30", {"20", "30", "45"}),
      failsafe_timeout_ms_param>>

balance_stabilizer_solution ==
    [Solution(balance_stabilizer_solution_plan, balance_stabilizer_solution_params,
              <<Path("I2cSensor", <<"Filter", "PidLoop", "PidLoop", "SafetyInterlock">>,
                     "MotorDrive")>>) EXCEPT
        !.optional = {"ota"}, !.domain = "VehicleAircraftControl", !.role = "ControlBoard",
        !.pins = vehicle_car_pins, !.form_factors = {"Balance2wheel"}, !.uplink = "EspNow",
        !.video = "None", !.telemetry = "CustomUart", !.sensor_tier = "Standard9ax",
        !.watchdog_ms = 100,
        !.coverage = [Esp32S3 |-> "Preferred", Esp32C6 |-> "Caveat", Esp32D0wd |-> "Insufficient"]]

remote_control_tx_solution_plan ==
    Plan({"esp32c6_wroom1", "esp32c6_mini1", "esp32s3_wroom1"}, {"ButtonGpio"}, {"WifiPacket"},
         <<Step("init_inputs", {}), Step("start_tx", {"init_inputs"})>>)

remote_control_tx_solution_params ==
    <<Required(Choice("input_source", "joystick_adc", {"joystick_adc", "usb_phone", "ble_phone"})),
      Required(Choice("tx_protocol", "esp_now",
                      {"esp_now", "wifi_udp", "wifi_lr", "wifi_mavlink"})),
      Choice("num_channels", "4", {"2", "4", "8"}), control_rate_hz_param>>

remote_control_tx_solution ==
    [Solution(remote_control_tx_solution_plan, remote_control_tx_solution_params, <<>>) EXCEPT
        !.required = {"wifi"}, !.domain = "VehicleAircraftControl", !.role = "RemoteControlTx",
        !.pins = remote_control_tx_pins, !.uplink = "Wifi80211lr", !.video = "None",
        !.telemetry = "None",
        !.coverage = [Esp32C6 |-> "Preferred", Esp32S3 |-> "Preferred", Esp32D0wd |-> "Caveat"]]

video_board_solution_plan ==
    Plan({"esp32s3_wroom1"}, {"CameraFrame"}, {"HttpMjpegStream"},
         <<Step("init_camera", {}), Step("start_stream", {"init_camera"})>>)

video_board_solution_params ==
    <<camera_sensor_param, frame_size_param, Choice("stream_fps", "15", {"5", "10", "15", "25"}),
      Required(Choice("video_output", "wifi_mjpeg",
                      {"wifi_mjpeg", "wifi_rtsp", "analog_vtx", "digital_vtx"})),
      Choice("rx_protocol", "uart_binary", {"uart_binary", "uart_mavlink"}),
      Choice("interboard_baud", "460800", {"115200", "460800", "921600"})>>

video_board_solution ==
    [Solution(video_board_solution_plan, video_board_solution_params, <<>>) EXCEPT
        !.required = {"wifi"}, !.domain = "VehicleAircraftControl", !.role = "VideoBoard",
        !.pins = video_board_pins, !.uplink = "None", !.video = "MjpegUart", !.telemetry = "None",
        !.coverage = [Esp32S3 |-> "Preferred", Esp32C6 |-> "Insufficient",
                      Esp32D0wd |-> "Insufficient"]]

analog_vtx_passthrough_solution ==
    [Solution(Plan({"esp32s3_wroom1"}, {"CameraFrame"}, {"GpioLevel"},
                   <<Step("init_camera", {}), Step("init_vtx", {"init_camera"})>>),
              <<camera_sensor_param,
                Required(Choice("vtx_channel", "R1",
                                {"R1", "R2", "R3", "R4", "R5", "R6", "R7", "R8"})),
                Choice("vtx_power_mw", "25", {"25", "200", "500", "800"}),
                Field("smartaudio_enabled", "false")>>,
              <<Path("CameraFrame", <<"OneToOne">>, "GpioLevel")>>) EXCEPT
        !.optional = {"ota"}, !.domain = "VehicleAircraftControl", !.role = "VideoBoard",
        !.pins = video_board_pins, !.uplink = "None", !.video = "AnalogVtx", !.telemetry = "None",
        !.coverage = [Esp32S3 |-> "Preferred", Esp32C6 |-> "Insufficient",
                      Esp32D0wd |-> "Insufficient"]]

receiver_direct_drive_solution ==
    [Solution(Plan({"esp32c6_wroom1", "esp32c6_mini1"}, {"WifiEvent"}, {"GpioLevel"},
                   <<Step("init_rx", {}), Step("passthrough", {"init_rx"})>>),
              <<control_protocol_param,
                Required(Choice("output_channels", "4", {"2", "4", "6", "8"})),
                Required(Choice("output_type", "servo_pwm", {"servo_pwm", "esc_pwm", "dshot"})),
                failsafe_timeout_ms_param>>, <<>>) EXCEPT
        !.required = {"wifi"}, !.domain = "VehicleAircraftControl",
        !.role = "ReceiverDirectDrive", !.pins = receiver_direct_drive_pins, !.uplink = "Crsf",
        !.video = "None", !.telemetry = "CrsfTelemetry",
        !.coverage = [Esp32C6 |-> "Preferred", Esp32S3 |-> "Caveat", Esp32D0wd |-> "Caveat"]]

sbus_passthrough_solution ==
    [Solution(Plan({"esp32c6_wroom1", "esp32c6_mini1", "esp32s3_wroom1", "esp32s3_mini1"},
                   {"UartRx"}, {"ServoDrive", "StatusLed"},
                   <<Step("sbus_uart_init", {}), Step("passthrough", {"sbus_uart_init"})>>),
              <<Required(Choice("output_channels", "4", {"2", "4", "6", "8"})),
                Required(Choice("output_type", "servo_pwm", {"servo_pwm", "esc_pwm"})),
                Field("sbus_invert", "true")>>,
              <<Path("UartRx", <<"UartProtocolParse", "OneToMany">>, "ServoDrive")>>) EXCEPT
        !.optional = {"ota"}, !.domain = "VehicleAircraftControl", !.role = "ReceiverDirectDrive",
        !.pins = receiver_direct_drive_pins, !.uplink = "Sbus", !.video = "None",
        !.telemetry = "None",
        !.coverage = [Esp32S3 |-> "Preferred", Esp32C6 |-> "Preferred", Esp32D0wd |-> "Caveat"]]

quad_stabilizer_solution_plan ==
    Plan({"esp32s3_wroom1", "esp32s3_mini1"}, {"UartRx", "I2cSensor"},
         {"MotorDrive", "StatusLed"},
         <<Step("crsf_rx_init", {}), Step("imu_calibrate", {}),
           Step("stabilizer_loop", {"crsf_rx_init", "imu_calibrate"})>>)

quad_stabilizer_solution ==
    [Solution(quad_stabilizer_solution_plan,
              <<vehicle_type_param, imu_axis_tier_param, imu_chip_param, control_rate_hz_param,
                failsafe_timeout_ms_param>>,
              <<Path("UartRx", <<"CommandDispatch", "PidLoop", "SafetyInterlock">>, "MotorDrive")>>) EXCEPT
        !.variants = <<Variant("pwm"),
                       [Variant("dshot") EXCEPT !.active_flag_add = {"dshot"},
                        !.assembly = "esp32s3_va_multirotor_dshot_assembly"],
                       [Variant("bdshot") EXCEPT !.active_flag_add = {"bdshot"},
                        !.assembly = "esp32s3_va_multirotor_bdshot_assembly"]>>,
        !.required = {"wifi"}, !.optional = {"ota"}, !.domain = "VehicleAircraftControl",
        !.role = "ControlBoard", !.pins = vehicle_control_pins,
        !.form_factors = {"QuadcopterX", "QuadcopterPlus", "Tricopter", "Hexacopter",
                          "OctocopterX", "OctocopterCoax"}, !.uplink = "Crsf", !.video = "None",
        !.telemetry = "CrsfTelemetry", !.sensor_tier = "Standard9ax", !.watchdog_ms = 100,
        !.assembly = "esp32s3_va_multirotor_assembly",
        !.coverage = [Esp32S3 |-> "Preferred", Esp32C6 |-> "Insufficient",
                      Esp32D0wd |-> "Insufficient"]]

fixedwing_stabilizer_solution_plan ==
    Plan({"esp32s3_wroom1", "esp32s3_mini1"}, {"UartRx", "I2cSensor"},
         {"ServoDrive", "McpwmPwm", "StatusLed"},
         <<Step("crsf_rx_init", {}), Step("imu_calibrate", {}),
           Step("stabilizer_loop", {"crsf_rx_init", "imu_calibrate"}),
           Step("rx_loss_glide", {"stabilizer_loop"})>>)

fixedwing_stabilizer_solution_params ==
    <<Required(Choice("airframe_variant", "standard",
                      {"standard", "vtail", "flying_wing", "glider"})), imu_axis_tier_param,
      imu_chip_param, control_rate_hz_param, failsafe_timeout_ms_param,
      Choice("low_voltage_cutoff_v", "3.3", {"3.0", "3.3", "3.5"})>>

fixedwing_stabilizer_solution ==
    [Solution(fixedwing_stabilizer_solution_plan, fixedwing_stabilizer_solution_params,
              <<Path("UartRx", <<"CommandDispatch", "PidLoop", "Mapping", "SafetyInterlock">>,
                     "ServoDrive")>>) EXCEPT
        !.optional = {"ota"}, !.domain = "VehicleAircraftControl", !.role = "ControlBoard",
        !.pins = vehicle_control_pins,
        !.form_factors = {"FixedwingStandard", "FixedwingVtail", "FlyingWing", "Glider"},
        !.uplink = "Crsf", !.video = "None", !.telemetry = "CrsfTelemetry",
        !.sensor_tier = "Standard9ax", !.watchdog_ms = 250,
        !.coverage = [Esp32S3 |-> "Preferred", Esp32C6 |-> "Insufficient",
                      Esp32D0wd |-> "Insufficient"]]

elrs_crsf_brushed_solution ==
    [Solution(Plan({"esp32s3_wroom1", "esp32s3_mini1", "esp32c6_wroom1", "esp32c6_mini1"},
                   {"UartRx", "I2cSensor"}, {"MotorDrive", "StatusLed"},
                   <<Step("crsf_rx_init", {}), Step("imu_calibrate", {}),
                     Step("control_loop", {"crsf_rx_init"})>>),
              <<vehicle_type_param, imu_axis_tier_param, imu_chip_param, control_rate_hz_param,
                failsafe_timeout_ms_param>>,
              <<Path("UartRx", <<"CommandDispatch", "SafetyInterlock">>, "MotorDrive")>>) EXCEPT
        !.optional = {"ota"}, !.domain = "VehicleAircraftControl", !.role = "ControlBoard",
        !.pins = vehicle_control_pins,
        !.form_factors = {"Wheeled2wdDiff", "Wheeled4wdDiff", "Wheeled6wd", "TrackedSkidsteer"},
        !.uplink = "Crsf", !.video = "None", !.telemetry = "CrsfTelemetry",
        !.sensor_tier = "Basic6ax", !.watchdog_ms = 250,
        !.assembly = "esp32s3_va_elrs_crsf_assembly",
        !.coverage = [Esp32S3 |-> "Preferred", Esp32C6 |-> "Preferred", Esp32D0wd |-> "Caveat"]]

elrs_crsf_brushless_solution_plan ==
    Plan({"esp32s3_wroom1", "esp32s3_mini1", "esp32c6_wroom1", "esp32c6_mini1"},
         {"UartRx", "I2cSensor"}, {"MotorDrive", "StatusLed"},
         <<Step("crsf_rx_init", {}), Step("imu_calibrate", {}),
           Step("control_loop", {"crsf_rx_init"})>>)

elrs_crsf_brushless_solution_params ==
    <<vehicle_type_param, imu_axis_tier_param, imu_chip_param, control_rate_hz_param,
      failsafe_timeout_ms_param, Required(Choice("crsf_uart_rx_gpio", "5", {"5", "16", "17"})),
      Required(Choice("esc_protocol", "pwm", {"pwm", "dshot300", "dshot600", "bdshot"})),
      DependsOn(Choice("imu_i2c_addr", "0x68", {"0x68", "0x69"}), "imu_axis_tier", "6ax", "none")>>

elrs_crsf_brushless_solution ==
    [Solution(elrs_crsf_brushless_solution_plan, elrs_crsf_brushless_solution_params,
              <<Path("UartRx", <<"CommandDispatch", "SafetyInterlock">>, "MotorDrive")>>) EXCEPT
        !.optional = {"ota"}, !.domain = "VehicleAircraftControl", !.role = "ControlBoard",
        !.pins = vehicle_control_pins,
        !.form_factors = {"Wheeled4wdAckermann", "BigfootMonsterTruck", "BigfootRockCrawler",
                          "AtvOffroad", "DriftRallyRacer"}, !.uplink = "Crsf", !.video = "None",
        !.telemetry = "CrsfTelemetry", !.sensor_tier = "Basic6ax", !.watchdog_ms = 250,
        !.assembly = "esp32s3_va_elrs_crsf_assembly",
        !.coverage = [Esp32S3 |-> "Preferred", Esp32C6 |-> "Preferred", Esp32D0wd |-> "Caveat"]]

elrs_crsf_dshot_solution ==
    [Solution(Plan({"esp32s3_wroom1", "esp32s3_mini1", "esp32c6_wroom1", "esp32c6_mini1"},
                   {"UartRx", "I2cSensor"}, {"MotorDrive", "StatusLed"},
                   <<Step("crsf_rx_init", {}), Step("dshot_init", {}),
                     Step("control_loop", {"crsf_rx_init", "dshot_init"})>>),
              <<vehicle_type_param, imu_axis_tier_param, imu_chip_param, control_rate_hz_param,
                failsafe_timeout_ms_param>>,
              <<Path("UartRx", <<"CommandDispatch", "SafetyInterlock">>, "MotorDrive")>>) EXCEPT
        !.optional = {"ota"}, !.domain = "VehicleAircraftControl", !.role = "ControlBoard",
        !.pins = vehicle_control_pins,
        !.form_factors = {"Wheeled4wdAckermann", "DriftRallyRacer"}, !.uplink = "Crsf",
        !.video = "None", !.telemetry = "DshotTelemetry", !.sensor_tier = "Basic6ax",
        !.watchdog_ms = 250, !.assembly = "esp32s3_va_elrs_crsf_assembly",
        !.coverage = [Esp32S3 |-> "Preferred", Esp32C6 |-> "Preferred", Esp32D0wd |-> "Caveat"]]

elrs_crsf_mavlink_solution_plan ==
    Plan({"esp32s3_wroom1", "esp32s3_mini1", "esp32c6_wroom1", "esp32c6_mini1"},
         {"UartRx", "I2cSensor", "WifiEvent"}, {"MotorDrive", "StatusLed"},
         <<Step("crsf_rx_init", {}), Step("imu_calibrate", {}), Step("mavlink_wifi_start", {}),
           Step("control_loop", {"crsf_rx_init", "mavlink_wifi_start"})>>)

elrs_crsf_mavlink_solution ==
    [Solution(elrs_crsf_mavlink_solution_plan,
              <<vehicle_type_param, imu_axis_tier_param, imu_chip_param, control_rate_hz_param,
                failsafe_timeout_ms_param>>,
              <<Path("UartRx", <<"CommandDispatch", "SafetyInterlock">>, "MotorDrive"),
                Path("I2cSensor", <<"CommandDispatch">>, "NetworkApiState")>>) EXCEPT
        !.required = {"wifi"}, !.optional = {"ota"}, !.domain = "VehicleAircraftControl",
        !.role = "ControlTelemetryBoard", !.pins = vehicle_control_pins,
        !.form_factors = {"Wheeled4wdAckermann", "AtvOffroad", "BigfootMonsterTruck",
                          "AutonomousMower", "SprayerSpot"}, !.uplink = "Crsf", !.video = "None",
        !.telemetry = "MavlinkWifi", !.sensor_tier = "Standard9ax", !.watchdog_ms = 250,
        !.assembly = "esp32s3_va_elrs_crsf_assembly",
        !.coverage = [Esp32S3 |-> "Preferred", Esp32C6 |-> "Preferred", Esp32D0wd |-> "Caveat"]]

esp_now_tx_solution ==
    [Solution(Plan({"esp32s3_wroom1", "esp32s3_mini1", "esp32c6_wroom1", "esp32c6_mini1"},
                   {"AdcVoltage", "ButtonGpio"}, {"EspNowData", "StatusLed"},
                   <<Step("joystick_adc_init", {}),
                     Step("esp_now_broadcast", {"joystick_adc_init"})>>),
              <<control_rate_hz_param>>,
              <<Path("AdcVoltage", <<"CommandDispatch">>, "EspNowData")>>) EXCEPT
        !.optional = {"ota"}, !.domain = "VehicleAircraftControl", !.role = "RemoteControlTx",
        !.pins = remote_control_tx_pins, !.uplink = "EspNow", !.video = "None",
        !.telemetry = "None",
        !.coverage = [Esp32S3 |-> "Preferred", Esp32C6 |-> "Preferred", Esp32D0wd |-> "Caveat"]]

elrs_tx_solution ==
    [Solution(Plan({"esp32s3_wroom1", "esp32s3_mini1", "esp32c6_wroom1", "esp32c6_mini1"},
                   {"AdcVoltage", "ButtonGpio", "UartRx"}, {"UartTx", "StatusLed"},
                   <<Step("joystick_adc_init", {}), Step("crsf_tx_init", {}),
                     Step("crsf_frame_loop", {"joystick_adc_init", "crsf_tx_init"})>>),
              <<control_rate_hz_param>>, <<Path("AdcVoltage", <<"CommandDispatch">>, "UartTx")>>) EXCEPT
        !.optional = {"ota"}, !.domain = "VehicleAircraftControl", !.role = "RemoteControlTx",
        !.pins = remote_control_tx_pins, !.uplink = "Crsf", !.video = "None",
        !.telemetry = "CrsfTelemetry",
        !.coverage = [Esp32S3 |-> "Preferred", Esp32C6 |-> "Preferred", Esp32D0wd |-> "Caveat"]]

phone_bridge_solution ==
    [Solution(Plan({"esp32s3_wroom1", "esp32s3_mini1", "esp32c6_wroom1", "esp32c6_mini1"},
                   {"BleEvent", "UsbCdcCommand", "EspNowData", "WifiEvent"},
                   {"EspNowData", "WifiPacket", "BlePacket", "StatusLed"},
                   <<Step("phone_link_init", {}), Step("vehicle_link_init", {}),
                     Step("bidirectional_relay", {"phone_link_init", "vehicle_link_init"})>>),
              <<phone_side_link_param, vehicle_side_protocol_param, control_rate_hz_param>>,
              <<Path("BleEvent", <<"CommandDispatch">>, "EspNowData"),
                Path("EspNowData", <<"CommandDispatch">>, "BlePacket")>>) EXCEPT
        !.required = {"wifi"}, !.optional = {"ota"}, !.domain = "VehicleAircraftControl",
        !.role = "SmartphoneGateway", !.pins = remote_control_tx_pins, !.uplink = "BleGatt",
        !.video = "None", !.telemetry = "CustomUart",
        !.coverage = [Esp32S3 |-> "Preferred", Esp32C6 |-> "Preferred", Esp32D0wd |-> "Caveat"]]

phone_bridge_crsf_solution_plan ==
    Plan({"esp32s3_wroom1", "esp32s3_mini1", "esp32c6_wroom1", "esp32c6_mini1"},
         {"BleEvent", "UsbCdcCommand", "UartRx"}, {"UartTx", "BlePacket", "StatusLed"},
         <<Step("phone_link_init", {}), Step("crsf_uart_init", {}),
           Step("phone_to_crsf_relay", {"phone_link_init", "crsf_uart_init"}),
           Step("crsf_telemetry_relay", {"crsf_uart_init", "phone_link_init"})>>)

phone_bridge_crsf_solution_params ==
    <<phone_side_link_param, Required(Choice("crsf_uart_tx_gpio", "17", {"17", "43", "6"})),
      Required(Choice("packet_rate_hz", "500", {"50", "250", "500", "1000"})),
      Choice("failsafe_throttle", "988", {"988", "1500"})>>

phone_bridge_crsf_solution ==
    [Solution(phone_bridge_crsf_solution_plan, phone_bridge_crsf_solution_params,
              <<Path("BleEvent", <<"CommandDispatch", "Mapping">>, "UartTx")>>) EXCEPT
        !.optional = {"ota"}, !.domain = "VehicleAircraftControl", !.role = "SmartphoneGateway",
        !.pins = remote_control_tx_pins, !.uplink = "Crsf", !.video = "None",
        !.telemetry = "CrsfTelemetry",
        !.coverage = [Esp32S3 |-> "Preferred", Esp32C6 |-> "Preferred", Esp32D0wd |-> "Caveat"]]

mcu_sbc_bridge_solution ==
    [Solution(Plan({"esp32s3_wroom1", "esp32s3_mini1", "esp32c6_wroom1", "esp32c6_mini1"},
                   {"UartRx", "I2cSensor"}, {"MotorDrive", "StatusLed"},
                   <<Step("crsf_rx_init", {}), Step("sbc_uart_bridge", {}),
                     Step("safety_loop", {"crsf_rx_init", "sbc_uart_bridge"})>>),
              <<vehicle_type_param, imu_axis_tier_param, imu_chip_param, control_rate_hz_param,
                failsafe_timeout_ms_param>>,
              <<Path("UartRx", <<"CommandDispatch", "SafetyInterlock">>, "MotorDrive")>>) EXCEPT
        !.optional = {"ota"}, !.domain = "VehicleAircraftControl", !.role = "ControlBoard",
        !.pins = vehicle_control_pins, !.uplink = "Crsf", !.video = "None",
        !.telemetry = "MavlinkUart", !.sensor_tier = "Basic6ax", !.watchdog_ms = 500,
        !.assembly = "esp32s3_va_sbc_bridge_assembly",
        !.coverage = [Esp32S3 |-> "Preferred", Esp32C6 |-> "Preferred", Esp32D0wd |-> "Caveat"]]

video_board_sbc_companion_solution ==
    [Solution(Plan({"esp32s3_wroom1", "esp32s3_mini1"}, {"CameraFrame", "UartRx"},
                   {"UartTx", "StatusLed"},
                   <<Step("camera_init", {}), Step("sbc_uart_stream", {"camera_init"})>>),
              <<wifi_ssid_param, wifi_password_param, mavlink_udp_port_param,
                telemetry_rate_hz_param>>,
              <<Path("CameraFrame", <<"CommandDispatch">>, "UartTx")>>) EXCEPT
        !.optional = {"ota"}, !.domain = "VehicleAircraftControl", !.role = "VideoBoard",
        !.pins = video_board_pins, !.uplink = "None", !.video = "WebrtcSbc",
        !.telemetry = "MavlinkUart",
        !.coverage = [Esp32S3 |-> "Preferred", Esp32C6 |-> "Insufficient",
                      Esp32D0wd |-> "Insufficient"]]

mavlink_groundstation_solution ==
    [Solution(Plan({"esp32s3_wroom1", "esp32s3_mini1", "esp32c6_wroom1", "esp32c6_mini1"},
                   {"WifiEvent", "UartRx"}, {"WifiPacket", "StatusLed"},
                   <<Step("wifi_connect", {}), Step("mavlink_udp_relay", {"wifi_connect"})>>),
              <<wifi_ssid_param, wifi_password_param, mavlink_udp_port_param,
                telemetry_rate_hz_param>>,
              <<Path("WifiEvent", <<"CommandDispatch">>, "WifiPacket")>>) EXCEPT
        !.required = {"wifi"}, !.optional = {"ota"}, !.domain = "VehicleAircraftControl",
        !.role = "SmartphoneGateway", !.uplink = "WifiMavlink", !.video = "None",
        !.telemetry = "MavlinkWifi",
        !.coverage = [Esp32S3 |-> "Preferred", Esp32C6 |-> "Preferred", Esp32D0wd |-> "Caveat"]]

web_ui_groundstation_solution ==
    [Solution(Plan({"esp32s3_wroom1", "esp32s3_mini1", "esp32c6_wroom1", "esp32c6_mini1"},
                   {"WifiEvent", "UartRx"}, {"WifiPacket", "NetworkApiState", "StatusLed"},
                   <<Step("wifi_connect", {}), Step("signaling_relay", {"wifi_connect"})>>),
              <<wifi_ssid_param, wifi_password_param, mavlink_udp_port_param,
                telemetry_rate_hz_param, webrtc_signaling_url_param>>,
              <<Path("WifiEvent", <<"CommandDispatch">>, "NetworkApiState")>>) EXCEPT
        !.required = {"wifi"}, !.optional = {"ota"}, !.domain = "VehicleAircraftControl",
        !.role = "SmartphoneGateway", !.uplink = "WifiMavlink", !.video = "WebrtcSbc",
        !.telemetry = "MavlinkWifi",
        !.coverage = [Esp32S3 |-> "Preferred", Esp32C6 |-> "Preferred", Esp32D0wd |-> "Caveat"]]

mecanum_control_solution ==
    [Solution(Plan({"esp32s3_wroom1", "esp32s3_mini1"}, {"EspNowData", "I2cSensor"},
                   {"MotorDrive", "StatusLed"},
                   <<Step("esp_now_init", {}), Step("imu_calibrate", {}),
                     Step("control_loop", {"esp_now_init", "imu_calibrate"})>>),
              <<Required(Choice("wheel_layout", "mecanum_4wheel",
                                {"mecanum_4wheel", "omniwheel_3wheel", "omniwheel_4wheel"})),
                imu_axis_tier_param, imu_chip_param, control_rate_hz_param,
                failsafe_timeout_ms_param>>,
              <<Path("EspNowData", <<"CommandDispatch", "Mapping", "SafetyInterlock">>,
                     "MotorDrive")>>) EXCEPT
        !.optional = {"ota"}, !.domain = "VehicleAircraftControl", !.role = "ControlBoard",
        !.pins = vehicle_control_pins,
        !.form_factors = {"Mecanum4wheel", "Omniwheel3wheel", "Omniwheel4wheel"},
        !.uplink = "EspNow", !.video = "None", !.telemetry = "CustomUart",
        !.sensor_tier = "Standard9ax", !.watchdog_ms = 500,
        !.coverage = [Esp32S3 |-> "Preferred", Esp32C6 |-> "Caveat", Esp32D0wd |-> "Insufficient"]]

marine_surface_solution ==
    [Solution(Plan({"esp32s3_wroom1", "esp32s3_mini1", "esp32c6_wroom1"},
                   {"UartRx", "I2cSensor", "WifiEvent"},
                   {"ServoDrive", "MotorDrive", "WifiPacket"},
                   <<Step("crsf_rx_init", {}), Step("mavlink_init", {}),
                     Step("imu_gps_init", {}),
                     Step("control_loop", {"crsf_rx_init", "imu_gps_init"})>>),
              <<Required(Choice("hull_type", "single_rudder",
                                {"single_rudder", "twin_prop_diff", "hovercraft", "hydrofoil",
                                "sailboat"})), imu_axis_tier_param, imu_chip_param,
                failsafe_timeout_ms_param>>,
              <<Path("UartRx", <<"CommandDispatch", "Mapping", "SafetyInterlock">>, "ServoDrive")>>) EXCEPT
        !.required = {"wifi"}, !.optional = {"ota"}, !.domain = "VehicleAircraftControl",
        !.role = "ControlBoard", !.pins = vehicle_car_pins,
        !.form_factors = {"BoatSingleRudder", "BoatTwinPropDiff", "Hovercraft", "Hydrofoil",
                          "Sailboat"}, !.uplink = "Crsf", !.video = "None",
        !.telemetry = "MavlinkWifi", !.sensor_tier = "Basic6ax", !.watchdog_ms = 1000,
        !.assembly = "esp32s3_va_marine_assembly",
        !.coverage = [Esp32S3 |-> "Preferred", Esp32C6 |-> "Preferred", Esp32D0wd |-> "Caveat"]]

lta_slow_actuator_solution_plan ==
    Plan({"esp32s3_wroom1"}, {"UartRx", "CameraFrame"},
         {"MotorDrive", "ServoDrive", "HttpMjpegStream"},
         <<Step("crsf_rx_init", {}), Step("camera_init", {}),
           Step("control_loop", {"crsf_rx_init"})>>)

lta_slow_actuator_solution_params ==
    <<Required(Choice("envelope_type", "blimp", {"blimp", "airship"})),
      Choice("thruster_count", "2", {"1", "2", "3"}), failsafe_timeout_ms_param>>

lta_slow_actuator_solution ==
    [Solution(lta_slow_actuator_solution_plan, lta_slow_actuator_solution_params,
              <<Path("UartRx", <<"CommandDispatch", "Mapping">>, "MotorDrive")>>) EXCEPT
        !.required = {"wifi"}, !.optional = {"ota"}, !.domain = "VehicleAircraftControl",
        !.role = "ControlBoard", !.pins = vehicle_control_pins,
        !.form_factors = {"LtaBlimp", "LtaAirship"}, !.uplink = "Crsf", !.video = "MjpegHttp",
        !.telemetry = "MavlinkWifi", !.sensor_tier = "Basic6ax", !.watchdog_ms = 1000,
        !.coverage = [Esp32S3 |-> "Preferred", Esp32C6 |-> "Insufficient",
                      Esp32D0wd |-> "Insufficient"]]

agri_tool_dispatch_solution ==
    [Solution(Plan({"esp32s3_wroom1", "esp32s3_mini1"}, {"UartRx", "I2cSensor", "ButtonGpio"},
                   {"MotorDrive", "ServoDrive", "RelayDrive"},
                   <<Step("crsf_rx_init", {}), Step("tool_safety_init", {}),
                     Step("control_loop", {"crsf_rx_init", "tool_safety_init"})>>),
              <<Required(Choice("tool_kind", "mower_blade",
                                {"mower_blade", "sprayer_pump", "pto_three_point"})),
                Required(Choice("drive_type", "ackermann", {"diff", "ackermann", "tractor"})),
                imu_axis_tier_param, imu_chip_param, failsafe_timeout_ms_param>>,
              <<Path("UartRx", <<"CommandDispatch", "Mapping", "SafetyInterlock">>, "MotorDrive")>>) EXCEPT
        !.required = {"wifi"}, !.optional = {"ota"}, !.domain = "VehicleAircraftControl",
        !.role = "ControlTelemetryBoard", !.pins = vehicle_car_pins,
        !.form_factors = {"AutonomousMower", "SprayerSpot", "TractorTowedImplement"},
        !.uplink = "Crsf", !.video = "None", !.telemetry = "MavlinkWifi",
        !.sensor_tier = "Research", !.watchdog_ms = 500,
        !.coverage = [Esp32S3 |-> "Preferred", Esp32C6 |-> "Caveat", Esp32D0wd |-> "Insufficient"]]

heli_stabilizer_solution ==
    [Solution(Plan({"esp32s3_wroom1", "esp32s3_mini1"}, {"UartRx", "I2cSensor"},
                   {"ServoDrive", "MotorDrive", "StatusLed"},
                   <<Step("crsf_rx_init", {}), Step("imu_calibrate", {}),
                     Step("stabilizer_loop", {"crsf_rx_init", "imu_calibrate"})>>),
              <<Required(Choice("rotor_config", "single_rotor",
                                {"single_rotor", "coaxial", "tandem"})),
                Required(DependsOn(Choice("swashplate_type", "ccpm_3servo_120",
                                {"ccpm_3servo_120", "ccpm_3servo_140", "h1_mechanical"}),
                                "rotor_config", "single_rotor", Absent)), imu_axis_tier_param,
                imu_chip_param, control_rate_hz_param, failsafe_timeout_ms_param>>,
              <<Path("UartRx", <<"CommandDispatch", "PidLoop", "Mapping", "SafetyInterlock">>,
                     "ServoDrive")>>) EXCEPT
        !.optional = {"ota"}, !.domain = "VehicleAircraftControl", !.role = "ControlBoard",
        !.pins = vehicle_control_pins,
        !.form_factors = {"HeliSingleRotor", "HeliCoaxial", "HeliTandem"}, !.uplink = "Crsf",
        !.video = "None", !.telemetry = "CrsfTelemetry", !.sensor_tier = "Standard9ax",
        !.watchdog_ms = 100, !.assembly = "esp32s3_va_multirotor_assembly",
        !.coverage = [Esp32S3 |-> "Preferred", Esp32C6 |-> "Insufficient",
                      Esp32D0wd |-> "Insufficient"]]

modular_dynamic_solution ==
    [Solution(Plan({"esp32c6_wroom1", "esp32c6_mini1", "esp32s3_wroom1"},
                   {"I2cSensor", "EspNowData", "ServiceCall"}, {"I2cMasterWrite", "MotorDrive"},
                   <<Step("i2c_scan", {}), Step("esp_now_init", {}),
                     Step("dispatch_loop", {"i2c_scan", "esp_now_init"})>>),
              <<Choice("rescan_interval_ms", "1000", {"500", "1000", "5000"}),
                Choice("i2c_baud_hz", "100000", {"100000", "400000"}), failsafe_timeout_ms_param>>,
              <<Path("EspNowData", <<"CommandDispatch", "OneToMany">>, "I2cMasterWrite")>>) EXCEPT
        !.optional = {"ota"}, !.domain = "VehicleAircraftControl", !.role = "ControlBoard",
        !.pins = vehicle_control_pins, !.form_factors = {"ModularCubelets"}, !.uplink = "EspNow",
        !.video = "None", !.telemetry = "CustomUart", !.sensor_tier = "Basic6ax",
        !.watchdog_ms = 500,
        !.coverage = [Esp32S3 |-> "Preferred", Esp32C6 |-> "Preferred", Esp32D0wd |-> "Caveat"]]

hopping_ballistic_solution ==
    [Solution(Plan({"esp32s3_wroom1", "esp32s3_mini1"}, {"I2cSensor", "EspNowData"},
                   {"ServoDrive", "MotorDrive", "StatusLed"},
                   <<Step("imu_baro_calibrate", {}), Step("spring_arm", {}),
                     Step("release_loop", {"imu_baro_calibrate", "spring_arm"})>>),
              <<Required(Choice("launch_mechanism", "torsion_spring",
                                {"compressed_spring", "torsion_spring"})),
                Choice("imu_loop_hz", "1000", {"500", "1000"}), failsafe_timeout_ms_param>>,
              <<Path("I2cSensor", <<"Filter", "StateMachine", "PidLoop">>, "ServoDrive")>>) EXCEPT
        !.optional = {"ota"}, !.domain = "VehicleAircraftControl", !.role = "ControlBoard",
        !.pins = vehicle_control_pins, !.form_factors = {"JumpingRobot", "Grasshopper"},
        !.uplink = "EspNow", !.video = "None", !.telemetry = "CustomUart",
        !.sensor_tier = "Advanced10ax", !.watchdog_ms = 250,
        !.assembly = "esp32s3_va_multirotor_assembly",
        !.coverage = [Esp32S3 |-> "Preferred", Esp32C6 |-> "Caveat", Esp32D0wd |-> "Insufficient"]]

amphibious_transition_solution ==
    [Solution(Plan({"esp32s3_wroom1", "esp32s3_mini1"}, {"UartRx", "I2cSensor", "AdcVoltage"},
                   {"MotorDrive", "ServoDrive", "StatusLed"},
                   <<Step("crsf_rx_init", {}), Step("water_sensor_init", {}),
                     Step("control_loop", {"crsf_rx_init", "water_sensor_init"})>>),
              <<Required(Choice("land_drive_type", "ackermann", {"diff", "ackermann"})),
                Field("water_sensor_threshold", "2048"), imu_axis_tier_param, imu_chip_param,
                failsafe_timeout_ms_param>>,
              <<Path("UartRx",
                     <<"CommandDispatch", "StateMachine", "Mapping", "SafetyInterlock">>,
                     "MotorDrive")>>) EXCEPT
        !.optional = {"ota"}, !.domain = "VehicleAircraftControl", !.role = "ControlBoard",
        !.pins = vehicle_car_pins, !.form_factors = {"AmphibiousWheelsPlusProp"},
        !.uplink = "Crsf", !.video = "None", !.telemetry = "MavlinkWifi",
        !.sensor_tier = "Standard9ax", !.watchdog_ms = 500,
        !.assembly = "esp32s3_va_marine_assembly",
        !.coverage = [Esp32S3 |-> "Preferred", Esp32C6 |-> "Caveat", Esp32D0wd |-> "Insufficient"]]

vtol_transition_solution ==
    [Solution(Plan({"esp32s3_wroom1", "esp32s3_mini1"}, {"UartRx", "I2cSensor", "WifiEvent"},
                   {"ServoDrive", "MotorDrive", "WifiPacket"},
                   <<Step("crsf_rx_init", {}), Step("imu_baro_calibrate", {}),
                     Step("transition_sm", {"crsf_rx_init", "imu_baro_calibrate"})>>),
              <<Required(Choice("vtol_type", "tailsitter",
                                {"tailsitter", "tiltrotor", "quadplane", "bicopter"})),
                imu_axis_tier_param, imu_chip_param, control_rate_hz_param,
                failsafe_timeout_ms_param>>,
              <<Path("UartRx",
                     <<"CommandDispatch", "StateMachine", "PidLoop", "Mapping",
                       "SafetyInterlock">>, "ServoDrive")>>) EXCEPT
        !.required = {"wifi"}, !.optional = {"ota"}, !.domain = "VehicleAircraftControl",
        !.role = "ControlBoard", !.pins = vehicle_control_pins,
        !.form_factors = {"VtolTailsitter", "VtolTiltrotor", "VtolQuadplane", "VtolBicopter"},
        !.uplink = "Crsf", !.video = "None", !.telemetry = "MavlinkWifi",
        !.sensor_tier = "Advanced10ax", !.watchdog_ms = 100,
        !.assembly = "esp32s3_va_multirotor_assembly",
        !.coverage = [Esp32S3 |-> "Preferred", Esp32C6 |-> "Insufficient",
                      Esp32D0wd |-> "Insufficient"]]

rov_thruster_allocation_solution ==
    [Solution(Plan({"esp32s3_wroom1", "esp32s3_mini1"}, {"WifiEvent", "I2cSensor", "UartRx"},
                   {"MotorDrive", "UartTx", "WifiPacket"},
                   <<Step("wifi_mavlink_init", {}), Step("imu_depth_init", {}),
                     Step("sbc_uart_init", {}),
                     Step("thruster_loop", {"wifi_mavlink_init", "imu_depth_init"})>>),
              <<Required(Choice("thruster_layout", "rov_4thruster",
                                {"rov_4thruster", "rov_6thruster", "auv_torpedo"})),
                imu_axis_tier_param, imu_chip_param, failsafe_timeout_ms_param>>,
              <<Path("WifiEvent", <<"CommandDispatch", "Mapping", "SafetyInterlock">>,
                     "MotorDrive")>>) EXCEPT
        !.required = {"wifi"}, !.optional = {"ota"}, !.domain = "VehicleAircraftControl",
        !.role = "ControlBoard", !.pins = dual_mcu_control_board_pins,
        !.form_factors = {"Rov4thruster", "Rov6thruster", "AuvTorpedo"}, !.uplink = "WifiMavlink",
        !.video = "WebrtcSbc", !.telemetry = "MavlinkUart", !.sensor_tier = "Standard9ax",
        !.watchdog_ms = 500, !.assembly = "esp32s3_va_sbc_bridge_assembly",
        !.coverage = [Esp32S3 |-> "Preferred", Esp32C6 |-> "Insufficient",
                      Esp32D0wd |-> "Insufficient"]]

legged_controller_solution ==
    [Solution(Plan({"esp32s3_wroom1", "esp32s3_mini1"}, {"UartRx", "I2cSensor", "ButtonGpio"},
                   {"ServoDrive", "UartTx"},
                   <<Step("sbc_uart_init", {}), Step("servo_bus_init", {}),
                     Step("imu_calibrate", {}),
                     Step("servo_loop", {"sbc_uart_init", "servo_bus_init", "imu_calibrate"})>>),
              <<Required(Choice("leg_count", "quadruped",
                                {"biped", "quadruped", "hexapod", "octopod"})),
                Required(Choice("servo_bus", "dynamixel",
                                {"dynamixel", "lx_lewansoul", "pwm_bank"})), imu_axis_tier_param,
                imu_chip_param, failsafe_timeout_ms_param>>,
              <<Path("UartRx", <<"UartProtocolParse", "OneToMany", "SafetyInterlock">>,
                     "ServoDrive")>>) EXCEPT
        !.optional = {"ota"}, !.domain = "VehicleAircraftControl", !.role = "ControlBoard",
        !.pins = dual_mcu_control_board_pins,
        !.form_factors = {"BipedHumanoid", "Quadruped", "Hexapod", "Octopod"},
        !.uplink = "WifiMavlink", !.video = "WebrtcSbc", !.telemetry = "MavlinkUart",
        !.sensor_tier = "Standard9ax", !.watchdog_ms = 250,
        !.assembly = "esp32s3_va_sbc_bridge_assembly",
        !.coverage = [Esp32S3 |-> "Preferred", Esp32C6 |-> "Caveat", Esp32D0wd |-> "Insufficient"]]

articulated_sequencer_solution ==
    [Solution(Plan({"esp32s3_wroom1", "esp32s3_mini1"}, {"WifiEvent", "I2cSensor", "ButtonGpio"},
                   {"ServoDrive", "RelayDrive", "WifiPacket"},
                   <<Step("wifi_mavlink_init", {}), Step("joint_bus_init", {}),
                     Step("sequencer_loop", {"wifi_mavlink_init", "joint_bus_init"})>>),
              <<Required(Choice("articulation_kind", "snake",
                                {"snake", "worm", "rolling_ball", "excavator", "crane", "loader",
                                "soft_gripper", "tentacle"})),
                Required(Choice("joint_count", "8", {"3", "4", "8", "16"})),
                failsafe_timeout_ms_param>>,
              <<Path("WifiEvent", <<"CommandDispatch", "OneToMany", "SafetyInterlock">>,
                     "ServoDrive")>>) EXCEPT
        !.required = {"wifi"}, !.optional = {"ota"}, !.domain = "VehicleAircraftControl",
        !.role = "ControlTelemetryBoard", !.pins = vehicle_control_pins,
        !.form_factors = {"SnakeSerpentine", "WormModular", "RollingBall", "ExcavatorArm",
                          "CraneBoom", "SkidSteerLoader", "SoftGripper", "TentacleArm"},
        !.uplink = "WifiMavlink", !.video = "None", !.telemetry = "CustomUart",
        !.sensor_tier = "Standard9ax", !.watchdog_ms = 500,
        !.assembly = "esp32s3_va_sbc_bridge_assembly",
        !.coverage = [Esp32S3 |-> "Preferred", Esp32C6 |-> "Caveat", Esp32D0wd |-> "Insufficient"]]

climbing_controller_solution ==
    [Solution(Plan({"esp32s3_wroom1", "esp32s3_mini1"},
                   {"WifiEvent", "I2cSensor", "AdcVoltage", "ButtonGpio"},
                   {"MotorDrive", "RelayDrive", "WifiPacket"},
                   <<Step("wifi_mavlink_init", {}), Step("adhesion_init", {}),
                     Step("drive_loop", {"adhesion_init"})>>),
              <<Required(Choice("adhesion_kind", "suction", {"suction", "cable", "magnetic"})),
                Choice("adhesion_threshold_pct", "70", {"50", "70", "85"}), imu_axis_tier_param,
                imu_chip_param, failsafe_timeout_ms_param>>,
              <<Path("AdcVoltage",
                     <<"Filter", "Threshold", "SafetyInterlock", "CommandDispatch">>,
                     "MotorDrive")>>) EXCEPT
        !.required = {"wifi"}, !.optional = {"ota"}, !.domain = "VehicleAircraftControl",
        !.role = "ControlBoard", !.pins = vehicle_car_pins,
        !.form_factors = {"WallClimbingSuction", "CableClimbing", "MagneticClimber"},
        !.uplink = "WifiMavlink", !.video = "None", !.telemetry = "MavlinkWifi",
        !.sensor_tier = "Standard9ax", !.watchdog_ms = 250,
        !.coverage = [Esp32S3 |-> "Preferred", Esp32C6 |-> "Caveat", Esp32D0wd |-> "Insufficient"]]

VehicleRegistry ==
    [direct_control_solution |-> direct_control_solution,
     direct_control_video_solution |-> direct_control_video_solution,
     direct_control_telemetry_solution |-> direct_control_telemetry_solution,
     dual_mcu_car_solution |-> dual_mcu_car_solution,
     balance_stabilizer_solution |-> balance_stabilizer_solution,
     remote_control_tx_solution |-> remote_control_tx_solution,
     video_board_solution |-> video_board_solution,
     analog_vtx_passthrough_solution |-> analog_vtx_passthrough_solution,
     receiver_direct_drive_solution |-> receiver_direct_drive_solution,
     sbus_passthrough_solution |-> sbus_passthrough_solution,
     quad_stabilizer_solution |-> quad_stabilizer_solution,
     fixedwing_stabilizer_solution |-> fixedwing_stabilizer_solution,
     elrs_crsf_brushed_solution |-> elrs_crsf_brushed_solution,
     elrs_crsf_brushless_solution |-> elrs_crsf_brushless_solution,
     elrs_crsf_dshot_solution |-> elrs_crsf_dshot_solution,
     elrs_crsf_mavlink_solution |-> elrs_crsf_mavlink_solution,
     esp_now_tx_solution |-> esp_now_tx_solution, elrs_tx_solution |-> elrs_tx_solution,
     phone_bridge_solution |-> phone_bridge_solution,
     phone_bridge_crsf_solution |-> phone_bridge_crsf_solution,
     mcu_sbc_bridge_solution |-> mcu_sbc_bridge_solution,
     video_board_sbc_companion_solution |-> video_board_sbc_companion_solution,
     mavlink_groundstation_solution |-> mavlink_groundstation_solution,
     web_ui_groundstation_solution |-> web_ui_groundstation_solution,
     mecanum_control_solution |-> mecanum_control_solution,
     marine_surface_solution |-> marine_surface_solution,
     lta_slow_actuator_solution |-> lta_slow_actuator_solution,
     agri_tool_dispatch_solution |-> agri_tool_dispatch_solution,
     heli_stabilizer_solution |-> heli_stabilizer_solution,
     modular_dynamic_solution |-> modular_dynamic_solution,
     hopping_ballistic_solution |-> hopping_ballistic_solution,
     amphibious_transition_solution |-> amphibious_transition_solution,
     vtol_transition_solution |-> vtol_transition_solution,
     rov_thruster_allocation_solution |-> rov_thruster_allocation_solution,
     legged_controller_solution |-> legged_controller_solution,
     articulated_sequencer_solution |-> articulated_sequencer_solution,
     climbing_controller_solution |-> climbing_controller_solution]
=============================================================================
