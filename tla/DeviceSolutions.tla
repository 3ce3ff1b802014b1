------------------------------ MODULE DeviceSolutions ------------------------------
(* The other solutions of the catalogue: appliances, IoT devices and tooling.                    *)
EXTENDS SolutionHelpers

composite_device_firmware ==
    [Solution(Plan({"esp32s3_wroom1"}, {"UsbCdcCommand"}, {"UsbTx", "StatusLed"},
                   <<Step("usb_init", {}), Step("mount_storage", {}), Step("cdc_bridge", {})>>),
              <<Field("volume_label", "BOOTSTICK")>>,
              <<Path("UsbCdcCommand", <<"UartProtocolParse">>, "StatusLed")>>) EXCEPT
        !.variants = <<[Variant("profile_a") EXCEPT !.add_components = {"wifi"}],
                       [Variant("profile_b") EXCEPT !.remove_components = {"wifi"}]>>,
        !.required = {"uart"}, !.optional = {"wifi", "ota"}]

camera_stream ==
    [Solution(Plan({"esp32s3_wroom1"}, {"CameraFrame"}, {"HttpMjpegStream", "NetworkApiState"},
                   <<Step("capture", {}), Step("encode", {}), Step("stream", {})>>),
              <<frame_size_param, Choice("stream_fps", "15", {"5", "10", "15", "25"})>>,
              <<Path("CameraFrame", <<"JpegEncode">>, "HttpMjpegStream")>>) EXCEPT
        !.required = {"wifi"}, !.optional = {"ota"}]

sensor_hub_plan ==
    Plan({"esp32s3_wroom1", "esp32c6_wroom1"}, {"I2cSensor", "AdcVoltage", "ButtonGpio"},
         {"GpioLevel", "RelayDrive", "NetworkApiState"},
         <<Step("poll_sensors", {}), Step("publish_state", {})>>)

sensor_hub_params ==
    <<Required(Choice("primary_sensor", "bme280_i2c",
                      {"bme280_i2c", "bme680_bsec", "sht3x", "htu21d", "bh1750", "dht",
                       "ds18x20", "adc"})), iot_poll_interval_param,
      Choice("secondary_sensor", "none", {"none", "bh1750", "bme280_i2c", "sht3x", "adc"})>>

sensor_hub ==
    [Solution(sensor_hub_plan, sensor_hub_params,
              <<Path("I2cSensor", <<"SensorFrameDecode", "Filter">>, "NetworkApiState")>>) EXCEPT
        !.required = {"wifi", "sensor", "binary_sensor"},
        !.optional = {"switch", "i2c", "uart", "ota", "api"}, !.domain = "IotDeviceTooling",
        !.pins = iot_sensor_pins]

phone_browser_video_solution_plan ==
    Plan({"esp32s3_wroom1"}, {"CameraFrame"}, {"HttpMjpegStream"},
         <<Step("wifi_softap", {}), Step("camera_init", {}), Step("http_stream", {})>>)

phone_browser_video_solution_params ==
    <<camera_sensor_param, frame_size_param,
      Choice("jpeg_quality", "12", {"8", "12", "20", "40"}),
      Choice("stream_fps", "15", {"5", "10", "15", "25"}),
      Required(Choice("wifi_mode", "softap", {"softap", "sta", "ap_sta"}))>>

phone_browser_video_solution ==
    [Solution(phone_browser_video_solution_plan, phone_browser_video_solution_params,
              <<Path("CameraFrame", <<"JpegEncode">>, "HttpMjpegStream")>>) EXCEPT
        !.required = {"wifi"}, !.optional = {"ota"}]

phone_rtsp_av_solution_plan ==
    Plan({"esp32s3_wroom1"}, {"CameraFrame", "AudioInput"}, {"RtspStream"},
         <<Step("wifi_init", {}), Step("camera_init", {}), Step("audio_init", {}),
           Step("rtsp_server", {})>>)

phone_rtsp_av_solution_params ==
    <<camera_sensor_param, Field("audio_enable", "true"),
      Choice("video_fps", "15", {"10", "15", "25", "30"}),
      Choice("rtsp_port", "554", {"554", "8554", "8080"}),
      Choice("client_type", "vlc", {"vlc", "ffplay", "browser"})>>

phone_rtsp_av_solution ==
    [Solution(phone_rtsp_av_solution_plan, phone_rtsp_av_solution_params,
              <<Path("CameraFrame", <<"JpegEncode", "AudioEncode">>, "RtspStream")>>) EXCEPT
        !.required = {"wifi"}, !.optional = {"ota"}]

esp_now_sensor_solution ==
    [Solution(Plan({"esp32c6_wroom1", "esp32s3_wroom1"}, {"EspNowData", "ServiceCall"},
                   {"EspNowData"}, <<>>),
              <<Required(Field("peer_mac", Absent)),
                Choice("sleep_interval_s", "60", {"10", "30", "60", "300"})>>,
              <<Path("EspNowData", <<>>, "EspNowData")>>) EXCEPT
        !.domain = "IotDeviceTooling"]

mqtt_gateway_bridge_plan ==
    Plan({"esp32s3_wroom1", "esp32c6_wroom1"},
         {"I2cSensor", "AdcVoltage", "EspNowData", "MqttMessage"}, {},
         <<Step("wifi_connect", {}), Step("mqtt_connect", {"wifi_connect"}),
           Step("poll_or_receive", {}),
           Step("mqtt_publish", {"mqtt_connect", "poll_or_receive"})>>)

mqtt_gateway_bridge_params ==
    <<Choice("broker_port", "1883", {"1883", "8883"}),
      Choice("mqtt_transport", "tcp", {"tcp", "tls"}),
      Required(Choice("data_source", "local_sensors", {"local_sensors", "espnow_relay", "both"})),
      DependsOn(Choice("poll_interval_ms", "5000", {"1000", "5000", "10000", "30000", "60000"}),
                "data_source", Absent, "espnow_relay")>>

mqtt_gateway_bridge ==
    [Solution(mqtt_gateway_bridge_plan, mqtt_gateway_bridge_params,
              <<Path("I2cSensor", <<"SensorFrameDecode", "Filter">>, "WifiPacket")>>) EXCEPT
        !.required = {"wifi"}, !.optional = {"sensor", "i2c", "spi", "ota"},
        !.domain = "IotDeviceTooling"]

ble_scanner_proxy_plan ==
    Plan({"esp32s3_wroom1", "esp32c6_wroom1"}, {"BleEvent", "ServiceCall"}, {"NetworkApiState"},
         <<Step("ble_init", {}), Step("scan_advertisements", {"ble_init"}),
           Step("parse_payload", {"scan_advertisements"}),
           Step("publish_state", {"parse_payload"})>>)

ble_scanner_proxy_params ==
    <<Choice("scan_mode", "passive", {"passive", "active"}),
      Choice("scan_interval_ms", "320", {"320", "640", "1280", "5000"}),
      Choice("device_filter", "all",
             {"all", "xiaomi_miflora", "switchbot", "ruuvi", "ibeacon", "custom_mac"}),
      DependsOn(Field("target_mac", Absent), "device_filter", "custom_mac", Absent),
      uplink_protocol_param>>

ble_scanner_proxy ==
    [Solution(ble_scanner_proxy_plan, ble_scanner_proxy_params,
              <<Path("BleEvent", <<"SensorFrameDecode", "Filter">>, "NetworkApiState")>>) EXCEPT
        !.required = {"wifi"}, !.optional = {"sensor", "binary_sensor", "api", "ota"},
        !.domain = "IotDeviceTooling"]

env_data_logger_plan ==
    Plan({"esp32s3_wroom1", "esp32c6_wroom1"},
         {"I2cSensor", "SpiSensor", "AdcVoltage", "TimerTick"},
         {"SpiMasterWrite", "UsbTx", "NetworkApiState"},
         <<Step("init_storage", {}), Step("init_sensors", {}),
           Step("start_logging", {"init_storage", "init_sensors"}),
           Step("batch_upload", {"start_logging"})>>)

env_data_logger_params ==
    <<Choice("log_interval_ms", "5000", {"1000", "5000", "10000", "30000", "60000"}),
      storage_backend_param, upload_mode_param,
      Choice("max_records", "10000", {"1000", "10000", "100000"})>>

env_data_logger ==
    [Solution(env_data_logger_plan, env_data_logger_params,
              <<Path("I2cSensor", <<"SensorFrameDecode", "Filter">>, "SpiMasterWrite")>>) EXCEPT
        !.required = {"spi", "sensor"}, !.optional = {"wifi", "i2c", "ota"},
        !.domain = "IotDeviceTooling", !.pins = iot_sensor_pins]

thread_zigbee_sensor_plan ==
    Plan({"esp32c6_wroom1", "esp32c6_mini1"}, {"I2cSensor", "AdcVoltage", "ButtonGpio"},
         {"NetworkApiState"},
         <<Step("thread_join", {}), Step("sensor_init", {}),
           Step("start_reporting", {"thread_join", "sensor_init"})>>)

thread_zigbee_sensor_params ==
    <<Required(Choice("protocol", "thread", {"thread", "zigbee"})),
      Required(Choice("sensor_type", "temperature",
                      {"temperature", "motion", "door_window", "light"})),
      Choice("report_interval_s", "60", {"10", "30", "60", "300"})>>

thread_zigbee_sensor ==
    [Solution(thread_zigbee_sensor_plan, thread_zigbee_sensor_params,
              <<Path("I2cSensor", <<"SensorFrameDecode", "Calibration">>, "NetworkApiState")>>) EXCEPT
        !.optional = {"sensor", "binary_sensor", "i2c"}, !.domain = "IotDeviceTooling"]

zigbee_thread_gateway_plan ==
    Plan({"esp32c6_wroom1"}, {"WifiEvent", "BleEvent"}, {"NetworkApiState", "WifiPacket"},
         <<Step("wifi_init", {}), Step("thread_init", {}),
           Step("start_border_router", {"wifi_init", "thread_init"}),
           Step("serve_api", {"start_border_router"})>>)

zigbee_thread_gateway_params ==
    <<Required(Choice("gateway_mode", "thread_border_router",
                      {"thread_border_router", "zigbee_coordinator"})),
      Field("network_name", "rshome-mesh"), Choice("channel", "15", {"15", "20", "25"}),
      uplink_protocol_param>>

zigbee_thread_gateway ==
    [Solution(zigbee_thread_gateway_plan, zigbee_thread_gateway_params,
              <<Path("WifiEvent", <<"CommandDispatch", "OneToMany">>, "NetworkApiState")>>) EXCEPT
        !.required = {"wifi"}, !.optional = {"api", "ota"}, !.domain = "IotDeviceTooling"]

uart_debug_probe_plan ==
    Plan({"esp32s3_wroom1"}, {"UartRx", "UsbCdcCommand", "TimerTick"},
         {"UsbTx", "WifiPacket", "StatusLed"},
         <<Step("usb_init", {}), Step("uart_init", {}),
           Step("start_capture", {"usb_init", "uart_init"}),
           Step("wifi_stream", {"start_capture"})>>)

uart_debug_probe_params ==
    <<Required(Choice("baud_rate", "115200", {"9600", "115200", "921600", "2000000"})),
      Required(Choice("capture_mode", "passthrough",
                      {"passthrough", "log_to_flash", "wifi_stream"})),
      Choice("timestamp_format", "millis", {"none", "millis", "iso8601"})>>

uart_debug_probe ==
    [Solution(uart_debug_probe_plan, uart_debug_probe_params,
              <<Path("UartRx", <<"UartProtocolParse", "Filter">>, "UsbTx")>>) EXCEPT
        !.required = {"uart"}, !.optional = {"wifi", "ota"}, !.domain = "IotDeviceTooling",
        !.pins = iot_debug_probe_pins]

i2c_bus_analyzer_plan ==
    Plan({"esp32s3_wroom1", "esp32c6_wroom1"}, {"I2cSensor", "UsbCdcCommand", "ServiceCall"},
         {"I2cMasterWrite", "NetworkApiState", "UsbTx"},
         <<Step("i2c_init", {}), Step("bus_scan", {"i2c_init"}),
           Step("start_monitor", {"bus_scan"}), Step("serve_web_ui", {"start_monitor"})>>)

i2c_bus_analyzer_params ==
    <<Choice("i2c_speed", "400000", {"100000", "400000", "1000000"}),
      Choice("scan_on_boot", "true", {"true", "false"})>>

i2c_bus_analyzer ==
    [Solution(i2c_bus_analyzer_plan, i2c_bus_analyzer_params,
              <<Path("I2cSensor", <<"SensorFrameDecode", "Filter">>, "NetworkApiState")>>) EXCEPT
        !.required = {"wifi", "i2c"}, !.optional = {"ota"}, !.domain = "IotDeviceTooling",
        !.pins = iot_i2c_analyzer_pins]

sigrok_logic_analyzer_plan ==
    Plan({"esp32s3_wroom1"}, {"CaptureSignal", "UsbCdcCommand"}, {"UsbTx", "StatusLed"},
         <<Step("usb_init", {}), Step("capture_configure", {}),
           Step("sump_listen", {"usb_init", "capture_configure"}),
           Step("trigger_capture", {"sump_listen"})>>)

sigrok_logic_analyzer_params ==
    <<Required(Choice("channel_count", "8", {"4", "8", "16"})),
      Required(Choice("sample_rate", "10000000", {"1000000", "4000000", "10000000", "20000000"})),
      Choice("capture_depth", "100000", {"50000", "100000", "500000", "1000000"}),
      Choice("trigger_mode", "immediate", {"immediate", "edge_rising", "edge_falling", "pattern"}),
      Choice("transport", "usb_serial_jtag", {"usb_serial_jtag", "usb_otg_cdc"})>>

sigrok_logic_analyzer ==
    [Solution(sigrok_logic_analyzer_plan, sigrok_logic_analyzer_params,
              <<Path("CaptureSignal", <<"CaptureCompare", "Filter">>, "UsbTx")>>) EXCEPT
        !.required = {"sigrok"}, !.optional = {"wifi", "ota"}, !.domain = "IotDeviceTooling",
        !.pins = iot_sigrok_la_pins]

dashboard_display_plan ==
    Plan({"esp32s3_wroom1"}, {"I2cSensor", "MqttMessage", "RotaryEncoder", "ButtonGpio"},
         {"LcdFrame", "StatusLed", "NetworkApiState"},
         <<Step("display_init", {}), Step("sensor_init", {}),
           Step("start_render_loop", {"display_init", "sensor_init"})>>)

dashboard_display_params ==
    <<display_driver_param,
      Choice("display_resolution", "240x240", {"128x64", "240x240", "320x240"}),
      Required(Choice("data_source", "local_sensors", {"local_sensors", "mqtt_subscribe", "both"})),
      Choice("rotation", "0", {"0", "90", "180", "270"})>>

dashboard_display ==
    [Solution(dashboard_display_plan, dashboard_display_params,
              <<Path("I2cSensor", <<"SensorFrameDecode", "Mapping">>, "LcdFrame"),
                Path("RotaryEncoder", <<"Debounce", "StateMachine">>, "LcdFrame")>>) EXCEPT
        !.required = {"wifi", "spi"}, !.optional = {"i2c", "sensor", "ota"},
        !.domain = "IotDeviceTooling", !.pins = iot_display_pins]

status_led_notifier_plan ==
    Plan({"esp32s3_wroom1", "esp32c6_wroom1"},
         {"MqttMessage", "I2cSensor", "ServiceCall", "ApiCommand"},
         {"RmtWaveform", "StatusLed", "NetworkApiState"},
         <<Step("led_init", {}), Step("connect_data_source", {}),
           Step("start_animation_loop", {"led_init", "connect_data_source"})>>)

status_led_notifier_params ==
    <<led_type_param, Required(Choice("led_count", "16", {"1", "8", "16", "30", "60", "144"})),
      Required(Choice("data_source", "mqtt", {"mqtt", "sensor", "api_command"})),
      Choice("default_pattern", "solid", {"solid", "breathing", "chase", "fire"})>>

status_led_notifier ==
    [Solution(status_led_notifier_plan, status_led_notifier_params,
              <<Path("MqttMessage", <<"CommandDispatch", "Mapping">>, "RmtWaveform"),
                Path("I2cSensor", <<"SensorFrameDecode", "Threshold">>, "RmtWaveform")>>) EXCEPT
        !.required = {"wifi"}, !.optional = {"light", "i2c", "sensor", "api", "ota"},
        !.domain = "IotDeviceTooling", !.pins = iot_led_strip_pins]

mesh_lite_network_solution ==
    [Solution(Plan({"esp32s3_wroom1", "esp32c6_wroom1"}, {"WifiEvent", "ServiceCall"},
                   {"WifiPacket", "NetworkApiState"}, <<>>),
              <<Required(Field("mesh_id", "rshome-mesh")), Field("is_root", "false")>>,
              <<Path("WifiEvent", <<"StateMachine">>, "WifiPacket")>>) EXCEPT
        !.required = {"wifi"}]

bus_sampler_solution_plan ==
    Plan({"esp32_d0wd_v3"}, {"CanBusFrame", "Rs485Data", "AdcVoltage", "ButtonGpio"},
         {"SdCardWrite", "NetworkApiState", "StatusLed", "CanBusTx", "Rs485Tx"},
         <<Step("bus_init", {}), Step("sd_mount", {"bus_init"}), Step("wifi_telemetry", {})>>)

bus_sampler_solution ==
    [Solution(bus_sampler_solution_plan, <<>>,
              <<Path("CanBusFrame", <<"CanFrameDecode">>, "SdCardWrite"),
                Path("Rs485Data", <<"Rs485ProtocolDecode">>, "SdCardWrite"),
                Path("CanBusFrame", <<"OneToMany">>, "NetworkApiState")>>) EXCEPT
        !.required = {"can_bus", "rs485_bus", "uart"}, !.optional = {"wifi", "ota"},
        !.domain = "IotDeviceTooling",
        !.pins = <<Pin("CAN RX", 26, {}, "CanBus"), Pin("CAN TX", 27, {}, "CanBus"),
                   Pin("RS485 RO", 21, {}, "Rs485"), Pin("RS485 DI", 22, {}, "Rs485"),
                   Pin("RS485 DE", 17, {}, "Rs485"), Pin("SD CS", 13, {}, "Spi"),
                   Pin("VIN ADC", 36, {}, "Adc"), Pin("WS2812", 4, {}, "Rmt"),
                   Pin("Boot Key", 0, {}, "Gpio")>>, !.assembly = "esp32_can485_devboard"]

ld2410_presence_solution_plan ==
    Plan({"esp32s3_wroom1", "esp32c6_wroom1"}, {"UartSensor", "TimerTick"},
         {"NetworkApiState", "StatusLed"},
         <<Step("init_uart", {}), Step("configure_ld2410", {"init_uart"}),
           Step("detect_presence_loop", {"configure_ld2410"}),
           Step("publish_events", {"detect_presence_loop"})>>)

ld2410_presence_solution_params ==
    <<Choice("sensitivity_level", "medium", {"low", "medium", "high"}),
      Choice("max_detection_cm", "600", {"200", "400", "600"}), Field("presence_timeout_s", "5"),
      uplink_protocol_param>>

ld2410_presence_solution ==
    [Solution(ld2410_presence_solution_plan, ld2410_presence_solution_params,
              <<Path("UartSensor", <<"UartProtocolParse", "Threshold", "Debounce">>,
                     "NetworkApiState")>>) EXCEPT
        !.required = {"uart", "sensor", "wifi"}, !.optional = {"ota", "api", "mqtt"},
        !.domain = "IotDeviceTooling", !.pins = iot_ld2410_pins]

ct_clamp_power_monitor_solution_plan ==
    Plan({"esp32s3_wroom1", "esp32c6_wroom1"}, {"AdcVoltage", "TimerTick"}, {"NetworkApiState"},
         <<Step("init_adc", {}), Step("calibrate_offset", {"init_adc"}),
           Step("measure_rms_loop", {"calibrate_offset"}),
           Step("publish_power", {"measure_rms_loop"})>>)

ct_clamp_power_monitor_solution_params ==
    <<Required(Choice("ct_ratio_a_to_ma", "100:50", {"20:25", "100:50", "200:100"})),
      Field("burden_resistor_ohm", "22"), Choice("sample_rate_hz", "50", {"50", "200", "500"}),
      Choice("phases", "1", {"1", "3"}), Field("report_interval_s", "10"), uplink_protocol_param>>

ct_clamp_power_monitor_solution ==
    [Solution(ct_clamp_power_monitor_solution_plan, ct_clamp_power_monitor_solution_params,
              <<Path("AdcVoltage", <<"Calibration", "Filter", "Normalization", "PeriodicTask">>,
                     "NetworkApiState")>>) EXCEPT
        !.required = {"adc", "sensor", "wifi"}, !.optional = {"ota", "api", "mqtt"},
        !.domain = "IotDeviceTooling", !.pins = iot_ct_clamp_pins]

air_quality_pm_station_solution_plan ==
    Plan({"esp32s3_wroom1", "esp32c6_wroom1"}, {"UartSensor", "I2cSensor", "TimerTick"},
         {"NetworkApiState"},
         <<Step("init_pms", {}), Step("init_scd40", {}),
           Step("sample_combined_loop", {"init_pms", "init_scd40"}),
           Step("publish_air_quality", {"sample_combined_loop"})>>)

air_quality_pm_station_solution_params ==
    <<Choice("pms_wake_cycle_s", "60", {"0", "60", "300"}), Field("scd_altitude_m", "0"),
      Field("ambient_pressure_mbar", "1013"), Field("sample_interval_s", "30"),
      Choice("publish_format", "raw", {"raw", "aqi_derived"}), uplink_protocol_param>>

air_quality_pm_station_solution ==
    [Solution(air_quality_pm_station_solution_plan, air_quality_pm_station_solution_params,
              <<Path("I2cSensor", <<"SensorFrameDecode", "Filter", "PeriodicTask">>,
                     "NetworkApiState")>>) EXCEPT
        !.required = {"uart", "i2c", "sensor", "wifi"}, !.optional = {"ota", "api", "mqtt"},
        !.domain = "IotDeviceTooling", !.pins = iot_air_quality_pins]

lorawan_gateway_solution_plan ==
    Plan({"esp32s3_wroom1"}, {"SpiSensor", "TimerTick"}, {"NetworkApiState", "SpiMasterWrite"},
         <<Step("init_sx1302", {}), Step("load_channel_plan", {"init_sx1302"}),
           Step("rx_loop", {"load_channel_plan"}), Step("uplink_to_ns", {"rx_loop"}),
           Step("downlink_schedule", {"uplink_to_ns"})>>)

lorawan_gateway_solution_params ==
    <<Required(Choice("region", "eu868", {"eu868", "us915", "cn470", "as923", "au915"})),
      Secret(Required(Field("network_server_url", Absent))),
      Secret(Field("gateway_eui", Absent)), Field("keepalive_interval_s", "10")>>

lorawan_gateway_solution ==
    [Solution(lorawan_gateway_solution_plan, lorawan_gateway_solution_params,
              <<Path("SpiSensor", <<"SensorFrameDecode", "Filter", "ProtobufEncode">>,
                     "NetworkApiState")>>) EXCEPT
        !.required = {"spi", "wifi"}, !.optional = {"ota", "api"}, !.domain = "IotDeviceTooling",
        !.pins = iot_sx1302_pins]

DeviceRegistry ==
    [composite_device_firmware |-> composite_device_firmware, camera_stream |-> camera_stream,
     sensor_hub |-> sensor_hub, phone_browser_video_solution |-> phone_browser_video_solution,
     phone_rtsp_av_solution |-> phone_rtsp_av_solution,
     esp_now_sensor_solution |-> esp_now_sensor_solution,
     mqtt_gateway_bridge |-> mqtt_gateway_bridge, ble_scanner_proxy |-> ble_scanner_proxy,
     env_data_logger |-> env_data_logger, thread_zigbee_sensor |-> thread_zigbee_sensor,
     zigbee_thread_gateway |-> zigbee_thread_gateway, uart_debug_probe |-> uart_debug_probe,
     i2c_bus_analyzer |-> i2c_bus_analyzer, sigrok_logic_analyzer |-> sigrok_logic_analyzer,
     dashboard_display |-> dashboard_display, status_led_notifier |-> status_led_notifier,
     mesh_lite_network_solution |-> mesh_lite_network_solution,
     bus_sampler_solution |-> bus_sampler_solution,
     ld2410_presence_solution |-> ld2410_presence_solution,
     ct_clamp_power_monitor_solution |-> ct_clamp_power_monitor_solution,
     air_quality_pm_station_solution |-> air_quality_pm_station_solution,
     lorawan_gateway_solution |-> lorawan_gateway_solution]
=============================================================================
