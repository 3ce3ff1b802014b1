------------------------------ MODULE SolutionHelpers ------------------------------
(* What the solutions of the catalogue are written with: steps, parameters, pin assignments,     *)
(* signal paths and the parameter and pin sets several solutions share.                          *)
EXTENDS AssemblyCatalogue

\* The value of an option that is not given.
Absent == "(absent)"

\* A step of the start-up sequence and the steps it waits for; no step of the catalogue has a
\* retry policy (retry_budget_ms 0).
Step(id, deps) == [id |-> id, deps |-> deps, retry_budget_ms |-> 0]

Field(id, default) ==
    [id |-> id, default |-> default, values |-> {}, required |-> FALSE, secret |-> FALSE,
     parent |-> Absent, when_value |-> Absent, when_not |-> Absent]

Choice(id, default, values) == [Field(id, default) EXCEPT !.values = values]

Required(p) == [p EXCEPT !.required = TRUE]

Secret(p) == [p EXCEPT !.secret = TRUE]

DependsOn(p, parent, value, unless) ==
    [p EXCEPT !.parent = parent, !.when_value = value, !.when_not = unless]

Pin(function, gpio, alternatives, capability) ==
    [function |-> function, gpio |-> gpio, alternatives |-> alternatives,
     capability |-> capability]

\* A signal path; the numbers of the transforms are their positions.
Path(source, transforms, sink) ==
    [source |-> source, transforms |-> transforms, sink |-> sink]

Variant(id) ==
    [id |-> id, add_components |-> {}, remove_components |-> {}, active_flag_add |-> {},
     active_flag_remove |-> {}, assembly |-> Absent]

Plan(modules, inputs, outputs, steps) ==
    [modules |-> modules, inputs |-> inputs, outputs |-> outputs, steps |-> steps]

\* A solution with none of its optional parts. watchdog_ms is 0 where no watchdog is given.
Solution(plan, params, paths) ==
    [modules |-> plan.modules, inputs |-> plan.inputs, outputs |-> plan.outputs,
     steps |-> plan.steps, params |-> params, paths |-> paths, variants |-> <<>>,
     required |-> {}, optional |-> {}, domain |-> Absent, role |-> Absent, pins |-> <<>>,
     form_factors |-> {}, uplink |-> Absent, video |-> Absent, telemetry |-> Absent,
     sensor_tier |-> "none", topology |-> Absent, watchdog_ms |-> 0, assembly |-> Absent,
     coverage |-> <<>>]

vehicle_type_param == Required(Choice("vehicle_type", "car", {"car", "drone", "boat"}))

control_protocol_param ==
    Required(Choice("control_protocol", "wifi_mavlink",
                    {"elrs_crsf", "crossfire_crsf", "sbus", "esp_now", "wifi_lr", "wifi_mavlink"}))

imu_axis_tier_param ==
    Choice("imu_axis_tier", "none", {"none", "6_axis", "9_axis", "10_axis"})

imu_chip_param ==
    DependsOn(Choice("imu_chip", "mpu6050",
                     {"mpu6050", "bmi270", "icm42688p", "icm20948", "lsm9ds1", "bno055",
                      "icm20948_bmp280", "bno055_bmp388"}), "imu_axis_tier", Absent, "none")

actuator_type_param ==
    Required(Choice("actuator_type", "h_bridge_2wd",
                    {"h_bridge_2wd", "h_bridge_4wd", "esc_servo_ackermann", "esc_differential",
                     "brushless_quad"}))

camera_sensor_param == Choice("camera_sensor", "ov2640", {"ov2640", "ov3660", "ov5640"})

frame_size_param == Choice("frame_size", "qvga", {"qqvga", "qvga", "vga", "svga"})

video_level_param(id) == Choice(id, "off", {"off", "snapshot", "very_low_fps"})

control_rate_hz_param == Choice("control_rate_hz", "100", {"50", "100", "250", "500", "1000"})

failsafe_timeout_ms_param ==
    Choice("failsafe_timeout_ms", "500", {"200", "500", "1000", "2000"})

phone_side_link_param ==
    Required(Choice("phone_side_link", "ble_gatt", {"ble_gatt", "usb_cdc"}))

vehicle_side_protocol_param ==
    Required(Choice("vehicle_side_protocol", "esp_now",
                    {"esp_now", "wifi_mesh", "wifi_80211lr", "ble_mesh"}))

wifi_ssid_param == Required(Field("wifi_ssid", "rshome-gcs"))

wifi_password_param == Secret(Field("wifi_password", ""))

mavlink_udp_port_param == Required(Field("mavlink_udp_port", "14550"))

telemetry_rate_hz_param ==
    Required(Choice("telemetry_rate_hz", "4", {"1", "4", "10", "20", "50"}))

webrtc_signaling_url_param == Field("webrtc_signaling_url", "")

safe_stop_timeout_ms_param ==
    Choice("safe_stop_timeout_ms", "1000", {"500", "1000", "2000", "5000"})

direct_probe_threshold_param ==
    Choice("direct_probe_threshold", "-60", {"-50", "-60", "-70", "-80"})

fallback_rssi_threshold_param ==
    Choice("fallback_rssi_threshold", "-75", {"-65", "-75", "-85"})

iot_poll_interval_param ==
    Choice("poll_interval_ms", "5000", {"1000", "5000", "10000", "30000", "60000"})

uplink_protocol_param ==
    Required(Choice("uplink_protocol", "ha_native_api", {"ha_native_api", "mqtt"}))

vehicle_control_pins ==
    <<Pin("Motor A PWM", 16, {33, 32}, "MotorControl"),
      Pin("Motor A DIR", 17, {33}, "MotorControl"),
      Pin("Motor B PWM", 18, {25, 26}, "MotorControl"),
      Pin("Motor B DIR", 19, {27}, "MotorControl"), Pin("IMU SDA", 21, {13, 14}, "I2c"),
      Pin("IMU SCL", 22, {14, 13}, "I2c"), Pin("RC UART RX", 4, {36}, "Uart"),
      Pin("RC UART TX", 5, {39}, "Uart"), Pin("Status LED", 2, {15}, "Gpio"),
      Pin("Battery ADC", 34, {36, 39}, "Adc")>>

vehicle_car_pins ==
    vehicle_control_pins
        \o <<Pin("Failsafe Relay", 25, {26}, "FailsafeStop")>>

dual_mcu_control_board_pins ==
    vehicle_car_pins
        \o <<Pin("Interboard TX", 43, {}, "Uart"), Pin("Interboard RX", 44, {}, "Uart")>>

dual_mcu_camera_board_pins ==
    <<Pin("CAM PCLK", 13, {}, "Camera"), Pin("CAM VSYNC", 6, {}, "Camera"),
      Pin("CAM HREF", 7, {}, "Camera"), Pin("CAM XCLK", 14, {}, "Camera"),
      Pin("CAM SDA", 4, {}, "I2c"), Pin("CAM SCL", 5, {}, "I2c"),
      Pin("Interboard TX", 43, {}, "Uart"), Pin("Interboard RX", 44, {}, "Uart")>>

all_in_one_cam_pins ==
    vehicle_control_pins
        \o <<Pin("CAM PCLK", 13, {}, "Camera"), Pin("CAM VSYNC", 6, {}, "Camera"),
             Pin("CAM HREF", 7, {}, "Camera"), Pin("CAM XCLK", 14, {}, "Camera"),
             Pin("CAM SDA (SCCB)", 10, {}, "I2c"), Pin("CAM SCL (SCCB)", 11, {}, "I2c"),
             Pin("CAM D4", 36, {}, "Camera"), Pin("CAM D5", 37, {}, "Camera")>>

remote_control_tx_pins ==
    <<Pin("Joystick X ADC", 1, {2, 3}, "Adc"), Pin("Joystick Y ADC", 2, {1, 3}, "Adc"),
      Pin("Joystick Z ADC", 3, {1, 4}, "Adc"), Pin("Throttle ADC", 4, {5, 6}, "Adc"),
      Pin("Button A", 5, {6, 7}, "Gpio"), Pin("Button B", 6, {7, 8}, "Gpio"),
      Pin("Button C", 7, {8, 9}, "Gpio"), Pin("Button D", 8, {9, 10}, "Gpio"),
      Pin("Status LED", 48, {38}, "Gpio"), Pin("Battery ADC", 9, {10}, "Adc")>>

video_board_pins ==
    dual_mcu_camera_board_pins
        \o <<Pin("Status LED", 48, {38}, "Gpio")>>

receiver_direct_drive_pins ==
    <<Pin("RC UART RX", 4, {36}, "Uart"), Pin("RC UART TX", 5, {39}, "Uart"),
      Pin("Servo/ESC CH1", 16, {17}, "MotorControl"),
      Pin("Servo/ESC CH2", 17, {18}, "MotorControl"),
      Pin("Servo/ESC CH3", 18, {19}, "MotorControl"),
      Pin("Servo/ESC CH4", 19, {20}, "MotorControl"),
      Pin("Failsafe Relay", 25, {26}, "FailsafeStop"), Pin("Status LED", 2, {15}, "Gpio")>>

gateway_pins ==
    <<Pin("Status LED", 2, {15}, "Gpio"), Pin("UART TX (to vehicle)", 43, {}, "Uart"),
      Pin("UART RX (from vehicle)", 44, {}, "Uart"), Pin("Battery ADC", 34, {36}, "Adc")>>

iot_sensor_pins ==
    <<Pin("I2C SDA", 21, {13, 14}, "I2c"), Pin("I2C SCL", 22, {14, 13}, "I2c"),
      Pin("SPI MOSI", 11, {35}, "Spi"), Pin("SPI CLK", 12, {36}, "Spi"),
      Pin("SPI CS (SD)", 10, {34}, "Spi"), Pin("Status LED", 48, {38, 2}, "Gpio"),
      Pin("Battery ADC", 1, {2, 3}, "Adc")>>

iot_debug_probe_pins ==
    <<Pin("Target UART RX", 4, {44}, "Uart"), Pin("Target UART TX", 5, {43}, "Uart"),
      Pin("Status LED", 48, {38, 2}, "Gpio")>>

iot_i2c_analyzer_pins ==
    <<Pin("I2C SDA", 21, {13, 6}, "I2c"), Pin("I2C SCL", 22, {14, 7}, "I2c"),
      Pin("Status LED", 48, {38, 2}, "Gpio")>>

iot_display_pins ==
    <<Pin("SPI MOSI", 11, {35}, "Spi"), Pin("SPI CLK", 12, {36}, "Spi"),
      Pin("LCD CS", 10, {34}, "Spi"), Pin("LCD DC", 9, {33}, "Gpio"),
      Pin("LCD RST", 8, {18}, "Gpio"), Pin("LCD Backlight", 7, {17}, "Ledc"),
      Pin("Encoder A", 5, {15}, "Gpio"), Pin("Encoder B", 6, {16}, "Gpio"),
      Pin("Encoder Button", 4, {0}, "Gpio"), Pin("I2C SDA", 21, {13}, "I2c"),
      Pin("I2C SCL", 22, {14}, "I2c")>>

iot_sigrok_la_pins ==
    <<Pin("LA CH0", 4, {6, 15}, "Gpio"), Pin("LA CH1", 5, {7, 16}, "Gpio"),
      Pin("LA CH2", 6, {8, 17}, "Gpio"), Pin("LA CH3", 7, {9, 18}, "Gpio"),
      Pin("LA CH4", 15, {4, 35}, "Gpio"), Pin("LA CH5", 16, {5, 36}, "Gpio"),
      Pin("LA CH6", 17, {37, 38}, "Gpio"), Pin("LA CH7", 18, {33, 34}, "Gpio"),
      Pin("Status LED", 48, {38, 2}, "Gpio")>>

iot_led_strip_pins ==
    <<Pin("LED Data (RMT)", 48, {38, 8}, "Rmt"), Pin("Status LED", 2, {15}, "Gpio")>>

iot_ld2410_pins ==
    <<Pin("LD2410 UART RX", 17, {44}, "Uart"), Pin("LD2410 UART TX", 18, {43}, "Uart"),
      Pin("LD2410 OUT (raw presence)", 4, {5}, "Gpio"), Pin("Status LED", 48, {38, 2}, "Gpio")>>

iot_ct_clamp_pins ==
    <<Pin("CT Phase A ADC", 1, {2, 3}, "Adc"), Pin("CT Phase B ADC", 2, {3, 4}, "Adc"),
      Pin("CT Phase C ADC", 3, {4, 5}, "Adc"), Pin("AC Voltage Reference ADC", 4, {5, 6}, "Adc"),
      Pin("Status LED", 48, {38, 2}, "Gpio")>>

iot_air_quality_pins ==
    <<Pin("PMS UART RX", 17, {44}, "Uart"), Pin("PMS UART TX", 18, {43}, "Uart"),
      Pin("PMS SET (sleep)", 5, {6}, "Gpio"), Pin("SCD40 I2C SDA", 21, {13, 14}, "I2c"),
      Pin("SCD40 I2C SCL", 22, {14, 13}, "I2c"), Pin("Status LED", 48, {38, 2}, "Gpio")>>

iot_sx1302_pins ==
    <<Pin("SX1302 SPI MOSI", 11, {35}, "Spi"), Pin("SX1302 SPI MISO", 13, {37}, "Spi"),
      Pin("SX1302 SPI CLK", 12, {36}, "Spi"), Pin("SX1302 SPI CS", 10, {34}, "Spi"),
      Pin("SX1302 RST", 9, {33}, "Gpio"), Pin("SX1302 INT", 8, {18}, "Gpio"),
      Pin("Status LED", 48, {38, 2}, "Gpio")>>

storage_backend_param ==
    Required(Choice("storage_backend", "sd_card", {"sd_card", "flash", "usb_export"}))

upload_mode_param == Choice("upload_mode", "manual", {"manual", "wifi_batch"})

display_driver_param ==
    Required(Choice("display_driver", "st7789", {"st7789", "ili9341", "ssd1306", "sh1106"}))

led_type_param == Required(Choice("led_type", "ws2812b", {"ws2812b", "sk6812", "apa102"}))
=============================================================================
