----------------------------- MODULE AssemblyCatalogue -----------------------------
(* The board assemblies: the peripherals a board declares with the GPIOs and the hardware unit   *)
(* each takes, the devices that use them and the HAL contracts the board provides; and the       *)
(* assembly derived from a module.                                                               *)
EXTENDS PlatformCatalogue

\* A peripheral; an unused signal (GPIO -1) takes no pin. The unit is the port, channel or group
\* of the chip it occupies.
Peripheral(id, type, gpios, unit) ==
    [name |-> id, type |-> type, gpios |-> gpios, unit |-> unit]

Device(id, peripherals) == [name |-> id, peripherals |-> peripherals]

Assembly(target, modules, peripherals, devices, contracts) ==
    [target |-> target, modules |-> modules, peripherals |-> peripherals, devices |-> devices,
     contracts |-> contracts]

esp32s3_gpio_relay_assembly ==
    Assembly("Esp32S3", {"esp32s3_wroom1"},
             <<Peripheral("gpio_relay_output", "gpio", {6}, "none")>>,
             <<Device("gpio_ctrl_0", {"gpio_relay_output"})>>, {"gpio_output"})

esp32s3_i2c_sensor_assembly ==
    Assembly("Esp32S3", {"esp32s3_wroom1"},
             <<Peripheral("i2c_master_0", "i2c", {8, 9}, "none")>>,
             <<Device("bme280_0", {"i2c_master_0"})>>, {"i2c_sensor"})

esp32_can485_devboard ==
    Assembly("Esp32", {"esp32_d0wd_v3"},
             <<Peripheral("twai_0", "twai", {26, 27}, "none"),
               Peripheral("uart1_rs485", "uart", {17, 21, 22}, "none"),
               Peripheral("spi_sd", "spi", {2, 13, 14, 15}, "none"),
               Peripheral("adc_vin", "adc", {36}, "ADC1_CH0"),
               Peripheral("rmt_led", "rmt", {4}, "none"),
               Peripheral("gpio_key", "gpio", {0}, "none")>>,
             <<Device("can_0", {"twai_0"}), Device("rs485_0", {"uart1_rs485"}),
               Device("sd_0", {"spi_sd"}), Device("led_0", {"rmt_led"}),
               Device("vin_0", {"adc_vin"}), Device("key_0", {"gpio_key"}),
               Device("wifi_tel_0", {})>>,
             {"can_bus", "rs485_bus", "sd_card", "status_led", "voltage_monitor", "boot_key",
              "wifi_telemetry"})

esp32s3_va_wheeled_diff_peripherals ==
    <<Peripheral("mcpwm_left", "mcpwm", {4}, "none"),
      Peripheral("mcpwm_right", "mcpwm", {5}, "none"),
      Peripheral("i2c_imu", "i2c", {8, 9}, "i2c_0"),
      Peripheral("spi_aux", "spi", {11, 12, 13}, "SPI2_HOST"),
      Peripheral("gpio_status_led", "gpio", {2}, "none"),
      Peripheral("gpio_failsafe", "gpio", {21}, "none")>>

esp32s3_va_wheeled_diff_assembly ==
    Assembly("Esp32S3", {"esp32s3_wroom1"}, esp32s3_va_wheeled_diff_peripherals,
             <<Device("status_led_0", {"gpio_status_led"}),
               Device("failsafe_gpio_0", {"gpio_failsafe"}),
               Device("motor_left", {"mcpwm_left"}), Device("motor_right", {"mcpwm_right"}),
               Device("imu_mpu6050", {"i2c_imu"}), Device("failsafe_0", {"gpio_failsafe"}),
               Device("vehicle_ctrl_0", {})>>,
             {"gpio_output", "motor_control", "imu_sensor", "failsafe_stop", "vehicle_control"})

esp32s3_va_elrs_crsf_peripherals ==
    <<Peripheral("uart_crsf", "uart", {17, 18}, "uart_2"),
      Peripheral("ledc_esc", "ledc", {4}, "LEDC_CHANNEL_0"),
      Peripheral("ledc_servo", "ledc", {5}, "LEDC_CHANNEL_1"),
      Peripheral("gpio_status_led", "gpio", {2}, "none"),
      Peripheral("gpio_failsafe", "gpio", {21}, "none")>>

esp32s3_va_elrs_crsf_assembly ==
    Assembly("Esp32S3", {"esp32s3_wroom1"}, esp32s3_va_elrs_crsf_peripherals,
             <<Device("status_led_0", {"gpio_status_led"}),
               Device("failsafe_gpio_0", {"gpio_failsafe"}), Device("motor_esc_0", {"ledc_esc"}),
               Device("servo_steer_0", {"ledc_servo"}), Device("crsf_rx_0", {"uart_crsf"}),
               Device("failsafe_0", {"gpio_failsafe"}), Device("vehicle_ctrl_0", {})>>,
             {"gpio_output", "motor_control", "servo_control", "crsf_link", "failsafe_stop",
              "vehicle_control"})

esp32s3_va_multirotor_peripherals ==
    <<Peripheral("ledc_esc_0", "ledc", {4}, "LEDC_CHANNEL_0"),
      Peripheral("ledc_esc_1", "ledc", {5}, "LEDC_CHANNEL_1"),
      Peripheral("ledc_esc_2", "ledc", {6}, "LEDC_CHANNEL_2"),
      Peripheral("ledc_esc_3", "ledc", {7}, "LEDC_CHANNEL_3"),
      Peripheral("i2c_imu", "i2c", {8, 9}, "i2c_0"), Peripheral("adc_vbat", "adc", {}, "adc_0"),
      Peripheral("gpio_status_led", "gpio", {2}, "none"),
      Peripheral("gpio_failsafe", "gpio", {21}, "none")>>

esp32s3_va_multirotor_assembly ==
    Assembly("Esp32S3", {"esp32s3_wroom1"}, esp32s3_va_multirotor_peripherals,
             <<Device("status_led_0", {"gpio_status_led"}),
               Device("failsafe_gpio_0", {"gpio_failsafe"}),
               Device("motor_esc_0", {"ledc_esc_0"}), Device("motor_esc_1", {"ledc_esc_1"}),
               Device("motor_esc_2", {"ledc_esc_2"}), Device("motor_esc_3", {"ledc_esc_3"}),
               Device("imu_mpu6050", {"i2c_imu"}), Device("vbat_monitor_0", {"adc_vbat"}),
               Device("failsafe_0", {"gpio_failsafe"}), Device("vehicle_ctrl_0", {})>>,
             {"gpio_output", "motor_control", "imu_sensor", "vbat_monitor", "failsafe_stop",
              "vehicle_control"})

esp32s3_va_multirotor_dshot_peripherals ==
    <<Peripheral("gpio_dshot_esc_0", "gpio", {4}, "none"),
      Peripheral("gpio_dshot_esc_1", "gpio", {5}, "none"),
      Peripheral("gpio_dshot_esc_2", "gpio", {6}, "none"),
      Peripheral("gpio_dshot_esc_3", "gpio", {7}, "none"),
      Peripheral("i2c_imu", "i2c", {8, 9}, "i2c_0"),
      Peripheral("gpio_status_led", "gpio", {2}, "none"),
      Peripheral("gpio_failsafe", "gpio", {21}, "none")>>

esp32s3_va_multirotor_dshot_assembly ==
    Assembly("Esp32S3", {"esp32s3_wroom1"}, esp32s3_va_multirotor_dshot_peripherals,
             <<Device("status_led_0", {"gpio_status_led"}),
               Device("failsafe_gpio_0", {"gpio_failsafe"}),
               Device("motor_esc_0", {"gpio_dshot_esc_0"}),
               Device("motor_esc_1", {"gpio_dshot_esc_1"}),
               Device("motor_esc_2", {"gpio_dshot_esc_2"}),
               Device("motor_esc_3", {"gpio_dshot_esc_3"}), Device("imu_mpu6050", {"i2c_imu"}),
               Device("failsafe_0", {"gpio_failsafe"})>>,
             {"gpio_output", "motor_control", "imu_sensor", "failsafe_stop"})

esp32s3_va_multirotor_bdshot_peripherals ==
    <<Peripheral("gpio_dshot_esc_0", "gpio", {4}, "none"),
      Peripheral("gpio_dshot_esc_1", "gpio", {5}, "none"),
      Peripheral("gpio_dshot_esc_2", "gpio", {6}, "none"),
      Peripheral("gpio_dshot_esc_3", "gpio", {7}, "none"),
      Peripheral("i2c_imu", "i2c", {8, 9}, "i2c_0"),
      Peripheral("gpio_status_led", "gpio", {2}, "none"),
      Peripheral("gpio_failsafe", "gpio", {21}, "none")>>

esp32s3_va_multirotor_bdshot_assembly ==
    Assembly("Esp32S3", {"esp32s3_wroom1"}, esp32s3_va_multirotor_bdshot_peripherals,
             <<Device("status_led_0", {"gpio_status_led"}),
               Device("failsafe_gpio_0", {"gpio_failsafe"}),
               Device("motor_esc_0", {"gpio_dshot_esc_0"}),
               Device("motor_esc_1", {"gpio_dshot_esc_1"}),
               Device("motor_esc_2", {"gpio_dshot_esc_2"}),
               Device("motor_esc_3", {"gpio_dshot_esc_3"}), Device("imu_mpu6050", {"i2c_imu"}),
               Device("failsafe_0", {"gpio_failsafe"})>>,
             {"gpio_output", "motor_control", "imu_sensor", "failsafe_stop"})

esp32s3_va_sbc_bridge_assembly ==
    Assembly("Esp32S3", {"esp32s3_wroom1"},
             <<Peripheral("uart_sbc", "uart", {15, 16}, "uart_1"),
               Peripheral("uart_crsf", "uart", {17, 18}, "uart_2"),
               Peripheral("gpio_status_led", "gpio", {2}, "none"),
               Peripheral("gpio_failsafe", "gpio", {21}, "none")>>,
             <<Device("status_led_0", {"gpio_status_led"}),
               Device("failsafe_gpio_0", {"gpio_failsafe"}), Device("sbc_link_0", {"uart_sbc"}),
               Device("crsf_rx_0", {"uart_crsf"}), Device("failsafe_0", {"gpio_failsafe"})>>,
             {"gpio_output", "sbc_link", "crsf_link", "failsafe_stop"})

esp32s3_va_marine_peripherals ==
    <<Peripheral("ledc_esc", "ledc", {4}, "LEDC_CHANNEL_0"),
      Peripheral("ledc_rudder", "ledc", {5}, "LEDC_CHANNEL_1"),
      Peripheral("gpio_water_sensor", "gpio", {6}, "none"),
      Peripheral("gpio_status_led", "gpio", {2}, "none"),
      Peripheral("gpio_failsafe", "gpio", {21}, "none")>>

esp32s3_va_marine_assembly ==
    Assembly("Esp32S3", {"esp32s3_wroom1"}, esp32s3_va_marine_peripherals,
             <<Device("status_led_0", {"gpio_status_led"}),
               Device("failsafe_gpio_0", {"gpio_failsafe"}), Device("motor_esc_0", {"ledc_esc"}),
               Device("servo_rudder_0", {"ledc_rudder"}),
               Device("water_sensor_0", {"gpio_water_sensor"}),
               Device("failsafe_0", {"gpio_failsafe"}), Device("vehicle_ctrl_0", {})>>,
             {"gpio_output", "motor_control", "servo_control", "gpio_input", "failsafe_stop",
              "vehicle_control"})

Assemblies ==
    [esp32s3_gpio_relay_assembly |-> esp32s3_gpio_relay_assembly,
     esp32s3_i2c_sensor_assembly |-> esp32s3_i2c_sensor_assembly,
     esp32_can485_devboard |-> esp32_can485_devboard,
     esp32s3_va_wheeled_diff_assembly |-> esp32s3_va_wheeled_diff_assembly,
     esp32s3_va_elrs_crsf_assembly |-> esp32s3_va_elrs_crsf_assembly,
     esp32s3_va_multirotor_assembly |-> esp32s3_va_multirotor_assembly,
     esp32s3_va_multirotor_dshot_assembly |-> esp32s3_va_multirotor_dshot_assembly,
     esp32s3_va_multirotor_bdshot_assembly |-> esp32s3_va_multirotor_bdshot_assembly,
     esp32s3_va_sbc_bridge_assembly |-> esp32s3_va_sbc_bridge_assembly,
     esp32s3_va_marine_assembly |-> esp32s3_va_marine_assembly]

\* The peripheral a capability becomes; the other capabilities become none.
capability_to_peripheral ==
    [Gpio |-> "gpio", I2c |-> "i2c", Spi |-> "spi", Uart |-> "uart", Adc |-> "adc",
     Camera |-> "camera", Mcpwm |-> "mcpwm", Ledc |-> "ledc", I2s |-> "i2s", Imu |-> "imu",
     FailsafeStop |-> "failsafe", MotorControl |-> "vehicle_control", ApSta |-> "gateway_bridge",
     LongRange |-> "lr_comm", Csi |-> "csi"]

periph_to_device_type ==
    [gpio |-> "gpio_ctrl", i2c |-> "i2c_sensor", spi |-> "spi_device", uart |-> "uart_device",
     adc |-> "adc_reader", camera |-> "camera_capture", mcpwm |-> "motor_driver",
     ledc |-> "ledc_pwm", i2s |-> "i2s_device", imu |-> "imu_sensor",
     failsafe |-> "failsafe_ctrl", vehicle_control |-> "vehicle_ctrl",
     gateway_bridge |-> "gateway_bridge", lr_comm |-> "lr_link", csi |-> "csi_sensor"]

capability_to_hal_contract ==
    [Gpio |-> "gpio_output", I2c |-> "i2c_sensor", Spi |-> "spi_device", Uart |-> "uart_port",
     Adc |-> "adc_input", Camera |-> "camera_capture", MotorControl |-> "motor_control",
     Imu |-> "imu_sensor", FailsafeStop |-> "failsafe_stop", Ledc |-> "ledc_pwm"]

\* The assembly derived from a module: one peripheral per type, one device on each. The constraint
\* texts of the registered modules name no bus, so none adds a pin.
from_module(id) ==
    LET caps == Modules[id].caps
        types == {capability_to_peripheral[c] : c \in caps \cap DOMAIN capability_to_peripheral}
    IN  Assembly(Modules[id].target, {id},
                 [t \in types |-> Peripheral(t, t, {}, "none")],
                 [t \in types |-> Device(periph_to_device_type[t], {t})],
                 {capability_to_hal_contract[c] :
                    c \in caps \cap DOMAIN capability_to_hal_contract})
=============================================================================
