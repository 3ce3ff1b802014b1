----------------------------- MODULE ComponentCatalogue -----------------------------
(* The component registry of rshome-schema: what each component of a configuration loads, needs, *)
(* excludes and produces. The tables are the ones default_registry() builds; labels and          *)
(* descriptions are left out.                                                                    *)
EXTENDS Integers, Sequences, FiniteSets, TLC

\* The chips a firmware is built for.
ChipTargets ==
    {"Esp32", "Esp32S2", "Esp32S3", "Esp32C2", "Esp32C3", "Esp32C5", "Esp32C6", "Esp32C61",
     "Esp32H2", "Esp32P4"}

\* A definition with nothing declared; no platform binding means every target.
Component ==
    [family |-> FALSE, children |-> {}, auto_load |-> {}, dependencies |-> {},
     conflicts_with |-> {}, entity |-> "none", exclusive_group |-> "none", singleton |-> FALSE,
     secret_fields |-> {}, targets |-> ChipTargets]

Family(entity, children) ==
    [Component EXCEPT !.family = TRUE, !.entity = entity, !.children = children]

Entity(entity, auto) == [Component EXCEPT !.entity = entity, !.auto_load = auto]

\* The families most devices use.
EntityFamilies ==
    [sensor |-> Family("Sensor", {"dht", "bme280_i2c", "bme680_bsec", "sht3x", "ds18x20", "adc",
         "pulse_counter", "ultrasonic", "htu21d", "bh1750", "ade7953_i2c", "homeassistant",
         "template", "esp32_hall", "rotary_encoder", "ld2410", "ct_clamp", "pms5003", "scd40"}),
     binary_sensor |-> Family("BinarySensor", {"gpio", "status", "homeassistant", "template",
         "esp32_touch"}),
     switch |-> Family("Switch", {"gpio", "restart", "template", "uart"}),
     number |-> Family("Number", {"template"}),
     select |-> Family("Select", {"template"}),
     text |-> Family("Text", {"template"}),
     button |-> Family("Button", {"template", "restart"})]

\* The other families.
ActuatorFamilies ==
    [event |-> Family("Event", {"template"}),
     light |-> Family("Light", {"binary", "monochromatic", "rgb", "rgbw", "rgbww", "neopixelbus",
         "fastled_clockless", "partition"}),
     climate |-> Family("Climate", {"thermostat", "bang_bang", "pid"}),
     fan |-> Family("Fan", {"speed", "template"}),
     cover |-> Family("Cover", {"time_based", "template", "endstop"}),
     lock |-> Family("Lock", {"template", "gpio"}),
     media_player |-> Family("MediaPlayer", {"i2s_audio"}),
     alarm_control_panel |-> Family("AlarmControlPanel", {"template"}),
     text_sensor |-> Family("TextSensor", {"template", "homeassistant", "wifi_info", "version"})]

\* Network, services and buses.
CoreInfrastructure ==
    [wifi |-> [Component EXCEPT !.conflicts_with = {"ethernet"}, !.targets = {"Esp32", "Esp32S2",
         "Esp32S3", "Esp32C3", "Esp32C5", "Esp32C6"}],
     ethernet |-> [Component EXCEPT !.conflicts_with = {"wifi"}],
     api |-> Component,
     mqtt |-> Component,
     ota |-> [Component EXCEPT !.dependencies = {"wifi"}],
     logger |-> Component,
     time |-> [Component EXCEPT !.children = {"homeassistant", "sntp", "gps"}],
     i2c |-> Component,
     spi |-> Component,
     uart |-> Component]

\* Industrial buses, storage and power.
IndustrialBuses ==
    [can_bus |-> [Component EXCEPT !.family = TRUE, !.children = {"can_esp32_twai"},
         !.targets = {"Esp32"}],
     can_esp32_twai |-> Entity("none", {"can_bus"}),
     rs485_bus |-> [Component EXCEPT !.family = TRUE, !.children = {"rs485_uart_half_duplex"},
         !.dependencies = {"uart"}, !.targets = {"Esp32"}],
     rs485_uart_half_duplex |-> Entity("none", {"rs485_bus", "uart"}),
     sd_card_spi |-> Entity("none", {"spi"}),
     deep_sleep |-> Component,
     restart |-> Component]

\* Sensors.
SensorComponents ==
    [dht |-> Entity("Sensor", {"sensor"}),
     bme280_i2c |-> Entity("Sensor", {"sensor", "i2c"}),
     bme680_bsec |-> Entity("Sensor", {"sensor", "i2c"}),
     sht3x |-> Entity("Sensor", {"sensor", "i2c"}),
     ds18x20 |-> Entity("Sensor", {"sensor"}),
     adc |-> Entity("Sensor", {"sensor"}),
     ld2410 |-> Entity("Sensor", {"sensor", "uart"}),
     ct_clamp |-> Entity("Sensor", {"sensor", "adc"}),
     pms5003 |-> Entity("Sensor", {"sensor", "uart"}),
     scd40 |-> Entity("Sensor", {"sensor", "i2c"}),
     sx1302 |-> Entity("none", {"spi"}),
     pulse_counter |-> Entity("Sensor", {"sensor"}),
     ultrasonic |-> Entity("Sensor", {"sensor"})]

\* More sensors and the binary sensors.
InputComponents ==
    [htu21d |-> Entity("Sensor", {"sensor", "i2c"}),
     bh1750 |-> Entity("Sensor", {"sensor", "i2c"}),
     rotary_encoder |-> Entity("Sensor", {"sensor"}),
     gpio |-> Entity("BinarySensor", {}),
     status |-> Entity("BinarySensor", {"binary_sensor"}),
     esp32_touch |-> Entity("BinarySensor", {"binary_sensor"})]

\* Lights, climate, covers, audio.
OutputComponents ==
    [neopixelbus |-> Entity("Light", {"light"}),
     fastled_clockless |-> Entity("Light", {"light"}),
     thermostat |-> Entity("Climate", {"climate"}),
     bang_bang |-> Entity("Climate", {"climate"}),
     pid |-> Entity("Climate", {"climate"}),
     time_based |-> Entity("Cover", {"cover"}),
     i2s_audio |-> Entity("MediaPlayer", {"media_player"}),
     esp32_hall |-> Entity("Sensor", {"sensor"})]

\* Diagnostics.
DiagnosticComponents ==
    [sigrok |-> [Component EXCEPT !.singleton = TRUE, !.targets = {"Esp32S3"}]]

DefaultComponents ==
    EntityFamilies @@ ActuatorFamilies @@ CoreInfrastructure @@ IndustrialBuses
        @@ SensorComponents @@ InputComponents @@ OutputComponents @@ DiagnosticComponents

\* The USE_ flags a component turns on, written by the name after USE_ in lower case: the parents
\* and the core components turn on their own.
ComponentFlags ==
    [c \in {"logger", "time", "deep_sleep", "restart", "wifi", "ethernet", "sigrok", "i2c",
        "spi", "uart", "api", "mqtt", "ota", "sensor", "binary_sensor", "switch", "number",
        "select", "text", "button", "event", "light", "climate", "fan", "cover", "lock",
        "media_player", "alarm_control_panel", "text_sensor"} |-> {c}]
    @@ [dht |-> {"dht", "sensor"},
        bme280_i2c |-> {"bme280", "sensor", "i2c"},
        bme680_bsec |-> {"bme680_bsec", "sensor", "i2c"},
        sht3x |-> {"sht3x", "sensor", "i2c"},
        ds18x20 |-> {"ds18x20", "sensor"},
        adc |-> {"adc", "sensor"},
        pulse_counter |-> {"pulse_counter", "sensor"},
        ultrasonic |-> {"ultrasonic", "sensor"},
        htu21d |-> {"htu21d", "sensor", "i2c"},
        bh1750 |-> {"bh1750", "sensor", "i2c"},
        rotary_encoder |-> {"rotary_encoder", "sensor"},
        esp32_hall |-> {"esp32_hall", "sensor"},
        gpio |-> {"gpio", "binary_sensor"},
        status |-> {"status", "binary_sensor"},
        esp32_touch |-> {"esp32_touch", "binary_sensor"},
        neopixelbus |-> {"neopixelbus_light", "light"},
        fastled_clockless |-> {"fastled_clockless_light", "light"},
        thermostat |-> {"thermostat", "climate"},
        bang_bang |-> {"bang_bang", "climate"},
        pid |-> {"pid", "climate"},
        time_based |-> {"time_based_cover", "cover"},
        i2s_audio |-> {"i2s_audio", "media_player"}]
=============================================================================
