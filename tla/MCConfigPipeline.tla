------------------------------ MODULE MCConfigPipeline ------------------------------
(* Instances of the pipeline: every list of up to three entries of a small pool, with and        *)
(* without a package, and the bundle of every solution of the catalogue on every chip of its     *)
(* modules.                                                                                      *)
EXTENDS ConfigPipeline, VehicleSolutions, DeviceSolutions

\* The default registry and two components of an exclusive group, one of them with a secret field.
AllComponents ==
    DefaultComponents
        @@ [voice_a |-> [Component EXCEPT !.exclusive_group = "voice", !.auto_load = {"i2s_audio"}],
            voice_b |-> [Component EXCEPT !.exclusive_group = "voice", !.secret_fields = {"key"}]]

AllSolutions == VehicleRegistry @@ DeviceRegistry

\* The catalogue and a solution whose retries outlast half its watchdog.
KnownSolutions ==
    AllSolutions @@
        [slow_retry |->
            [Solution(Plan({}, {}, {}, <<[Step("init", {}) EXCEPT !.retry_budget_ms = 51]>>),
                      <<>>, <<>>)
                EXCEPT !.watchdog_ms = 100]]

\* The length of the longest chain of components that ends in one: the registry is layered by it.
Depth[id \in DOMAIN AllComponents] ==
    LET below == (AllComponents[id].auto_load \cup AllComponents[id].dependencies)
                    \cap DOMAIN AllComponents
    IN  IF below = {} THEN 0 ELSE 1 + Max({Depth[other] : other \in below})

ASSUME CatalogueLayered == LayeredBy(Depth)

SomeProfiles == [household |-> {"wifi", "api"}]

SomePackages ==
    [net |-> [components |-> <<Plain("wifi"), Plain("api")>>, subs |-> [p |-> "5", n |-> "Porch"]]]

\* "Porch" and "porch!" become the same slug, and "Porch 2" the id the second of them gets.
SomeSlugs ==
    LET slug(text, suffix) == [text |-> text, suffix |-> suffix] IN
    ("Porch" :> slug("porch", <<>>)) @@ ("porch!" :> slug("porch", <<>>))
        @@ ("Porch 2" :> slug("porch", <<2>>)) @@ ("x" :> slug("x", <<>>))

Entry(type, platform, name, pins) ==
    [Plain(type) EXCEPT !.platform = Str(platform), !.name = name, !.pins = pins]

Directive(word, type) == [Plain(type) EXCEPT !.directive = word]

Pool ==
    {Plain("wifi"), Plain("api"), Plain("sigrok"), Plain("voice_a"),
     [Plain("voice_b") EXCEPT !.secret = "plaintext"],
     Entry("sensor", "dht", Str("Porch"), [pin |-> Num(4)]),
     [Entry("sensor", "ultrasonic", Str("porch!"), [trigger_pin |-> Num(6), echo_pin |-> Num(9)])
        EXCEPT !.ref = Value("str", "porch", <<2>>, 0)],
     Entry("switch", "gpio", Placeholder("n"), [pin |-> Num(9)]),
     [Entry("sensor", "ultrasonic", None, [trigger_pin |-> Placeholder("p"), echo_pin |-> Num(5)])
        EXCEPT !.id = Value("str", "porch", <<2>>, 0)],
     [Entry("sensor", "ultrasonic", Str("Porch"), [echo_pin |-> Num(10)]) EXCEPT !.id = Null],
     Plain("ethernet"), Plain("ota"), [Plain("uart") EXCEPT !.source = "untrusted"],
     Entry("sensor", "dht", None, [pin |-> Placeholder("p")]),
     Directive("remove", "wifi"), Directive("remove", "api"),
     [Directive("extend", "sensor") EXCEPT !.name = Str("Porch 2")],
     [Directive("extend", "sensor") EXCEPT !.platform = Str("dht"), !.pins = [pin |-> Num(7)]]}

Raw(components, packages, platform) ==
    [components |-> components, subs |-> <<>>, packages |-> packages, platform |-> platform,
     named |-> TRUE, solution |-> "none", variant |-> "none", profile |-> "none"]

\* Settings at and beyond what stage 9 allows.
LimitEntries ==
    {[Plain("sigrok") EXCEPT !.limits = limits] : limits \in
        {[sample_rate_hz |-> 20000000, buffer_depth |-> 200000], [sample_rate_hz |-> 20000001],
         [buffer_depth |-> 200001], [transport |-> -1]}}
    \cup {[Plain("climate") EXCEPT !.limits = limits] : limits \in
        {[min_temperature |-> 15, max_temperature |-> 30, temperature_step |-> 1],
         [min_temperature |-> 30, max_temperature |-> 30], [temperature_step |-> 0]}}

FreeConfigs ==
    {Raw(cs, <<>>, "esp32s3") : cs \in SeqOf(Pool, 3)}
        \cup {Raw(cs, ps, chip) : cs \in SeqOf(Pool, 2), ps \in {<<"net">>},
                                  chip \in {"esp32", "esp32c6"}}
        \cup {Raw(<<c>>, <<>>, "esp32s3") : c \in LimitEntries}
        \cup {[Raw(<<c>>, <<"missing">>, "esp32") EXCEPT !.named = FALSE] : c \in Pool}
        \cup {[Raw(<<c>>, <<"net">>, "esp32") EXCEPT !.profile = "household"] : c \in Pool}

ChipPlatform == [Esp32 |-> "esp32", Esp32S3 |-> "esp32s3", Esp32C6 |-> "esp32c6"]

\* What a solution's bundle looks like in a configuration: named where a name is required.
Bundle(types) ==
    LET ts == SetToSeq(types) IN
    [k \in DOMAIN ts |->
        IF ts[k] \in NameRequired THEN [Plain(ts[k]) EXCEPT !.name = Str("Porch")] ELSE Plain(ts[k])]

BundleConfig(id, variant, module) ==
    [Raw(Bundle(AllSolutions[id].required), <<>>, ChipPlatform[Modules[module].target]) EXCEPT
        !.solution = id, !.variant = variant]

VariantsOf(id) ==
    IF AllSolutions[id].variants = <<>> THEN {"none"}
    ELSE {v.id : v \in Range(AllSolutions[id].variants)}

BundleConfigs ==
    UNION {{BundleConfig(id, v, module) : v \in VariantsOf(id), module \in AllSolutions[id].modules}
             : id \in DOMAIN AllSolutions}

\* Solutions asked for without the variant they need, one that does not exist and one whose
\* retries are too long.
OddConfigs ==
    {[BundleConfig(id, "none", "esp32s3_wroom1") EXCEPT !.solution = s] :
        id \in {"composite_device_firmware"}, s \in {"composite_device_firmware", "no_such_solution"}}
        \cup {[Raw(<<Plain("wifi")>>, <<>>, "esp32s3") EXCEPT !.solution = "slow_retry"]}

AllConfigs == FreeConfigs \cup BundleConfigs \cup OddConfigs

\* Every solution of the catalogue, with each of its variants and on each chip it names, is
\* accepted by the pipeline with just the components its bundle requires: bundles are closed under
\* dependencies, free of conflicts, and stay so under the changes of a variant.
CatalogueAccepted == stage = "Invalid" => config.solution \notin {c.solution : c \in BundleConfigs}
                                            \/ config.variant \notin VariantsOf(config.solution)
=============================================================================
