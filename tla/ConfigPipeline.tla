------------------------------- MODULE ConfigPipeline -------------------------------
(* The validation pipeline of rshome-config: the stages a raw configuration goes through until   *)
(* it is rejected or becomes the validated configuration code is generated from. A stage is an   *)
(* action; the stages that are loops (packages, directives, AUTO_LOAD, generated ids, pins) take *)
(* one step per iteration. Warnings, messages and suggestions are left out, and the settings of  *)
(* a component are reduced to the ones some stage reads.                                         *)
EXTENDS Integers, Sequences, FiniteSets, SequencesExt

CONSTANTS
    Registry,      \* component id -> definition (ComponentCatalogue)
    Capabilities,  \* chip -> GPIO table
    Solutions,     \* solution id -> bundle and variants
    Profiles,      \* profile name -> components it requires
    Packages,      \* package name -> components and substitutions
    Slug,          \* entity name -> [text, suffix], what slugify makes of it if it changes it
    Configs        \* the raw configurations submitted

VARIABLES
    config,    \* the configuration being rewritten
    stage,     \* the stage that runs next, or "Valid" / "Invalid"
    cursor,    \* loop index of the stages that are loops
    fatal,     \* the running stage has pushed an error
    failed,    \* the stage that rejected the configuration
    resolved,  \* component ids: the selected ones and what AUTO_LOAD added
    work,      \* worklist of resolve_auto_load
    ids,       \* the id table
    tracker,   \* GPIO allocations
    overlay,   \* the resolved variant, or NoVariant
    order      \* component ids in initialisation order

vars == <<config, stage, cursor, fatal, failed, resolved, work, ids, tracker, overlay, order>>

-----------------------------------------------------------------------------
(* Settings. A value is nothing, null, a number or a string; a string is a text with the numeric *)
(* suffixes make_unique appended, or a placeholder that stands for a variable.                   *)

Value(tag, text, suffix, num) == [tag |-> tag, text |-> text, suffix |-> suffix, num |-> num]

None == Value("none", "", <<>>, 0)
Null == Value("null", "", <<>>, 0)
Num(n) == Value("num", "", <<>>, n)
Str(text) == Value("str", text, <<>>, 0)
Placeholder(variable) == Value("placeholder", variable, <<>>, 0)

IsStr(v) == v.tag \in {"str", "placeholder"}

NoVariant == [id |-> "none", active_flag_add |-> {}, active_flag_remove |-> {}]

PinFields ==
    <<"pin", "sda", "scl", "mosi", "miso", "clk", "cs", "tx_pin", "rx_pin", "trigger_pin",
      "echo_pin", "output", "input_pin">>

\* The modes extract_pins gives these fields that read only.
InputFields == {"miso", "echo_pin", "input_pin"}

\* A component entry with no settings; limits are the numeric settings stage 9 reads; directive is "none",
\* "extend" or "remove", and the type of a directive is its target.
Plain(type) ==
    [directive |-> "none", type |-> type, platform |-> None, id |-> None, name |-> None,
     ref |-> None, pins |-> <<>>, limits |-> <<>>, channels |-> <<>>, source |-> "none", secret |-> "none"]

\* The platform if there is one; a directive or a placeholder is no name of the registry.
component_effective_id(c) ==
    CASE c.platform.tag = "placeholder" -> "${}"
      [] c.platform.tag = "str" /\ c.platform.text # "" -> c.platform.text
      [] OTHER -> IF c.directive = "none" THEN c.type ELSE "!"

\* A setting is of one of the kinds above, and a list of entries is a sequence.
IsSetting(v) ==
    /\ v.tag \in {"none", "null", "num", "str", "placeholder"}
    /\ v.tag = "none" => v = None
    /\ v.tag = "null" => v = Null

IsEntryList(cs) ==
    /\ cs \in Seq(Range(cs))
    /\ \A i \in DOMAIN cs : "id" \in DOMAIN cs[i] /\ IsSetting(cs[i].id)

Components == config.components

Selected == {component_effective_id(Components[i]) : i \in DOMAIN Components}

Types == {Components[i].type : i \in {j \in DOMAIN Components : Components[j].directive = "none"}}

-----------------------------------------------------------------------------
(* What the constants are. The names the registry is asked for by a directive or a placeholder   *)
(* are not in it, and what its components load is.                                               *)

ASSUME RegistryAssumption ==
    /\ IsFiniteSet(DOMAIN Registry)
    /\ {"!", "${}"} \cap DOMAIN Registry = {}
    /\ \A id \in DOMAIN Registry : Registry[id].auto_load \subseteq DOMAIN Registry

ASSUME ConfigsAssumption ==
    /\ \A c \in Configs :
          /\ {"components", "platform", "packages"} \subseteq DOMAIN c
          /\ IsEntryList(c.components) /\ c.packages \in Seq(STRING)
    /\ \A p \in DOMAIN Packages : IsEntryList(Packages[p].components)

ASSUME SlugAssumption == \A name \in DOMAIN Slug : Slug[name].suffix \in Seq(Nat)

ASSUME SolutionsAssumption ==
    \A s \in DOMAIN Solutions :
        \A v \in Range(Solutions[s].variants) : IsFiniteSet(v.add_components)

\* A layer for every component, below which is all that it loads or depends on.
LayeredBy(layer) ==
    \A id \in DOMAIN Registry :
        \A other \in (Registry[id].auto_load \cup Registry[id].dependencies) \cap DOMAIN Registry :
            layer[other] < layer[id]

-----------------------------------------------------------------------------
(* Moving from stage to stage.                                                                   *)

StageSeq ==
    <<"PackageMerge", "Substitutions", "ExtendRemove", "VariantResolution", "ExternalComponents",
      "Preload", "ComponentLoading", "AutoLoad", "Dependencies", "SchemaValidation",
      "CollectIds", "GenerateIds", "CrossRefs", "FinalValidation", "PinConflicts",
      "PinCapabilities", "ExclusiveGroup", "ProfileValidation", "SecretFields", "BuildDag",
      "Valid">>

Follower(s) == StageSeq[1 + CHOOSE k \in 1..(Len(StageSeq) - 1) : StageSeq[k] = s]

\* The end of a stage: an error ends the run, otherwise the next stage starts its loop afresh.
Leave(s, bad) ==
    /\ stage' = IF bad THEN "Invalid" ELSE Follower(s)
    /\ failed' = IF bad THEN s ELSE failed
    /\ cursor' = 1
    /\ fatal' = FALSE

Loop(bad) ==
    /\ fatal' = (fatal \/ bad)
    /\ UNCHANGED <<stage, failed>>

Init ==
    /\ config \in Configs
    /\ stage = "PackageMerge" /\ cursor = 1 /\ fatal = FALSE /\ failed = "none"
    /\ resolved = {} /\ work = {} /\ ids = {} /\ tracker = {}
    /\ overlay = NoVariant /\ order = <<>>

-----------------------------------------------------------------------------
(* Stages 1 to 5: rewriting the configuration.                                                   *)

\* Stage 1: components of a package follow the ones of the configuration; a substitution of a
\* package does not override one that is already there.
stage_1_merge_packages ==
    /\ stage = "PackageMerge"
    /\ IF cursor > Len(config.packages)
       THEN Leave("PackageMerge", fatal) /\ UNCHANGED config
       ELSE LET name == config.packages[cursor] IN
            /\ cursor' = cursor + 1
            /\ Loop(name \notin DOMAIN Packages)
            /\ config' = IF name \notin DOMAIN Packages THEN config
                         ELSE [config EXCEPT
                                 !.components = @ \o Packages[name].components,
                                 !.subs = @ @@ Packages[name].subs]
    /\ UNCHANGED <<resolved, work, ids, tracker, overlay, order>>

\* What is substituted is a string, whatever it looks like; an undefined variable stays as it is.
resolve_string(v) ==
    IF v.tag = "placeholder" /\ v.text \in DOMAIN config.subs THEN Str(config.subs[v.text]) ELSE v

apply_to_value(c) ==
    [c EXCEPT !.platform = resolve_string(@), !.id = resolve_string(@), !.name = resolve_string(@),
              !.ref = resolve_string(@),
              !.pins = [f \in DOMAIN c.pins |-> resolve_string(c.pins[f])]]

stage_2_apply_substitutions ==
    /\ stage = "Substitutions"
    /\ config' = [config EXCEPT !.components = [i \in DOMAIN @ |-> apply_to_value(@[i])]]
    /\ Leave("Substitutions", FALSE)
    /\ UNCHANGED <<resolved, work, ids, tracker, overlay, order>>

\* The positions of the plain entries of a type; a directive's own type is its full word.
PositionsOf(cs, type) ==
    {i \in DOMAIN cs : cs[i].directive = "none" /\ cs[i].type = type}

First(S) == CHOOSE i \in S : \A j \in S : i <= j

\* The settings of an !extend override the ones of the entry it extends.
deep_merge(dst, src) ==
    [dst EXCEPT !.id = IF src.id = None THEN @ ELSE src.id,
                !.name = IF src.name = None THEN @ ELSE src.name,
                !.ref = IF src.ref = None THEN @ ELSE src.ref,
                !.pins = src.pins @@ @,
                !.limits = src.limits @@ @,
                !.channels = IF src.channels = <<>> THEN @ ELSE src.channels,
                !.source = IF src.source = "none" THEN @ ELSE src.source,
                !.secret = IF src.secret = "none" THEN @ ELSE src.secret]

\* Mutation: an !extend stays in the list after it was applied.
TakeOut_NotExtend(cs, i) == IF cs[i].directive = "extend" THEN cs ELSE RemoveAt(cs, i)

TakeOut(cs, i) == RemoveAt(cs, i)

\* Stage 3, one round of the loop. A directive is taken out at the index, and what it removes is
\* taken out wherever it is; the index only moves past plain entries.
ExtendRemoveRound(c, rest) ==
    LET targets == PositionsOf(rest, c.type) IN
    \/ /\ c.directive = "none"
       /\ cursor' = cursor + 1
       /\ Loop(FALSE)
       /\ UNCHANGED config
    \/ /\ c.directive = "extend"
       /\ UNCHANGED cursor
       /\ Loop(targets = {})
       /\ config' = [config EXCEPT !.components =
                       IF targets = {} THEN rest
                       ELSE [rest EXCEPT ![First(targets)] = deep_merge(@, c)]]
    \/ /\ c.directive = "remove"
       /\ UNCHANGED cursor
       /\ Loop(c.type = "")
       /\ config' = [config EXCEPT !.components =
                       IF targets = {} THEN rest ELSE RemoveAt(rest, First(targets))]

stage_3_process_extend_remove ==
    /\ stage = "ExtendRemove"
    /\ IF cursor > Len(Components)
       THEN Leave("ExtendRemove", fatal) /\ UNCHANGED config
       ELSE ExtendRemoveRound(Components[cursor], TakeOut(Components, cursor))
    /\ UNCHANGED <<resolved, work, ids, tracker, overlay, order>>

\* Entries a variant adds, unless the type is there.
AddComponents(cs, types) ==
    LET new == SetToSeq({t \in types : PositionsOf(cs, t) = {}}) IN
    cs \o [k \in DOMAIN new |-> Plain(new[k])]

\* What is left of a list when it keeps only these positions.
Place(i, positions) == Cardinality({j \in positions : j <= i})

KeepOnly(cs, positions) ==
    [k \in 1..Cardinality(positions) |-> cs[CHOOSE i \in positions : Place(i, positions) = k]]

\* Removals drop the first entry of a type.
RemoveComponents(cs, types) ==
    LET dropped == {First(PositionsOf(cs, t)) : t \in {u \in types : PositionsOf(cs, u) # {}}}
    IN  KeepOnly(cs, DOMAIN cs \ dropped)

ApplyVariant(v) ==
    /\ config' = [config EXCEPT !.components =
                    RemoveComponents(AddComponents(@, v.add_components), v.remove_components)]
    /\ overlay' = [id |-> v.id, active_flag_add |-> v.active_flag_add,
                   active_flag_remove |-> v.active_flag_remove]
    /\ Leave("VariantResolution", FALSE)

\* Stage 3.5: a solution with variants needs one of them; without variants, or when it is unknown,
\* nothing happens here.
stage_3_5_resolve_variant ==
    /\ stage = "VariantResolution"
    /\ LET variants == IF config.solution \in DOMAIN Solutions
                       THEN Range(Solutions[config.solution].variants) ELSE {} IN
       \/ \E v \in variants : v.id = config.variant /\ ApplyVariant(v)
       \/ /\ \A v \in variants : v.id # config.variant
          /\ Leave("VariantResolution", variants # {})
          /\ UNCHANGED <<config, overlay>>
    /\ UNCHANGED <<resolved, work, ids, tracker, order>>

\* Stage 4: a source outside the registry needs an entry of the allow-list.
stage_4_resolve_external_components ==
    /\ stage = "ExternalComponents"
    /\ Leave("ExternalComponents", \E i \in DOMAIN Components : Components[i].source = "untrusted")
    /\ UNCHANGED <<config, resolved, work, ids, tracker, overlay, order>>

\* Stage 5: the chips of the platform names the pipeline accepts.
PlatformChip ==
    [esp32 |-> "Esp32", esp32s2 |-> "Esp32S2", esp32s3 |-> "Esp32S3", esp32s3box |-> "Esp32S3",
     esp32s3n8r8 |-> "Esp32S3", esp32c3 |-> "Esp32C3", esp32c5 |-> "Esp32C5",
     esp32c6 |-> "Esp32C6", esp32h2 |-> "Esp32H2", esp32p4 |-> "Esp32P4"]

ASSUME CapabilitiesAssumption ==
    \A p \in DOMAIN PlatformChip : Capabilities[PlatformChip[p]].max_gpio \in Nat

\* "named" says that name and board are not empty and the framework is a known one.
stage_5_preload_esphome_block ==
    /\ stage = "Preload"
    /\ Leave("Preload", ~config.named \/ config.platform \notin DOMAIN PlatformChip)
    /\ UNCHANGED <<config, resolved, work, ids, tracker, overlay, order>>

-----------------------------------------------------------------------------
(* Stages 6 and 7: the registry and the schemas.                                                 *)

\* Stage 6: every entry is a component of the registry; the selection starts the worklist.
stage_6_load_components ==
    /\ stage = "ComponentLoading"
    /\ Leave("ComponentLoading", ~(Selected \subseteq DOMAIN Registry))
    /\ resolved' = Selected
    /\ work' = Selected
    /\ UNCHANGED <<config, ids, tracker, overlay, order>>

AutoLoad(id) == IF id \in DOMAIN Registry THEN Registry[id].auto_load ELSE {}

\* Mutation: what was loaded is not expanded in turn.
Inserted_NotQueued(id) == {}

\* The components a round adds to the result, which also go to the worklist.
Inserted(id) == AutoLoad(id) \ resolved

\* One round of resolve_auto_load; the order in which the worklist is emptied does not matter.
resolve_auto_load ==
    /\ stage = "AutoLoad"
    /\ IF work = {}
       THEN Leave("AutoLoad", FALSE) /\ UNCHANGED <<resolved, work>>
       ELSE LET id == CHOOSE i \in work : TRUE IN
            /\ resolved' = resolved \cup AutoLoad(id)
            /\ work' = (work \ {id}) \cup Inserted(id)
            /\ UNCHANGED <<stage, cursor, fatal, failed>>
    /\ UNCHANGED <<config, ids, tracker, overlay, order>>

Loaded == resolved \cap DOMAIN Registry

check_dependencies == \A id \in Loaded : Registry[id].dependencies \subseteq resolved

check_conflicts == \A id \in Loaded : Registry[id].conflicts_with \cap resolved = {}

CheckDependencies ==
    /\ stage = "Dependencies"
    /\ Leave("Dependencies", ~check_dependencies \/ ~check_conflicts)
    /\ UNCHANGED <<config, resolved, work, ids, tracker, overlay, order>>

\* Stage 7: the fields some later stage reads. Components without a schema are not looked at.
NameRequired == {"sensor", "switch", "binary_sensor"}
PinRequired == {"dht", "gpio"}
PinTyped(id) == IF id \in PinRequired THEN {"pin"} ELSE IF id = "i2c" THEN {"sda", "scl"} ELSE {}

validate_fields(id, c) ==
    /\ id \in NameRequired => IsStr(c.name) /\ c.id.tag \in {"none", "str", "placeholder"}
    /\ id \in PinRequired => "pin" \in DOMAIN c.pins
    /\ \A f \in DOMAIN c.pins \cap PinTyped(id) : c.pins[f].tag = "num" /\ c.pins[f].num \in 0..48

stage_7_validate_schemas ==
    /\ stage = "SchemaValidation"
    /\ Leave("SchemaValidation",
             \E i \in DOMAIN Components :
                ~validate_fields(component_effective_id(Components[i]), Components[i]))
    /\ UNCHANGED <<config, resolved, work, ids, tracker, overlay, order>>

-----------------------------------------------------------------------------
(* Stage 8: entity ids.                                                                          *)

\* First pass: the ids that are given, each at most once and each a string.
CollectIds ==
    /\ stage = "CollectIds"
    /\ ids' = {Components[i].id : i \in {j \in DOMAIN Components : IsStr(Components[j].id)}}
    /\ Leave("CollectIds",
             \/ \E i \in DOMAIN Components : Components[i].id.tag = "num"
             \/ \E i, j \in DOMAIN Components :
                    i # j /\ IsStr(Components[i].id) /\ Components[i].id = Components[j].id)
    /\ UNCHANGED <<config, resolved, work, tracker, overlay, order>>

\* Mutation: the second entity of a name always gets the number 2.
make_unique_Second(base, table) ==
    IF base \notin table THEN base ELSE [base EXCEPT !.suffix = Append(@, 2)]

\* The base, or the base with the first free number from 2 on.
make_unique(base, table) ==
    LET Candidate(n) == [base EXCEPT !.suffix = Append(@, n)]
        free == {n \in 2..(Cardinality(table) + 2) : Candidate(n) \notin table}
    IN  IF base \notin table THEN base ELSE Candidate(First(free))

\* A text that is not in the table is its own slug.
slugify(name) ==
    IF name.tag = "placeholder" \/ name.text \notin DOMAIN Slug THEN Str(name.text)
    ELSE Value("str", Slug[name.text].text, Slug[name.text].suffix, 0)

\* Second pass: an entry with a name and no id gets one made from its name.
GenerateIds ==
    /\ stage = "GenerateIds"
    /\ IF cursor > Len(Components)
       THEN Leave("GenerateIds", FALSE) /\ UNCHANGED <<config, ids>>
       ELSE LET c == Components[cursor]
                id == make_unique(slugify(c.name), ids)
            IN
            /\ cursor' = cursor + 1
            /\ Loop(FALSE)
            /\ IF c.id = None /\ IsStr(c.name)
               THEN /\ config' = [config EXCEPT !.components[cursor].id = id]
                    /\ ids' = ids \cup {id}
               ELSE UNCHANGED <<config, ids>>
    /\ UNCHANGED <<resolved, work, tracker, overlay, order>>

\* Third pass: a field that refers to an id names one of the table.
check_cross_refs(c) == IsStr(c.ref) => c.ref \in ids \cup {Str("")}

CrossRefs ==
    /\ stage = "CrossRefs"
    /\ Leave("CrossRefs", \E i \in DOMAIN Components : ~check_cross_refs(Components[i]))
    /\ UNCHANGED <<config, resolved, work, ids, tracker, overlay, order>>

-----------------------------------------------------------------------------
(* Stage 9: rules across components.                                                             *)

Connected == Types \cap {"wifi", "ethernet"} # {}

\* Mutation: a component outside the bundle is an error instead of a warning.
validate_solution_Strict ==
    config.solution = "none"
        \/ (config.solution \in DOMAIN Solutions /\ Solutions[config.solution].required = Types)

\* The required components of a solution are looked for among the types that are written down.
validate_solution ==
    config.solution = "none"
        \/ (config.solution \in DOMAIN Solutions /\ Solutions[config.solution].required \subseteq Types)

\* The retries of a step take at most half the watchdog's time, for a solution that has a watchdog;
\* a step without a retry policy has the budget 0.
validate_orchestration_budget ==
    config.solution \in DOMAIN Solutions =>
        LET sol == Solutions[config.solution] IN
        sol.watchdog_ms # 0 =>
            \A step \in Range(sol.steps) : step.retry_budget_ms <= sol.watchdog_ms \div 2

validate_climate_visuals ==
    \A i \in PositionsOf(Components, "climate") :
        LET visual == Components[i].limits IN
        /\ {"min_temperature", "max_temperature"} \subseteq DOMAIN visual =>
              visual["min_temperature"] < visual["max_temperature"]
        /\ "temperature_step" \in DOMAIN visual => visual["temperature_step"] > 0

default_channels == <<4, 5, 6, 7, 15, 16, 17, 18>>

Channels(c) == IF c.channels = <<>> THEN default_channels ELSE c.channels

MAX_SAMPLE_RATE_HZ == 20000000
MAX_BUFFER_DEPTH == 200000

\* SigrokConfig::from_value: a number below 0 stands for whatever the field's type does not hold.
ParsesAsSigrok(c) ==
    /\ Range(Channels(c)) \subseteq 0..255
    /\ \A f \in {"sample_rate_hz", "max_sample_rate", "buffer_depth", "trigger_mode", "transport"} :
          f \in DOMAIN c.limits => c.limits[f] >= 0

\* The first sigrok entry, on a platform that is written esp32s3; strapping pins only warn.
validate_sigrok ==
    LET c == Components[First(PositionsOf(Components, "sigrok"))]
        channels == Channels(c)
    IN
    /\ config.platform = "esp32s3"
    /\ ParsesAsSigrok(c)
    /\ Len(channels) \in {8, 16}
    /\ IsInjective(channels)
    /\ Range(channels) \cap ({19, 20} \cup (26..32)) = {}
    /\ "sample_rate_hz" \in DOMAIN c.limits => c.limits["sample_rate_hz"] <= MAX_SAMPLE_RATE_HZ
    /\ "buffer_depth" \in DOMAIN c.limits => c.limits["buffer_depth"] <= MAX_BUFFER_DEPTH

stage_9_final_validation ==
    /\ stage = "FinalValidation"
    /\ Leave("FinalValidation",
             \/ Types \cap {"api", "ota", "mqtt"} # {} /\ ~Connected
             \/ ~validate_climate_visuals
             \/ ~validate_solution
             \/ ~validate_orchestration_budget
             \/ "sigrok" \in Types /\ ~validate_sigrok)
    /\ UNCHANGED <<config, resolved, work, ids, tracker, overlay, order>>

-----------------------------------------------------------------------------
(* Stage 10: GPIOs.                                                                              *)

FieldIndex(f) == CHOOSE k \in DOMAIN PinFields : PinFields[k] = f

\* The pins of an entry that are numbers of a byte; strings are passed over.
extract_pins(i) ==
    LET c == Components[i]
        fields == {f \in DOMAIN c.pins \cap Range(PinFields) :
                     c.pins[f].tag = "num" /\ c.pins[f].num \in 0..255}
    IN  {[gpio |-> c.pins[f].num, owner |-> i, field |-> f] : f \in fields}

\* Mutation: an input may read a GPIO that another component owns, and the other way round.
Taken_Outputs == {a.gpio : a \in {b \in tracker : b.field \notin InputFields}}

Taken == {a.gpio : a \in tracker}

\* A GPIO goes to the first field that asks for it, and is refused to every other.
stage_10_check_pin_conflicts ==
    /\ stage = "PinConflicts"
    /\ IF cursor > Len(Components)
       THEN Leave("PinConflicts", fatal) /\ UNCHANGED tracker
       ELSE LET usages == extract_pins(cursor)
                granted == {u \in usages : u.gpio \notin Taken /\ \A w \in usages :
                              w.gpio = u.gpio => FieldIndex(u.field) <= FieldIndex(w.field)}
            IN
            /\ tracker' = tracker \cup granted
            /\ cursor' = cursor + 1
            /\ Loop(granted # usages)
    /\ UNCHANGED <<config, resolved, work, ids, overlay, order>>

\* A strapping pin only warns.
validate_pin_capabilities(chip, a) ==
    LET caps == Capabilities[chip] IN
    /\ a.gpio <= caps.max_gpio
    /\ a.gpio \notin caps.flash_reserved
    /\ a.gpio \in caps.input_only => a.field \in InputFields

PinCapabilities ==
    /\ stage = "PinCapabilities"
    /\ Leave("PinCapabilities",
             \E a \in tracker : ~validate_pin_capabilities(PlatformChip[config.platform], a))
    /\ UNCHANGED <<config, resolved, work, ids, tracker, overlay, order>>

-----------------------------------------------------------------------------
(* Stages 11 to 13 and the result.                                                               *)

\* Stage 11 expands the selection again, to the same set.
stage_11_check_exclusive_groups ==
    /\ stage = "ExclusiveGroup"
    /\ Leave("ExclusiveGroup",
             \E a, b \in Loaded : /\ a # b
                                  /\ Registry[a].exclusive_group # "none"
                                  /\ Registry[a].exclusive_group = Registry[b].exclusive_group)
    /\ UNCHANGED <<config, resolved, work, ids, tracker, overlay, order>>

stage_12_validate_profile ==
    /\ stage = "ProfileValidation"
    /\ Leave("ProfileValidation",
             /\ config.profile # "none"
             /\ \/ config.profile \notin DOMAIN Profiles
                \/ ~(Profiles[config.profile] \subseteq resolved))
    /\ UNCHANGED <<config, resolved, work, ids, tracker, overlay, order>>

stage_13_check_secret_fields ==
    /\ stage = "SecretFields"
    /\ Leave("SecretFields",
             \E i \in DOMAIN Components :
                LET id == component_effective_id(Components[i]) IN
                /\ id \in DOMAIN Registry
                /\ Registry[id].secret_fields # {}
                /\ Components[i].secret = "plaintext")
    /\ UNCHANGED <<config, resolved, work, ids, tracker, overlay, order>>

\* Mutation: only declared dependencies are edges of the graph.
Prerequisites_Declared(id) ==
    IF id \in DOMAIN Registry THEN Registry[id].dependencies \cap resolved ELSE {}

\* What a component waits for, within the selection.
Prerequisites(id) ==
    IF id \in DOMAIN Registry
    THEN (Registry[id].auto_load \cup Registry[id].dependencies) \cap resolved
    ELSE {}

Ordered == Range(order)

\* The components of the graph that is built edge by edge: those nothing is connected to are not
\* in it.
HasEdge(id) ==
    Prerequisites(id) # {} \/ \E other \in resolved : id \in Prerequisites(other)

\* build_dag fails on a cycle. The graph is then built edge by edge, and compute_order appends
\* what is left when no component is free of prerequisites any more.
OrderWithCycle ==
    KeepOnly(order, {k \in DOMAIN order : HasEdge(order[k])}) \o SetToSeq(resolved \ Ordered)

\* The topological order of the dependency graph, one component at a time.
BuildDag ==
    /\ stage = "BuildDag"
    /\ LET ready == {id \in resolved \ Ordered : Prerequisites(id) \subseteq Ordered} IN
       IF ready # {}
       THEN /\ order' = Append(order, CHOOSE id \in ready : TRUE)
            /\ UNCHANGED <<stage, cursor, fatal, failed>>
       ELSE /\ order' = IF Ordered = resolved THEN order ELSE OrderWithCycle
            /\ Leave("BuildDag", FALSE)
    /\ UNCHANGED <<config, resolved, work, ids, tracker, overlay>>

\* A decided configuration stays decided.
Decided == stage \in {"Valid", "Invalid"}

Done == Decided /\ UNCHANGED vars

Next ==
    \/ stage_1_merge_packages
    \/ stage_2_apply_substitutions
    \/ stage_3_process_extend_remove
    \/ stage_3_5_resolve_variant
    \/ stage_4_resolve_external_components
    \/ stage_5_preload_esphome_block
    \/ stage_6_load_components
    \/ resolve_auto_load
    \/ CheckDependencies
    \/ stage_7_validate_schemas
    \/ CollectIds
    \/ GenerateIds
    \/ CrossRefs
    \/ stage_9_final_validation
    \/ stage_10_check_pin_conflicts
    \/ PinCapabilities
    \/ stage_11_check_exclusive_groups
    \/ stage_12_validate_profile
    \/ stage_13_check_secret_fields
    \/ BuildDag
    \/ Done

Spec == Init /\ [][Next]_vars

-----------------------------------------------------------------------------
(* Properties.                                                                                   *)

\* The stage is one of the pipeline's, the entries are a list of entries, and the work that is left
\* and the order so far are part of the selection.
TypeOK ==
    /\ {"components", "platform"} \subseteq DOMAIN config /\ IsEntryList(Components)
    /\ stage \in Range(StageSeq) \cup {"Invalid"}
    /\ fatal \in BOOLEAN
    /\ cursor \in Nat \ {0}
    /\ work \subseteq resolved
    /\ Ordered \subseteq resolved
    /\ failed = "none" <=> stage # "Invalid"

Accepted == stage = "Valid"

\* An accepted configuration contains what its components load and depend on, all the way down,
\* nothing that excludes something else in it, and at most one member of an exclusive group:
\* components that AUTO_LOAD pulls in are held to the same rules as the ones written down. Nothing
\* is in it that no entry of the list names or loads.
SelectionSound ==
    Accepted =>
        /\ Selected \subseteq resolved
        /\ resolved \subseteq DOMAIN Registry
        /\ \A id \in resolved :
              /\ id \in Selected \/ \E by \in resolved : id \in Registry[by].auto_load
              /\ Registry[id].auto_load \cup Registry[id].dependencies \subseteq resolved
              /\ Registry[id].conflicts_with \cap resolved = {}
              /\ \A other \in resolved \ {id} :
                    Registry[id].exclusive_group = "none"
                        \/ Registry[other].exclusive_group # Registry[id].exclusive_group

\* In an accepted configuration no two entries have the same id, every entry with a name has one,
\* given or generated, unless its id is written as null, and every reference reaches one: a
\* generated id never takes a name that another entry was given, though the names of two entities
\* may become the same slug.
EntityIdsResolve ==
    Accepted =>
        /\ \A i, j \in DOMAIN Components :
              i # j /\ IsStr(Components[i].id) => Components[i].id # Components[j].id
        /\ \A i \in DOMAIN Components :
              IsStr(Components[i].name) /\ Components[i].id # Null => IsStr(Components[i].id)
        /\ \A i \in DOMAIN Components :
              IsStr(Components[i].ref) /\ Components[i].ref # Str("") =>
                \E j \in DOMAIN Components : Components[j].id = Components[i].ref

\* The numeric GPIOs of an accepted configuration belong to one field of one component each, and
\* the chip has them for that use: the allocations the generated code is built from are complete.
PinsGranted ==
    Accepted =>
        LET all == UNION {extract_pins(i) : i \in DOMAIN Components}
            caps == Capabilities[PlatformChip[config.platform]]
        IN
        /\ tracker = all
        /\ \A a, b \in all : a.gpio = b.gpio => a = b
        /\ \A a \in all : /\ a.gpio \in 0..caps.max_gpio \ caps.flash_reserved
                          /\ a.field \in InputFields \/ a.gpio \notin caps.input_only

\* The initialisation order of an accepted configuration has every component once, after
\* everything it loads or depends on.
DependenciesFirst ==
    Accepted =>
        /\ Ordered = resolved /\ IsInjective(order)
        /\ \A k \in DOMAIN order :
              Registry[order[k]].auto_load \cup Registry[order[k]].dependencies
                \subseteq {order[j] : j \in 1..(k - 1)}

\* Stages still to come, and rounds a stage that is a loop has left at most. A round of stage 3
\* leaves the index up to two past the end of the list; a round of AUTO_LOAD takes one component
\* off the worklist and puts only such on it as were not loaded before.
StagesLeft(s) ==
    IF s = "Invalid" THEN 0 ELSE Len(StageSeq) - CHOOSE k \in 1..Len(StageSeq) : StageSeq[k] = s

RoundsLeft ==
    CASE stage = "PackageMerge" -> Len(config.packages) + 2 - cursor
      [] stage \in {"ExtendRemove", "GenerateIds", "PinConflicts"} -> Len(Components) + 2 - cursor
      [] stage = "AutoLoad" -> Cardinality(work) + Cardinality(DOMAIN Registry \ resolved)
      [] stage = "BuildDag" -> Cardinality(resolved \ Ordered)
      [] OTHER -> 0

\* The pipeline cannot go on forever: whatever directives take out of the list stage 3 walks over,
\* whatever packages and ids it grows by and whatever components load each other in circles, every
\* step either ends its stage for good or brings the end of its loop nearer.
StepsRunOut ==
    [][\/ StagesLeft(stage') < StagesLeft(stage)
       \/ stage' = stage /\ RoundsLeft' \in Nat /\ RoundsLeft' < RoundsLeft]_vars
=============================================================================
