-------------------------------- MODULE ProjectWizard --------------------------------
(* The project wizard: a workspace of saved profiles, validated as a whole after every change,   *)
(* and the graphs it draws, which are laid out node by node. The functions keep no state of      *)
(* their own; the workspace is what the user has saved, and a drawing is a call that runs until  *)
(* it is done.                                                                                   *)
EXTENDS Integers, Sequences, FiniteSets, SequencesExt, FiniteSetsExt

CONSTANTS
    Registry,       \* component id -> definition
    Solutions,      \* solution id -> definition
    Uplinks,        \* control uplink kind -> its name in parameters
    Offered,        \* the profiles a user may save
    Selections,     \* the component lists that graphs are drawn for
    MaxProfiles     \* bound: profiles of a workspace

\* The catalogue is finite, and what a component loads is in it; an uplink has a name.
ASSUME CatalogueAssumption ==
    /\ IsFiniteSet(DOMAIN Registry)
    /\ \A id \in DOMAIN Registry : Registry[id].auto_load \subseteq DOMAIN Registry
    /\ \A ids \in Selections : IsFiniteSet(ids)
    /\ \A id \in DOMAIN Solutions : Solutions[id].steps \in Seq(Range(Solutions[id].steps))

VARIABLES
    profiles,  \* the saved profiles
    graph,     \* the graph being drawn: nodes and edges
    depth,     \* layer of the nodes placed so far
    pred       \* the predecessor each placed node is deepest behind, itself if it has none

vars == <<profiles, graph, depth, pred>>

-----------------------------------------------------------------------------
(* Workspace validation.                                                                         *)

Known(p) == p.solution \in DOMAIN Solutions

Sol(p) == Solutions[p.solution]

TxRoles == {"RemoteControlTx", "SmartphoneGateway"}
RxRoles == {"ControlBoard", "ControlTelemetryBoard", "AllInOneCam"}

\* The positions of the profiles whose solution has one of these roles.
OfRole(ws, roles) == {k \in DOMAIN ws : Known(ws[k]) /\ Sol(ws[k]).role \in roles}

Unset == "(unset)"

ASSUME UplinksAssumption == Unset \notin Range(Uplinks)

uplink_to_str(kind) == IF kind \in DOMAIN Uplinks THEN Uplinks[kind] ELSE Unset

\* The bridge speaks what its parameter says, every other solution what it declares.
effective_control_uplink(p) ==
    IF p.solution = "phone_bridge_solution" THEN p.protocol ELSE uplink_to_str(Sol(p).uplink)

Partners(ws, t) ==
    {r \in OfRole(ws, RxRoles) : uplink_to_str(Sol(ws[r]).uplink) # Unset /\
                                 uplink_to_str(Sol(ws[r]).uplink) = effective_control_uplink(ws[t])}

\* Telemetry is compared with the first receiver that agrees on the uplink.
TelemetryDiffers(t, r) ==
    /\ Sol(t).telemetry # "(absent)" /\ Sol(r).telemetry # "(absent)"
    /\ Sol(t).telemetry # Sol(r).telemetry

validate_pairs(ws) ==
    LET tx == OfRole(ws, TxRoles)
        rx == OfRole(ws, RxRoles)
        invalid == {t \in tx : effective_control_uplink(ws[t]) = Unset}
        alone == {t \in tx \ invalid : Partners(ws, t) = {}}
        differ == {t \in tx \ (invalid \cup alone) : TelemetryDiffers(ws[t], ws[Min(Partners(ws, t))])}
        unserved == {r \in rx : uplink_to_str(Sol(ws[r]).uplink) # Unset /\
                       \A t \in tx : effective_control_uplink(ws[t]) # uplink_to_str(Sol(ws[r]).uplink)}
    IN  {[kind |-> "ParameterizedUplinkInvalid", profile |-> ws[t]] : t \in invalid}
          \cup {[kind |-> "UnmatchedTxUplink", profile |-> ws[t]] : t \in alone}
          \cup {[kind |-> "ChainTelemetryMismatch", profile |-> ws[t]] : t \in differ}
          \cup {[kind |-> "UnmatchedRxUplink", profile |-> ws[r]] : r \in unserved}

\* Mutation: a chip that covers a solution with a caveat is passed over as well.
chip_is_compatible_PreferredOnly(sol, chip) ==
    chip \in DOMAIN sol.coverage => sol.coverage[chip] = "Preferred"

chip_is_compatible(sol, chip) ==
    chip \in DOMAIN sol.coverage => sol.coverage[chip] # "Insufficient"

\* The claims of the profiles at these positions on a chip's GPIOs, and the pairs of claims that
\* want different functions of one.
detect_conflicts(ws, resident, chip) ==
    LET claims == UNION {{[owner |-> k, gpio |-> pin.gpio, function |-> pin.function] :
                            pin \in Range(Sol(ws[k]).pins)} :
                         k \in {j \in resident : chip_is_compatible(Sol(ws[j]), chip)}}
    IN  {pair \in claims \X claims : /\ pair[1].gpio = pair[2].gpio
                                     /\ pair[1].function # pair[2].function}

validate_pin_conflicts(ws) ==
    UNION {LET resident == {k \in DOMAIN ws : Known(ws[k]) /\ ws[k].chip = chip} IN
           IF Cardinality(resident) < 2 THEN {}
           ELSE {[kind |-> "PinConflict", profile |-> ws[pair[1].owner]] :
                    pair \in detect_conflicts(ws, resident, chip)} :
           chip \in {ws[k].chip : k \in DOMAIN ws}}

validate_workspace(ws) ==
    {[kind |-> "UnknownSolution", profile |-> ws[k]] : k \in {j \in DOMAIN ws : ~Known(ws[j])}}
        \cup validate_pairs(ws) \cup validate_pin_conflicts(ws)

-----------------------------------------------------------------------------
(* Graphs. An edge goes from a prerequisite to what waits for it.                                *)

NoGraph == [nodes |-> {}, edges |-> {}]

\* Mutation: the inferred chain is closed to a ring.
LinearChain_Ring(steps) ==
    {<<steps[k].id, steps[(k % Len(steps)) + 1].id>> : k \in DOMAIN steps}

LinearChain(steps) == {<<steps[k - 1].id, steps[k].id>> : k \in 2..Len(steps)}

\* Steps that declare no dependency at all form a chain.
from_steps(steps) ==
    LET ids == {s.id : s \in Range(steps)}
        declared == UNION {{<<d, s.id>> : d \in s.deps \cap ids} : s \in Range(steps)}
    IN  [nodes |-> ids,
         edges |-> IF \A s \in Range(steps) : s.deps = {} THEN LinearChain(steps) ELSE declared]

BuildStages == {"validate", "set_target", "build", "flash", "size_report"}

\* The stages of a build; every selected component has a node of its own.
from_components(ids) ==
    [nodes |-> ids \cup BuildStages,
     edges |-> (UNION {{<<"validate", id>>, <<id, "set_target">>} : id \in ids})
                 \cup {<<"set_target", "build">>, <<"build", "flash">>, <<"build", "size_report">>}]

AutoLoadOf(S) == S \cup UNION {Registry[id].auto_load : id \in S \cap DOMAIN Registry}

\* The AUTO_LOAD closure of a selection, in as many rounds as there are components.
AutoLoadRounds(ids) ==
    LET rounds[n \in 0..Cardinality(DOMAIN Registry)] ==
            IF n = 0 THEN ids ELSE AutoLoadOf(rounds[n - 1])
    IN  rounds

Closure(ids) == AutoLoadRounds(ids)[Cardinality(DOMAIN Registry)]

from_registry(ids) ==
    LET nodes == Closure(ids) IN
    [nodes |-> nodes,
     edges |-> {e \in nodes \X nodes : /\ e[2] \in DOMAIN Registry
                                       /\ e[1] \in Registry[e[2]].auto_load \cup Registry[e[2]].dependencies}]

Placed == DOMAIN depth

Incoming(n) == {e[1] : e \in {d \in graph.edges : d[2] = n}}

\* Mutation: a node follows the first of its predecessors, not the last.
Behind_First(n) == {m \in Incoming(n) : \A k \in Incoming(n) : depth[m] <= depth[k]}

\* The predecessors of a node that lie deepest.
Behind(n) == {m \in Incoming(n) : \A k \in Incoming(n) : depth[m] >= depth[k]}

Extend(f, n, v) == [m \in DOMAIN f \cup {n} |-> IF m = n THEN v ELSE f[m]]

-----------------------------------------------------------------------------
(* What the user and the wizard do. The graphs do not read the workspace, so they are drawn for  *)
(* an empty one.                                                                                 *)

Init == profiles = <<>> /\ graph = NoGraph /\ depth = <<>> /\ pred = <<>>

SaveProfile ==
    /\ graph = NoGraph /\ Len(profiles) < MaxProfiles
    /\ \E p \in Offered : profiles' = Append(profiles, p)
    /\ UNCHANGED <<graph, depth, pred>>

RemoveProfile ==
    /\ \E k \in DOMAIN profiles : profiles' = RemoveAt(profiles, k)
    /\ UNCHANGED <<graph, depth, pred>>

Draw(g) ==
    /\ profiles = <<>> /\ graph = NoGraph /\ g.nodes # {}
    /\ graph' = g
    /\ UNCHANGED <<profiles, depth, pred>>

get_orchestration_dag == \E id \in DOMAIN Solutions : Draw(from_steps(Solutions[id].steps))

get_build_pipeline_dag == \E ids \in Selections : Draw(from_components(ids))

get_dependency_dag == \E ids \in Selections : Draw(from_registry(ids))

\* One node of the topological order: it goes one layer below its deepest predecessor.
PlaceNode ==
    /\ \E n \in graph.nodes \ Placed :
        /\ Incoming(n) \subseteq Placed
        /\ \/ /\ Incoming(n) = {}
              /\ depth' = Extend(depth, n, 0) /\ pred' = Extend(pred, n, n)
           \/ \E m \in Behind(n) :
                /\ depth' = Extend(depth, n, depth[m] + 1) /\ pred' = Extend(pred, n, m)
    /\ UNCHANGED <<profiles, graph>>

Finished == graph # NoGraph /\ Placed = graph.nodes

CloseGraph ==
    /\ Finished
    /\ graph' = NoGraph /\ depth' = <<>> /\ pred' = <<>>
    /\ UNCHANGED profiles

Next ==
    \/ SaveProfile
    \/ RemoveProfile
    \/ get_orchestration_dag
    \/ get_build_pipeline_dag
    \/ get_dependency_dag
    \/ PlaceNode
    \/ CloseGraph

Spec == Init /\ [][Next]_vars

\* A layout that was started is a loop that goes on.
FairSpec == Spec /\ WF_vars(PlaceNode)

-----------------------------------------------------------------------------
(* Catalogues without circles.                                                                   *)

\* Below the layer of a component is all that it loads or depends on.
LayeredBy(layer) ==
    \A id \in DOMAIN Registry :
        \A other \in (Registry[id].auto_load \cup Registry[id].dependencies) \cap DOMAIN Registry :
            layer[other] < layer[id]

\* No two steps have the same name, and what a step depends on comes before it.
InOrder(steps) ==
    \A j, k \in DOMAIN steps :
        /\ steps[j].id = steps[k].id => j = k
        /\ steps[j].id \in steps[k].deps => j < k

-----------------------------------------------------------------------------
(* Properties.                                                                                   *)

SpeaksTo(t, r) ==
    LET spoken == IF t.solution = "phone_bridge_solution" THEN t.protocol ELSE Uplinks[Sol(t).uplink]
    IN  spoken = Uplinks[Sol(r).uplink]

\* A workspace the validator finds nothing wrong with works: every transmitter has a receiver that
\* speaks its uplink and agrees on telemetry, every receiver with an uplink has a transmitter, and
\* no two boards that run on a chip ask different things of one of its GPIOs.
CleanWorkspaceWorks ==
    validate_workspace(profiles) = {} =>
        LET Is(k, roles) == Sol(profiles[k]).role \in roles IN
        \A k \in DOMAIN profiles :
            /\ Is(k, TxRoles) => \E j \in DOMAIN profiles :
                    /\ Is(j, RxRoles) /\ Sol(profiles[j]).uplink \in DOMAIN Uplinks
                    /\ SpeaksTo(profiles[k], profiles[j])
                    /\ ~TelemetryDiffers(profiles[k], profiles[j])
            /\ Is(k, RxRoles) /\ Sol(profiles[k]).uplink \in DOMAIN Uplinks =>
                    \E j \in DOMAIN profiles : Is(j, TxRoles) /\ SpeaksTo(profiles[j], profiles[k])
            /\ \A j \in DOMAIN profiles \ {k} :
                    profiles[j].chip = profiles[k].chip =>
                        \A a \in Range(Sol(profiles[j]).pins), b \in Range(Sol(profiles[k]).pins) :
                            a.gpio = b.gpio /\ a.function # b.function =>
                                \E i \in {j, k} : Sol(profiles[i]).coverage[profiles[i].chip] = "Insufficient"

\* The nodes an edge leads to from a set of nodes, and the nodes that end a chain of n edges.
Onward(g, S) == {e[2] : e \in {d \in g.edges : d[1] \in S}}

ChainEnds(g) ==
    LET after[n \in 0..(Cardinality(g.nodes) + 1)] ==
            IF n = 0 THEN g.nodes ELSE Onward(g, after[n - 1])
    IN  after

AfterChain == ChainEnds(graph)

\* In a finished drawing the layer of a node is the length of the longest chain that leads to it,
\* whatever order the nodes were placed in; the recorded predecessors are such a chain, so walking
\* back from a deepest node gives a critical path; and in a build nothing runs before or beside
\* the validation, unless no component was selected.
LayoutSound ==
    Finished =>
        /\ \A n \in graph.nodes :
              /\ n \in AfterChain[depth[n]] /\ n \notin AfterChain[depth[n] + 1]
              /\ IF depth[n] = 0 THEN pred[n] = n
                 ELSE <<pred[n], n>> \in graph.edges /\ depth[pred[n]] = depth[n] - 1
        /\ \A ids \in Selections \ {{}} :
              graph = from_components(ids) => \A n \in graph.nodes : depth[n] = 0 => n = "validate"

\* Every graph can be drawn: no solution's steps and no selection's components wait for each other
\* in a circle.
EveryGraphDrawn == graph # NoGraph ~> Finished
=============================================================================
