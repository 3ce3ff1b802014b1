# TLA+ models of zt-edge

This directory specifies zt-edge (the `rshome-*` crates) in TLA+: its concurrent
core of sessions, manager, API server, actor runtime and workflow engine, and
the tools around it that turn a configuration into a firmware project, with the
component and solution catalogue they work on. TLC checks the modules on small
instances, TLAPS proves the safety properties and the two refinements for every
value of the constants. Paths below are relative to
`src/crates/`.

## 1. The system

zt-edge is a home-automation daemon made of actors. Each actor owns its state,
drains one mailbox, and may `await` inside a handler, during which its mailbox
only grows. Helper tasks (socket readers, timers, watchers) are detached: they
post messages and are rarely joined or cancelled.

| Component | State | Operations | Talks to | What is hard |
|---|---|---|---|---|
| device session (`rshome-device-link/session.rs`) | fsm with the socket's write half, entity actors, key maps, last firmware states, backoff counter | connect, handshake frames, state frames, reader closed, ping tick, relay and send command, stop | firmware over TCP, manager, device manager, entity actors | messages without a connection id, timers never cancelled, state kept across `connect().await` |
| device-link manager (`manager.rs`, `discovery.rs`) | discovery records, canonical records, two identity maps, sessions, restored devices, limits | mDNS found/removed, identity resolved, status changed, staleness check, seed, dispatch, stop | mDNS browser, sessions, MCP runtime | two ids per device, messages of an earlier session incarnation, caps |
| remote entity state (`session.rs`, `rshome-entity/entity_actor.rs`) | entity state, table of last firmware states | ingest, set state, command, update, relay | firmware, session, entity actor, state store | pushes and commands are told apart by value only |
| entity import and registry (`session.rs`, `rshome-entity`) | registry of actor refs and descriptors, devices with their entities | register, adopt, attach, remove | sessions, native API, services | shared by all sessions, entries outlive actors |
| actor runtime (`rshome-actor`) | task table, child handles, restart history | spawn, supervise, restart, stop, shutdown | everything | register/monitor/stop races, restart versus shutdown |
| state store and history (`rshome-state`) | state per entity with a watch channel; redb history | update, subscribe, snapshot, restore, record, query | entities, native API, MCP | watch semantics, time as key |
| native API server (`rshome-native-api`) | three connection slots; per connection a state, watchers, keepalive | accept, handshake, list, subscribe, command, disconnect | clients, state store, services | slot reuse, get-then-subscribe, keepalive |
| service registry (`rshome-svc`) | services | register, list, call | device manager, entities | nested asks, dead targets |
| workflow engine (`rshome-wf`) | workflows, runs, run-to-completion handles | create, delete, run, event, completed | services, entities | runs overlapping, partial failure |
| wasm host (`rshome-wasm-host`) | integrations, capabilities, budgets | load, start, call, unload | services, entities | life cycle, failing guests |
| MCP daemon and runtime (`rshome-mcp`) | composition of all of the above, snapshot on disk | tools, snapshot, restore | everything | restart and restore |
| configuration pipeline (`rshome-config`) | a document rewritten stage by stage; selected components, id table, pin allocations | substitution, packages, extend/remove, selection and AUTO_LOAD, dependencies, ids, cross references, pins, initialisation order | schema | loops over lists they change, closures, generated names that meet given ones |
| component schema (`rshome-schema`) | tables of components, chips, modules, assemblies, solutions | pure functions, graph layouts | | tables that must fit each other |
| project wizard (`rshome-wizard`) | the saved profiles of a workspace | validate pairs and pins, draw graphs | schema | verdicts over several boards, graphs of any selection |
| code generation (`rshome-codegen`) | none | text from a validated configuration | | |

Properties that make the modelled components correct:

* session: it always hears of the end of its connection; without a connection
  it always has an attempt to come; what it reports is what it is; entities of
  a stopped device, or of one whose loss was noticed, are Unavailable; once faults cease it becomes and
  stays Active;
* manager: identity maps are inverse to each other; every session is reachable
  for removal and none is leaked; tables stay within their caps; a quiet
  manager answers with what the session last reported; a session is stopped
  only for a reason;
* remote state: when nothing is in flight, a connected entity and its firmware
  agree, and the table of last firmware states is never behind what was ingested;
* native API and store: a watcher never forwards a value the store has
  replaced; the last push to a client is the entity's state; silent clients are
  dropped and stopping the server ends all connections, unless a handler awaits
  an answer that is lost; a client is refused only when the slots are in use;
* actor runtime: a mailbox has one reader, also across restarts; the task table
  has every loop that runs; the restart limit holds for every window of time; the
  stop of a parent ends the loops it was sent to, a shutdown reaches every actor
  that is not just being spawned or restarted;
* workflow engine: the status of a run is true; nothing of a deleted workflow is
  executed; a condition sees the writes of its own run; pipelines end;
* configuration: what is accepted is closed, free of conflicts, ordered, has
  unique ids and its GPIOs to itself; what the catalogue itself declares is
  accepted; every step brings the decision nearer;
* wizard: a workspace without findings works; every graph is drawn, with each
  node below everything it waits for.

`PROJECT.json` lists the hazards behind these, each at its line.

## 2. Modules

| Module | Models | EXTENDS |
|---|---|---|
| `SessionStages` | the stages of a session a manager can tell apart, and which follows which | |
| `SessionLifecycle` | abstract specification: a session moves along `Follows` | `SessionStages` |
| `DeviceSession` | `DeviceSessionActor`, its reader, sleeper and ticker tasks, network and firmware | |
| `DeviceSessionProofs` | inductive invariant; the single chain; `Spec => FollowsLifecycle` | `DeviceSession`, `TLAPS` |
| `DeviceLinkManager` | `DeviceLinkManagerActor` with sessions that follow `SessionStages` | `SessionStages` |
| `DeviceLinkManagerProofs` | inductive invariant; the status on file | `DeviceLinkManager`, `TLAPS` |
| `RemoteState` | one imported entity between firmware, session, updater and entity actor | |
| `RemoteStateProofs` | inductive invariant | `RemoteState`, `TLAPS` |
| `NativeApi` | `NativeApiServerActor`, `ConnectionActor` with its reader, ticker and watcher tasks, `StateStore` with its watch channel, for one entity | |
| `NativeApiProofs` | inductive invariant of the feed; the stop of the server | `NativeApi`, `TLAPS` |
| `ActorRuntime` | `ActorSystem`: spawn, loops, monitors, restart with its limit, parent stop, AllForOne, shutdown | |
| `ActorRuntimeProofs` | inductive invariant; the restart rate; stops and aborts | `ActorRuntime`, `TLAPS` |
| `RunLedger` | abstract specification: the runs of workflows as a client that polls sees them | |
| `WorkflowEngine` | `WorkflowEngineActor`, the pipeline runner, the state machine runner, `ServiceRegistryActor` and entity actors | |
| `WorkflowEngineProofs` | inductive invariant; `Spec => KeepsLedger`; machines and types | `WorkflowEngine`, `TLAPS` |
| `ConfigPipeline` | `ValidationPipeline::validate`, stage by stage | |
| `ConfigPipelineProofs` | inductive invariant of the pipeline and of its order; its steps run out; the least selection | `ConfigPipeline`, `TLAPS` |
| `ProjectWizard` | workspace validation and the graphs of the wizard | |
| `ProjectWizardProofs` | inductive invariant of a drawing, which is never stuck; what a clean verdict says | `ProjectWizard`, `TLAPS` |
| `ComponentCatalogue`, `PlatformCatalogue`, `AssemblyCatalogue` | the tables of components, chips and modules, board assemblies | each extends the one before |
| `SolutionHelpers`, `VehicleSolutions`, `DeviceSolutions` | the catalogue of solutions | `AssemblyCatalogue`, `SolutionHelpers` |
| `MC*` | instances for TLC: concrete sets and symmetry | |

`SessionLifecycle` is the contract that joins the first two components: the
session is shown to implement it (checked in `session_safety`, proved in
`DeviceSessionProofs`), and the manager model lets its sessions do exactly
what `Follows` allows, so the manager's results do not rest on a guess about
sessions.

`RunLedger` is what a client of the workflow engine may rely on when it polls
`GetRunStatus`: a run is entered for a workflow that is defined, settled once
and for good, a workflow is forgotten only when none of its runs is open and
its identifier never comes back, and an engine that stopped changes nothing any
more. `WorkflowEngine` implements it with the mapping `Ledger` (checked in
`workflow`, proved in `WorkflowEngineProofs`).

### DeviceSession

State and code: `fsm` is `SessionFsm` with `HandshakePhase` folded in; `writer`
is the connection whose `FrameWriter` the fsm owns (in Rust, overwriting the fsm
drops it); `connecting` holds while the handler awaits `TcpStream::connect`;
`refs`, `firmware`, `attempts` are `entity_refs`, the keys of
`firmware_states`, `reconnect_attempts`; `shown` is the last `EntityState` given
to each entity actor; `reported` the last status sent. `mail` is the mailbox.
`timers`, `tickers`, `reader` are the detached tasks.

One action per message and phase: `ConnectBegin`, `ConnectOk`, `ConnectFail`
split `connect_and_send_hello` at its await; `HelloReceived` ... `StateReceived`
are the arms of `handle_handshake` and `handle_active`; the three `ListDone*`
actions are `finalize_entities` followed by the tail of the ListDone arm
(`EnterActive`), which runs even when the import gave up. An import over the
entity limit is split at the awaited SUBSCRIBE_STATES: `ListDoneOverCap` reports
Backoff, starts a sleeper and leaves the session `Refused` (the code's fsm is
Reconnecting, but the handler holds the writer), `SubscribedRefused` goes on to
Active. `SessionStages` has the stage for it, so the manager meets Backoff followed
by Active: Backoff does not always mean that the connection was lost. `post_stop`
ends the actor: children stopped, entities marked, mailbox dropped.
Messages carry no connection id in the code. The field `conn` is history, read
by properties and by the environment only.

Abstracted: frame contents, the Noise transport (a failed handshake is a failed
connect), FNV keys (a frame names its entity), entities of an unregistered
domain (never imported), `last_activity_at` (only whether it is older than the
timeout). `attempts` saturates at `MaxAttempts`, as the delay does in
`backoff_delay`.

### DeviceLinkManager

`discovered`, `canonical`, `p2c`, `c2p`, `restored`, `sessions` are the fields
of `DeviceLinkManagerActor`; of a canonical record only the status is kept. Each
session actor is an incarnation `i` with a `stage`; messages to the manager carry
the provisional id only, as in the code. `is_stale` is left out: the
staleness check sets it on every record that it evicts a line later. `Canon[p]`
is the set of identities sessions for record `p` may resolve: one element for a
stable network, several when boards are exchanged. `RemovalId[p]` is the id
under which mDNS announces that `p` is gone: always that of the host name, while the
record is named by the `mac` of its TXT record when there is one. A removal
therefore reaches records that are named by host and no others; the ones named
by MAC stay until they are evicted.

### RemoteState

`fw` is the firmware's value, `up` and `down` the frames on the wire,
`firmware_state` the entry of the shared table, `inbox` and `state` the entity
actor's, `relay` the path from the updater back to the session. `Values` are
states that `state_to_command` turns into a command and that the firmware
reports back unchanged, which is a switch's on and off. For domains without a
command (sensors) `state_to_command` returns `None` and `relay` has no effect.
Every domain refuses a command while the entity is Unavailable.

A connection is left in two ways. `Disconnect` is a loss that the session
notices (ReaderClosed, a bad frame, silence): the entity is marked and its table
entry dropped. `Replaced` is the Reconnect of a second chain that reaches an
Active session: the connection is given up for another or, when the connect
fails, for none, and nothing is marked. `marked` is history and says which of
the two the last one was. `QuiescentAgreement` promises Unavailable after
the first only: after the second, TLC finds a disconnected entity that goes on
showing a value. Frames that a replaced connection still
delivers when its successor is already Active are left out: they carry no
connection id and are ingested like its own.

### NativeApi

`slots` are the filled entries of `connections`; `conn` is `ConnState` with the
stages before and after the actor; `told` is the stop signal of the parent's
actor loop, seen between two messages. `stored` and `chan` are the two halves
of a store entry: `update` always writes the first, but the watch channel
takes a value only while it has receivers. A watcher is `spawned` by
SubscribeStates after the current state was pushed, is `listening` from its
first run (`StateStore::subscribe`, which counts the present value as seen), is
`aborted` by `post_stop` and `ended` when the runtime drops it with its
receiver. `WatcherSees` and `WatcherSends` split its loop, so that two watchers
of one connection can overtake each other. `covered` is a history variable: the
present value was pushed by SubscribeStates, or stored while a watcher
listened. What is stored between the push and the subscription is not covered;
the code loses it until the next update, and TLC refutes `LastPushWins`
without that exception.

Listing entities and commands await an answer inside the handler: from every
entity's actor, or from the service registry. Such a frame is an `ask`.
`asking` is `open` until the answer, or an error, returns (`Answered`), and `lost` when the
one asked ended with the question in a mailbox that somebody still holds
(`QuestionLost`); `ask` has no timeout, so a lost one holds the actor for
good. While it waits it takes neither messages nor the stop signal.

Abstracted: what lists and commands contain; pings and device info only
renew `last_activity`; `idle` is whether that is older than 30 s; one pending
keepalive tick stands for several; writes to the socket complete. The fields of
an actor that ended are reset, since nothing reads them any more.

### ActorRuntime

A child is a `loop` per incarnation, a monitor `mon`, an entry in `tasks` and a
`handle` in the parent's list. Spawning is split where the code is:
`SpawnLoop`, `register`, `SpawnMonitor` and `PushHandle`, for the loop may run as
soon as it is spawned. A restart is split at `pre_restart().await` and at each
lock: `MonitorRestarts`, `RestartLoop`, `RestartRegister`, `SwapHandle`,
`MonitorResumes`. What an actor does with a message is that it goes on, stops
itself or panics. `restarts`, `late` and `owed` are history.

What the model shows about the code, beside its properties: an actor's context
keeps a sender to its own mailbox, so the loop's exit for "all ActorRefs
dropped" cannot be taken and is no action; the second deregistration, by the
monitor, is what keeps the table exact when a loop ends before its own
registration; a stop sent while a child is between two incarnations goes to the
dead one, and a child that has the stop on its channel may take a message
first, panic on it and be restarted on a fresh channel, so both outlive their
parent (`owed` is what was told, and `StopReachesChildren` excepts the panic); a
child that is spawned or restarted while shutdown drains the table survives it
(`late` excepts exactly these); a handle that is pushed after the monitor has returned stays in the parent's list, and a typed
child that panics before its handle is there is not restarted.

### WorkflowEngine

`workflows`, `runs`, `rtc_runs` are the engine's maps. The engine awaits inside
its handlers: `busy` is the run whose actions the handler of `Run` or
`DispatchEvent` executes, and no other message is taken meanwhile. A pipeline
has a task. Both execute steps the same way, as in the code, where the machine
uses the pipeline's runner: `at` says where the executor of a run is (`ready`,
`asked` an entity, `calling` the registry, `lost` with a question nobody
answers, `done`). `ServiceCall` waits for the registry, which sends the command
to every target before it answers; conditions are questions in the mailbox of
the entity.

Abstracted: expressions (the value they compare with), delays (they end), the
domain of the entities (a switch). `List`, `Get` and `GetRunStatus` only read.
Found while modelling, some of it the exceptions of the properties: a second
run of a state machine replaces the handle of the first, which then stays
Running and keeps its workflow from being deleted; a machine whose first state
is terminal stays Running until any event; a question in the mailbox of an
entity that ended may hang, since `ask` has no timeout and the channel keeps its
queue while a reference lives, and when a machine asked it the engine hangs too.

### ConfigPipeline and the catalogue

One action per stage, in the order of `validate`; stages that are loops take a
step per iteration, and `fatal` and `failed` follow `push_error` and the checks
after each stage. The catalogue modules hold the tables with the fields that
some stage, validator or graph reads; a solution is written with the helpers
its source is written with. Slugs are a constant function, since only equality of
ids matters; a placeholder is a variable's name.

The numeric settings that stage 9 compares (the visual range of a climate entity,
sample rate and buffer depth of the logic analyser) are `limits` of an entry, and
`ParsesAsSigrok` says which entries deserialize. `BuildDag` orders the graph one
component at a time; when the rest waits for each other, `build_dag` fails and
the order is made edge by edge (`OrderWithCycle`), without the components no
edge touches.

Abstracted: warnings, flags that only select templates, placeholders within a
longer text, `validate_partial` (a prefix of the stages). Three effects stay
visible. The loop of stage 3 takes entries out of the list it walks, so a
directive can be jumped over. Stage 6 then rejects it as an unknown component,
but for one case: a directive that carries a `platform` of the registry is taken
for that component and is accepted, although the stage's comment says that all
directive entries are removed (`s3_extend_remove.rs:10`, `:44`). An id written as null is none to the first pass of stage
8 and one to the second, so a named entity can be accepted without an id;
`EntityIdsResolve` excepts exactly these. And stage 10 sees numeric pins only, so
the channels of the logic analyser and pins that a substitution made a string
are not tracked (`PinsGranted` speaks of numeric pins).

### ProjectWizard

`profiles` is the workspace in the order of saving. `validate_pairs` compares a
transmitter's telemetry only with the first receiver of its uplink, so the
verdict depends on that order (`validate_pairs` and `detect_conflicts` work on
positions, so that two equal profiles are two boards); a receiver whose uplink no transmitter of the
catalogue has is never clean. A drawing is a graph (`from_steps`,
`from_components`, `from_registry`) that is laid out one node at a time in any
order (`PlaceNode`): `depth` is the stage, `pred` what the critical path walks
back. With an empty selection `set_target` is a second root of the build graph,
which `LayoutSound` excepts.

## 3. Runs

`config_pipeline` and `project_wizard` check for deadlock; the other runs say
`CHECK_DEADLOCK FALSE`, for an actor that was stopped, or an instance at the
bound of its incarnations or runs, rightly has nothing left to do.

| Run | Expect | What it shows |
|---|---|---|
| `session_safety` | pass | all safety properties and the refinement, under every fault, 3 connections, 1 entity, two chains |
| `session_recovery` | pass | one chain at all times; Active for good once faults cease |
| `manager_safety` | pass | maps inverse, records cover sessions, no leak, and in a quiet manager the last reported status; three records of one board, one of them out of a removal's reach, and room for two sessions, so that a record is stored while the session table is full |
| `manager_collapse` | violation | a reconnecting device is stopped as its own duplicate |
| `remote_agreement` | pass | a quiet system agrees with the firmware, the table is current; noticed losses and overlapping reconnects |
| `native_feed` | pass | pushes are current, the last push wins; a client that subscribes twice |
| `native_server` | pass | silent clients dropped, watchers released, stop ends everything but a handler whose question is lost; two clients, one slot |
| `native_slots` | violation | a client is refused although no connection is active |
| `actor_runtime` | pass | one reader per mailbox, exact table, bounded restarts; a stop ends what it was sent to, shutdown every actor but the ones in between; a restarted child beside an AllForOne child |
| `workflow` | pass | true statuses, quiet deleted workflows, own writes seen, the ledger of runs implemented, pipelines end; a pipeline and two machines on one entity that may end or be removed |
| `config_pipeline` | pass | what is accepted is sound, the catalogue is accepted, every step brings the end nearer; lists of a pool of 18 entries, every bundle |
| `project_wizard` | pass | a clean workspace works, every graph is drawn soundly; workspaces of three boards, every solution's graphs |

Types are proved and not run: where a module has a `TypeOK`, the theorem
`TypeCorrect` of its proof module states it for all constants.

The violation runs each check one sentence of the code's own comments, quoted
in `PROJECT.json`.

Bounds. Three connections are a current one, one whose reader has not noticed
its end, and a new one; an identity is reused once nothing refers to it. Two
chains (`MaxChains`) are enough for chains to interfere; the environment starts
a new one only below the bound, while the code's own steps are never cut off.
`MaxFrames` limits frames waiting, so that stale frames meet a new handshake.
Two incarnations and three records of one board cover a duplicate, a removal
followed by a rediscovery, and a record that no removal reaches; the session cap
lies below the record cap, so that it binds. That neither cap is exceeded is
proved (`CapsRespected`) and not run: an instance in which both bind, by a
discovery and by a seed, has more states than a run can visit. `MaxQueue` 3 lets pushes and commands
overtake each other on the way to and from the entity. Two subscriptions (`MaxWatch`) of one connection are the
case in which pushes overtake each other; one slot and two clients show
admission, refusal and a slot whose connection has ended. `MaxMail` bounds a
mailbox when a frame arrives or the entity changes, not what actors and tasks
post by themselves; the proofs hold for all of these. Three incarnations of an
actor with one restart in two ticks reach a second restart after the window, and
the refusal within it. Two runs are enough for a run to supersede another, for
a pipeline beside a machine that blocks the engine, and for a deletion between
them; the definitions have a transition of every guard, a missing target, a
failing action and a machine without states. Configurations are every list of
up to three entries of the pool, of up to two with a package that brings
substitutions and components, and every bundle of the catalogue with each
variant on each of its modules: the pool has names with the same slug, ids that
look generated, an id that is null, pins that clash, directives, an exclusive
group, untrusted sources and numbers at and past the limits of stage 9; a solution
whose retries outlast half its watchdog stands beside the catalogue's. Workspaces of three boards are a transmitter and two receivers in
both orders. Symmetry is used for connections, incarnations, interchangeable
host names and values in invariant runs, and for connections in `session_safety`,
whose one PROPERTY is a safety property; never with fairness.

Fairness. `DeviceSession!FairSpec`: the actor handles its mail and a connect
returns (the tokio scheduler, the OS connect timeout), sleepers wake, a
connection whose writer was dropped ends, and the firmware answers the request
it was sent. Failing connects, losses and bad frames are `Fault` steps with no
fairness, and Recovery only promises something once they cease. A firmware that
never answers is outside that promise: the handshake has no timeout.
`NativeApi!FairSpec`: a connection actor with mail or a stop signal runs, its
ticker ticks, its watcher tasks are scheduled. Nothing is assumed of clients,
of entities, or that 30 s ever pass. A question is answered or lost, and the
two properties except a connection whose question is lost. The stop signal
is under strong fairness, for it is seen between two messages and `select!`
picks among ready branches at random. That an actor with mail always gets on
assumes writes complete: a client that keeps its socket open and reads
nothing blocks the actor in `send_frame`, and its keepalive with it.

`ActorRuntime!FairSpec`: loops, monitors and a parent in the middle of a spawn
run (tokio's scheduler; `select!` picks among ready branches at random, so a
stop or an abort is seen sooner or later); nothing is assumed of messages,
panics or the clock. `WorkflowEngine!FairSpec`: executors, the registry and
entity actors run; a report to the engine is handled under strong fairness,
because the engine's mailbox is in order but the handler before it may take any
time. Nothing makes an abandoned question end. The drawing of
`ProjectWizard` is a call that runs until it returns (WF).

Statements TLC refutes that are described here and are no runs: after an
inactivity timeout the session has two reconnect chains (`session.rs:1024`),
which can tear down each other's connection for ever; a push the entity has
already left again is relayed to the firmware as a command (`session.rs:66`,
`:875`); a command equal to the last push is not relayed, so the first of two
quick commands may stay in force; a restored
device stays in one of the two tables (it leaves the restored one before an
early return); echoed pushes die out (two can chase each other for ever). Six more
contradict a sentence of the code:

| Statement | Where the code says it | What the code does |
|---|---|---|
| a session that reports Backoff has no connection (`reported = "Backoff" => writer = NoConn`) | `manager.rs:24` | an import over the entity limit schedules a reconnect and keeps the connection (`session.rs:702`) |
| the removal of a session that is not Active leaves nothing of it | `manager.rs:490` | a removal names the host (`discovery.rs:136`), a record may be named by its MAC (`discovery.rs:176`), so nothing is found to clean up |
| a disconnected entity with nothing in flight is Unavailable | `session.rs:206` | a second chain replaces the connection without marking the entities (`session.rs:406`), also when its connect then fails |
| all children end with their parent | `system.rs:242` | a child that panics with the stop on its channel is restarted with a new channel (`system.rs:486`) |
| an accepted configuration holds no directive | `s3_extend_remove.rs:10`, `:44` | the entry after a removed one is jumped over: `wifi`, `!remove wifi`, `!extend sensor` with `platform: dht` is accepted with the directive as a sensor |
| every named entity has an id | `s8_id_resolution.rs:5`, `:72` | an entity with `id: null` gets none (`s8_id_resolution.rs:62`, `:74`) |

## 4. Proofs

`DeviceSessionProofs` proves `Spec => []Inv`. The properties are almost
inductive together; what they need besides the types is `WriterOwned` (the
session holds a writer exactly in the connected states), without which a lost
connection could not be told from one that was replaced. From `Inv` follow
`TypeOK`, `WriterHasReader`, `ReconnectPending`, `ReportMatchesFsm`,
`FirmwareEntriesAreShown`, `StoppedMeansUnavailable` and `ActiveResetsBackoff`
for all constants that satisfy `ConstantsAssumption`. The environment's actions
are reduced once to a common shape (`EnvironmentShape`), as are the actor's
(`ActorShape`), so that each invariant is proved over few cases. Mailbox facts
rest on two lemmas about `Head`, `Tail` and `Append` (`TailKeeps`,
`AppendKeeps`).

`SingleChain` is proved there under `OneChainFaults`, which leaves out the three
faults with which the code does start a second chain while the reader of the
first is alive: silence (`PingTick` schedules a reconnect and the reader of
the abandoned connection does so again), a DeviceInfo that does not decode, and an
import over the entity limit. All others stay in: lost connections, failed
connects, malformed and unexpected frames, refused logins, notices of old
connections. `ChainInv` counts sleepers, queued Connect, Reconnect, ReaderClosed and
FrameError messages, the connect under way and reading readers: their sum is 1
until the session stops, and nothing that would start another is under way
(`Sedate`). `ChainMoves` lists the ways a step can pass the chain on; lemmas on the
cardinality of the queued links say what taking and posting a message does to it.

The theorem `Refinement` is `Spec => FollowsLifecycle`: every step leaves
the mapped stage alone or moves it along `Follows`, which lets a session that was
refused its import go from the report of Backoff to Active. Besides `Inv` it needs that
an idle session's mailbox starts with Connect (`ConnectFirst`) and that
only a stopped session was refused (`Ended`).

`DeviceLinkManagerProofs` proves `Spec => []Inv` and from it `TypeOK`,
`NoLeakedSession`, `RecordsCoverSessions` and, with a lemma on cardinalities,
`CapsRespected`, for every set of ids, records and incarnations and all caps.
The strengthening is `Born` (a session that was started has a record's id) and
`Announced` (an identity in the mailbox is one its record may resolve).
`MapsInverse` is proved under `StableIdentity` (all sessions of a record resolve
one identity), with `Filed` (the forward map agrees with `Canon`). The
assumption cannot be dropped: when the board behind a host name is exchanged,
the new identity replaces the forward entry and leaves the old canonical record
and its reverse entry, so TLC refutes `MapsInverse` for `Canon[h1] = {m1, m2}`.

`QuiescentStatus` is proved under `StableIdentity` and `OwnNames` (no record has
the canonical id of another). `StoryInv` says what the mailbox holds between the
status on file and the stage of the session: reading it from the front, the reports
of this session lead from the one to the other (`Story`), so with an empty
mailbox they are equal. It needs that a report comes from a session that
was started (`Senders`), that one that was not has no id (`Unborn`) and that the
table lists every session under its own id (`Listed`).
`OwnNames` cannot be dropped: discovery names a record by its MAC when the TXT
record has one (`discovery.rs:176`), and if the same board is known under a host name
as well, the status of the first session is filed under the second one's
entry. That a record was started once, a premise of the property itself, cannot be
dropped either: messages carry no incarnation.

`NativeApiProofs` proves `Spec => []Inv` and from it `TypeOK`,
`PushedIsCurrent` and `LastPushWins`, for any number of connections,
subscriptions, slots and values. The heart is `Reaches`: if the present value is
covered, then a watcher has still to look, or holds it, or it is the last state
message in the mailbox, or the mailbox has none and it was the last frame. For
a step to keep this one has to know that what a watcher holds is current unless it
will look again (`HeldIsCurrent`), that a state message means a watcher still
listens (`Traced`), and that nothing is under way to a connection that is not
covered (`Uncovered`). Two lemmas on mailboxes (`OtherMessages`,
`StateMessages`) say how the last state message moves.

`EndsCalled` is what `StopEndsConnections` and `WatchersReleased` rest on
besides fairness: with the server down no stream is in its mailbox and every
connection that lives has the stop signal; a connection that ended has no task
that listens to the store or is about to. That a connection may be accepted while
the server stops is why it needs an invariant: `Onward` says how a step moves a
connection under a server that stays as it is, `Fresh` that nothing comes in
before the port is bound.

`RemoteStateProofs` proves `Spec => []Inv` and from it `TypeOK`,
`QuiescentAgreement` and `TableCurrent`, for any set of values and any length of
the queues. Whatever mix of pushes and commands waits for the entity, the last
push among it is the value in the table (`LastSetCurrent`), and an entity that
has handled its pushes shows that value unless a command that changes the
firmware is still under way (`Deviation`). `PushesCurrent` and `Disconnected`
tie the table to the firmware.

`ActorRuntimeProofs` proves `Spec => []Inv` and from it `TypeOK`,
`OneLoopPerActor` and `TableExact`, for any number of children, incarnations and
messages and any limits. Only the monitor makes incarnations, after the join of
the one before: those before the watched one are over, those after it unborn
(`Order`, with `Spawned` for the time before the monitor). `Entries` says which
of them may have an entry, `Entered` that a living loop has one.
`RestartRateBounded` is about all restarts of a child, while the code only keeps
those within the window. `Remembers` relates the two: what is kept are the
last restarts of the history, and those before them are expired. As the
history ascends, what `retain` drops is a prefix (`DroppedFirst`), so a restart
that was allowed with fewer than `max_restarts` remembered is `within_secs`
behind the one `max_restarts` before it.

`StopSent` and `AbortSent` are the safety halves of `StopReachesChildren` and
`ShutdownEndsActors`: a child that was running under its handle when the
parent ended has the stop on the channel of the incarnation that runs, and after
a shutdown every loop that runs has been aborted and none is started again, but for the
children in `late`. `ToldInv` adds to `Inv` where the handle points in every
state of the monitor (`Handled`), that a child shutdown did not miss has
neither a restart nor a spawn to come (`Drained`), and that a stop that is owed was
sent (`Owing`), which stays true because no incarnation comes back to life
(`LoopsAge`). What is left to TLC is that a loop that was told ends. An
incarnation that panics before it sees the stop is followed by one that was not
told; both say nothing of that one.

`WorkflowEngineProofs` proves `Spec => []Inv` and from it `StatusTrue`,
`DeletedIsQuiet` and `OwnWritesSeen`, for any workflows, definitions, entities
and number of runs. A status can be true only because a run has one owner at a
time: the task (`Executors`), its report (`Reported`), the handler (`Busy`) or the
handle of its machine (`Kept`); `Owned` is the converse, `Deleted` ties runs to
workflows. That an owner is woken at most once rests on the mailboxes: a run has
one question or one call under way, only while it waits for it, and nothing of
it is behind the question (`Mail`). The steps are first reduced to their effect
on owners and statuses (`Effect`), over which each part is proved; what a
definition contains is not looked at for these.

It is for `MachinesPlaced` and `TypeOK`, which come from `MachineInv`. The engine
stores definitions unchecked, so a transition may name a state that does not
exist, and `dispatch` has an error for a machine whose own state is not found
(`rtc.rs:45`). `DispatchEvent` has no such case, and `MachinesPlaced` shows that it
needs none: a machine starts in a state of its definition and moves to one
that was looked up. The rest follows a value from the definition through the
steps a run has left (`Work`), the registry's mailbox (`CallsTyped`) and the
mailboxes of entities (`MailTyped`) to their states; an executor that is answered still
has the step it asked for. `DefinitionsAssumption` says what the deserializer
and `command_for_service` let through: steps, states and transitions are lists, a state
that is set was parsed or cannot be used, a service is a command of the switch or none.

`LedgerRefinement` is `Spec => KeepsLedger`. The effects of the steps already say
which run they settle or enter and that its workflow is defined (a run that
is open keeps its workflow, `Deleted`); `SameLedger`, `SetLedger` and `AddLedger`
turn them into the values of `runs` as a sequence, and `LedgerStep` finds the
action of `RunLedger` or a stutter for each.

`ConfigPipelineProofs` proves `Spec => []PipelineInv` and from it `TypeOK`,
`SelectionSound`, `EntityIdsResolve` and `PinsGranted`, for every registry,
catalogue of solutions, table of chips and set of configurations. The parts
follow the data: `ControlInv` (loop variables), `ListInv` (the components stay a list of
entries through package merge, directives and variants), `SelInv` (after
stage 6 the worklist is all that is missing of the AUTO_LOAD closure; from the
checks on the selection passed them), `IdInv` (the table of ids is the ids of the
entries, which are distinct; `make_unique` finds a free number because
the table is finite; an entry with a name has an id or the id null), `PinInv` (the tracker holds what the entries before the
cursor asked for, one owner per GPIO). Each says from which stage on a fact holds
and that no later stage undoes it; `SelectedKept` is the lemma that nothing
after stage 3.5 changes the selection. `DependenciesFirst` is proved from `OrderInv`
under `Layered`: there is a numbering of the components in which everything a
component loads or depends on has a smaller number, so something is ready as
long as something is left (`SomethingReady`) and the order of a cycle is never made.
Without it `compute_order`
appends the members of a cycle as they come. TLC evaluates `LayeredBy(Depth)` for the
built-in catalogue (`CatalogueLayered`). The other assumptions say what
a well-formed table is: the registry is finite, loaded components are registered, and no component is called
like a directive (`RegistryAssumption`), configurations and packages hold lists
of entries and configurations a list of packages (`ConfigsAssumption`), slugs end in numbers (`SlugAssumption`),
variants are finite (`SolutionsAssumption`), chips have a last GPIO
(`CapabilitiesAssumption`).

`StepsRunOut` is a variant function for the whole pipeline: every step leaves
fewer stages, or stays in one that is a loop and leaves fewer rounds of it. So
every configuration is decided if the call is not abandoned.
Each loop has its lemma: the directive loop
advances its index or shortens its list (`cursor` may pass the end by two), a round of AUTO_LOAD moves
components from the registry to the worklist and takes one off it (`LoadRound`), a
round of the order places one component (`DagRound`).
`LeastSelection` sharpens `SelectionSound`: that
every component is written down or loaded by a selected one still allows two
that load each other and that nobody asked for; proved is that the selection is
contained in every set that holds what is written down and is closed under
AUTO_LOAD. It quantifies over all sets, so it is no property of a run.

`ProjectWizardProofs` proves `LayoutSound` and `CleanWorkspaceWorks` for every
catalogue that is finite and closed under AUTO_LOAD (`CatalogueAssumption`), with no
uplink named "(unset)" (`UplinksAssumption`), and workspaces of any size.
`LayoutInv` says of every placed node that its predecessors are placed above it, one of
them directly (`PlacedAt`), and that the longest chain that ends in it has as many
edges as its layer (`LongestAt`). The lengths are a recursive function of the graph, and so
is the AUTO_LOAD closure; that these functions exist and satisfy their equations
is proved by a smallest counterexample (`LeastNumber`, `Iterates`, from the
library's theorem on minimal elements). `CleanWorkspaceWorks` needs no more of a
state than that `profiles` is a list: `PairsClean` and `PinsClean` turn an empty
list of findings into what it says of each board, and `SameUplinkSpeaks` relates the
names the validator compares to the uplinks themselves.

`DrawingGoesOn` is the safety half of `EveryGraphDrawn`: until all nodes are placed,
one is left that waits for nothing unplaced. It is proved for a registry that
is layered and solutions whose steps come after what they depend on
(`LayeredBy`, `InOrder`), and for selections in which no component is called like
a stage of a build. TLC evaluates these conditions for the built-in catalogue
(`CatalogueInOrder`, `SelectionsDistinct` in `MCProjectWizard`). `StepsAcyclic`,
`BuildAcyclic` and `ComponentsAcyclic` give each of the three kinds of graph a
numbering that grows along its edges; of the nodes not placed the one with the least number
is next.

Only model-checked: `CatalogueAccepted`, a fact about the tables of this
catalogue and not about every value of the constants; and everything live
(`Recovery`, the three of `native_server`, `StopReachesChildren`,
`ShutdownEndsActors`, `PipelinesEnd`, `EveryGraphDrawn`), since
fairness is outside TLAPS. Of most of these the part without fairness is proved:

| Live property | What is proved of it |
|---|---|
| `Recovery` | `ReconnectPending`, `SingleChain`: without a connection one attempt is to come, and no second chain |
| `StopEndsConnections`, `WatchersReleased` | `EndsCalled` |
| `StopReachesChildren`, `ShutdownEndsActors` | `StopSent`, `AbortSent` |
| `EveryGraphDrawn` | `DrawingGoesOn` |

`SilentClientDropped` and `PipelinesEnd` have no such part stated: they follow from
the next tick, and from each step of a run in turn, being taken.

## 5. Not modelled, and the plan

Not modelled for good: text generation (`rshome-codegen`), wire formats and
cryptography, the formatting of MCP answers and of the wizard's JSON, labels and
prices of the catalogue, guests of the wasm host, which are not in the
repository.

Left out so far, in the order in which they would be worth adding:

1. `EntityImport`: two sessions, the shared registry and the device actor:
   adoption of dead or restored actors, the global entity limit checked before
   registering, key maps of an earlier firmware. The hazards without a property
   are mostly here.
2. The manager's security configuration, set after sessions were spawned.
3. The history of the state store (its key is a time), and snapshot and restore
   in the MCP runtime.
4. The life cycle of a wasm integration and its capability checks.
5. Service calls by device and the native API's command dispatch.
6. An abstract specification of the configuration pipeline (accept exactly the
   sound configurations) with a refinement; the theorems say that what is
   accepted is sound, not that what is sound is accepted.
