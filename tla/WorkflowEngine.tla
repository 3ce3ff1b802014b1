------------------------------- MODULE WorkflowEngine -------------------------------
(* The workflow engine with the actors its steps reach. The engine handles one message at a time *)
(* and awaits inside the handler: a state machine runs its actions there and keeps every other    *)
(* message waiting, a pipeline runs in a task of its own and reports back. Steps talk to the      *)
(* service registry, which serves one call at a time, and to entity actors, whose mailboxes are   *)
(* queues. Between two awaits anybody else may act.                                               *)
EXTENDS Integers, Sequences, FiniteSets, SequencesExt

CONSTANTS
    Workflows,    \* identifiers Create may draw; each is drawn once
    Definition,   \* what each is the identifier of
    Events,       \* event types that may be dispatched
    Entities,
    MaxRuns       \* bound: runs

\* A definition is [mode |-> "pipeline", steps |-> Seq(Step)] or [mode |-> "rtc", states |-> Seq(
\* [name, entry, exit, transitions])], a transition [event, guard, target, actions] with a guard
\* "none", "true", "false" or "other". A Step is one of
\*   [op |-> "literal", ok]            Log, Delay (ok), a condition without an entity
\*   [op |-> "cond", entity, val]      a condition on the state of an entity
\*   [op |-> "set", entity, val]       SetEntityState, "invalid" if the state cannot be parsed
\*   [op |-> "call", target, val, ok]  ServiceCall on a set of entities, ok if it is registered,
\*                                     val the command, "none" if the service maps to no command
Values == {"on", "off", "unavailable"}

Modes == [w \in Workflows |-> Definition[w].mode]

ASSUME ConstantsAssumption ==
    /\ MaxRuns \in Nat
    /\ \A w \in Workflows : Modes[w] \in {"pipeline", "rtc"}

\* What a step carries: a state that was parsed is one of those told apart here or cannot be used,
\* and a service maps to a command of the switch or to none.
StepTyped(s) ==
    /\ s.op = "set" => s.val \in Values \cup {"invalid"}
    /\ s.op = "call" => s.val \in {"on", "off", "toggle", "none"}

StepsTyped(steps) == steps \in Seq(Range(steps)) /\ \A s \in Range(steps) : StepTyped(s)

ASSUME DefinitionsAssumption ==
    \A w \in Workflows :
        /\ Modes[w] = "pipeline" => StepsTyped(Definition[w].steps)
        /\ Modes[w] = "rtc" =>
            /\ Definition[w].states \in Seq(Range(Definition[w].states))
            /\ \A s \in Range(Definition[w].states) :
                /\ StepsTyped(s.entry) /\ StepsTyped(s.exit)
                /\ s.transitions \in Seq(Range(s.transitions))
                /\ \A t \in Range(s.transitions) : StepsTyped(t.actions)

VARIABLES
    created,    \* identifiers drawn
    workflows,  \* the engine's workflows
    runs,       \* Seq of [wf, status]: the engine's runs, the run id is the position
    rtc_runs,   \* per workflow, the run of the machine kept for it and its current state
    up,         \* the engine has not stopped
    busy,       \* the run whose actions the handler awaits, 0 for none
    op,         \* the message that handler handles, "run" or "dispatch"
    target,     \* the state its machine enters
    at,         \* per run, where its executor is
    left,       \* per run, the steps it has left
    reports,    \* RunCompleted messages on their way: <<run, succeeded>>
    calls,      \* the service registry's mailbox: runs that wait for a call
    registered, \* entities in the registry
    alive,      \* entities whose actor runs
    state,      \* per entity
    mailbox     \* per entity

engineVars == <<created, workflows, runs, rtc_runs, up, busy, op, target>>
execVars == <<at, left>>
worldVars == <<registered, alive, state, mailbox>>
vars == <<engineVars, execVars, reports, calls, worldVars>>

RunIds == 1..MaxRuns

NoRun == 0

NoHandle == [run |-> NoRun, state |-> ""]

Init ==
    /\ created = {} /\ workflows = {} /\ runs = <<>> /\ up = TRUE
    /\ rtc_runs = [w \in Workflows |-> NoHandle]
    /\ busy = NoRun /\ op = "run" /\ target = ""
    /\ at = [r \in RunIds |-> "idle"] /\ left = [r \in RunIds |-> <<>>]
    /\ reports = {} /\ calls = <<>>
    /\ registered = Entities /\ alive = Entities
    /\ state = [e \in Entities |-> "off"]
    /\ mailbox = [e \in Entities |-> <<>>]

-----------------------------------------------------------------------------
(* State machines.                                                                                *)

StatesOf(w) == Definition[w].states

\* The first state of that name; {} if there is none.
StateNamed(w, name) ==
    {StatesOf(w)[i] : i \in {k \in DOMAIN StatesOf(w) :
        /\ StatesOf(w)[k].name = name
        /\ \A j \in 1..(k - 1) : StatesOf(w)[j].name # name}}

\* A state that does not exist is terminal as well.
is_in_terminal_state(w, name) == \A s \in StateNamed(w, name) : s.transitions = <<>>

\* The first transition on the event whose guard is not a literal false.
Matching(s, event) ==
    SelectInSeq(s.transitions, LAMBDA t : t.event = event /\ t.guard # "false")

-----------------------------------------------------------------------------
(* The engine's handlers. A handler starts when the one before it is through.                    *)

Ready == up /\ busy = NoRun

Starts(r, steps) ==
    /\ at' = [at EXCEPT ![r] = "ready"]
    /\ left' = [left EXCEPT ![r] = steps]

Create(w) ==
    /\ Ready /\ w \notin created
    /\ created' = created \cup {w}
    /\ workflows' = workflows \cup {w}
    /\ UNCHANGED <<runs, rtc_runs, up, busy, op, target, execVars, reports, calls, worldVars>>

\* Mutation: only the runs of pipelines keep a workflow from being deleted.
Active_Pipelines(w) ==
    \E i \in DOMAIN runs : runs[i].wf = w /\ runs[i].status = "running" /\ Modes[w] = "pipeline"

Active(w) == \E i \in DOMAIN runs : runs[i].wf = w /\ runs[i].status = "running"

\* Refused with ActiveRunsExist while a run is active.
Delete(w) ==
    /\ Ready /\ w \in workflows /\ ~Active(w)
    /\ workflows' = workflows \ {w}
    /\ UNCHANGED <<created, runs, rtc_runs, up, busy, op, target, execVars, reports, calls,
                   worldVars>>

RunPipeline(w) ==
    /\ Ready /\ w \in workflows /\ Len(runs) < MaxRuns /\ Modes[w] = "pipeline"
    /\ runs' = Append(runs, [wf |-> w, status |-> "running"])
    /\ Starts(Len(runs) + 1, Definition[w].steps)
    /\ UNCHANGED <<created, workflows, rtc_runs, up, busy, op, target, reports, calls, worldVars>>

\* The entry actions of the first state are awaited by the handler. Without a state it fails.
RunStateMachine(w) ==
    /\ Ready /\ w \in workflows /\ Len(runs) < MaxRuns /\ Modes[w] = "rtc"
    /\ IF StatesOf(w) = <<>>
       THEN /\ runs' = Append(runs, [wf |-> w, status |-> "failed"])
            /\ UNCHANGED <<busy, op, target, execVars>>
       ELSE /\ runs' = Append(runs, [wf |-> w, status |-> "running"])
            /\ busy' = Len(runs) + 1 /\ op' = "run" /\ target' = StatesOf(w)[1].name
            /\ Starts(Len(runs) + 1, StatesOf(w)[1].entry)
    /\ UNCHANGED <<created, workflows, rtc_runs, up, reports, calls, worldVars>>

RunCompleted(r, ok) ==
    /\ Ready /\ <<r, ok>> \in reports
    /\ reports' = reports \ {<<r, ok>>}
    /\ runs' = [runs EXCEPT ![r].status = IF ok THEN "completed" ELSE "failed"]
    /\ UNCHANGED <<created, workflows, rtc_runs, up, busy, op, target, execVars, calls, worldVars>>

\* The handle is taken out; it is back at the end of the handler if the machine goes on. Exit
\* actions, the transition's actions and entry actions run one after the other.
DispatchEvent(w, event) ==
    /\ Ready /\ rtc_runs[w] # NoHandle
    /\ LET h == rtc_runs[w]
           s == CHOOSE x \in StateNamed(w, h.state) : TRUE
           i == Matching(s, event)
           t == s.transitions[i]
           next == StateNamed(w, t.target)
           Failed == /\ runs' = [runs EXCEPT ![h.run].status = "failed"]
                     /\ rtc_runs' = [rtc_runs EXCEPT ![w] = NoHandle]
                     /\ UNCHANGED <<busy, op, target, execVars>>
       IN \/ /\ i = 0 /\ is_in_terminal_state(w, h.state)
             /\ runs' = [runs EXCEPT ![h.run].status = "completed"]
             /\ rtc_runs' = [rtc_runs EXCEPT ![w] = NoHandle]
             /\ UNCHANGED <<busy, op, target, execVars>>
          \/ i # 0 /\ (t.guard = "other" \/ next = {}) /\ Failed
          \/ /\ i # 0 /\ t.guard # "other" /\ next # {}
             /\ rtc_runs' = [rtc_runs EXCEPT ![w] = NoHandle]
             /\ busy' = h.run /\ op' = "dispatch" /\ target' = t.target
             /\ Starts(h.run, s.exit \o t.actions \o (CHOOSE x \in next : TRUE).entry)
             /\ UNCHANGED runs
    /\ UNCHANGED <<created, workflows, up, reports, calls, worldVars>>

Stop ==
    /\ Ready
    /\ up' = FALSE
    /\ UNCHANGED <<created, workflows, runs, rtc_runs, busy, op, target, execVars, reports, calls,
                   worldVars>>

-----------------------------------------------------------------------------
(* Executors: the task of a pipeline, or the engine's handler for a state machine.               *)

\* Mutation: a machine whose actions failed is kept.
HandlerEnds_KeepsFailed(r, ok) ==
    LET w == runs[r].wf
    IN /\ busy' = NoRun
       /\ IF ok /\ op = "dispatch" /\ is_in_terminal_state(w, target)
          THEN /\ runs' = [runs EXCEPT ![r].status = "completed"]
               /\ UNCHANGED rtc_runs
          ELSE /\ rtc_runs' = [rtc_runs EXCEPT ![w] = [run |-> r, state |-> target]]
               /\ runs' = IF ok THEN runs ELSE [runs EXCEPT ![r].status = "failed"]

\* The handler goes on after its await: a machine that started replaces the one kept for the
\* workflow, one that moved is kept unless it is through, one that failed is dropped.
HandlerEnds(r, ok) ==
    LET w == runs[r].wf
    IN /\ busy' = NoRun
       /\ \/ /\ ~ok
             /\ runs' = [runs EXCEPT ![r].status = "failed"]
             /\ UNCHANGED rtc_runs
          \/ /\ ok /\ op = "dispatch" /\ is_in_terminal_state(w, target)
             /\ runs' = [runs EXCEPT ![r].status = "completed"]
             /\ UNCHANGED rtc_runs
          \/ /\ ok /\ (op = "run" \/ ~is_in_terminal_state(w, target))
             /\ rtc_runs' = [rtc_runs EXCEPT ![w] = [run |-> r, state |-> target]]
             /\ UNCHANGED runs

\* Mutation: a task that fails reports nothing.
Ends_OnlySuccess(r, ok) ==
    /\ at' = [at EXCEPT ![r] = "done"]
    /\ IF busy = r THEN HandlerEnds(r, ok) /\ UNCHANGED reports
       ELSE /\ reports' = IF up /\ ok THEN reports \cup {<<r, ok>>} ELSE reports
            /\ UNCHANGED <<runs, rtc_runs, busy>>
    /\ UNCHANGED <<created, workflows, up, op, target>>

\* The first error, or the end of the steps. A report to an engine that stopped is lost.
Ends(r, ok) ==
    /\ at' = [at EXCEPT ![r] = "done"]
    /\ IF busy = r THEN HandlerEnds(r, ok) /\ UNCHANGED reports
       ELSE /\ reports' = IF up THEN reports \cup {<<r, ok>>} ELSE reports
            /\ UNCHANGED <<runs, rtc_runs, busy>>
    /\ UNCHANGED <<created, workflows, up, op, target>>

GoesOn(r) ==
    /\ at' = [at EXCEPT ![r] = "ready"]
    /\ left' = [left EXCEPT ![r] = Tail(@)]
    /\ UNCHANGED <<engineVars, reports>>

Fails(r) == Ends(r, FALSE) /\ UNCHANGED left

Finish(r) ==
    /\ at[r] = "ready" /\ left[r] = <<>>
    /\ Ends(r, TRUE)
    /\ UNCHANGED <<left, calls, worldVars>>

AtStep(r, o) == at[r] = "ready" /\ left[r] # <<>> /\ Head(left[r]).op = o

Literal(r) ==
    /\ AtStep(r, "literal")
    /\ IF Head(left[r]).ok THEN GoesOn(r) ELSE Fails(r)
    /\ UNCHANGED <<calls, worldVars>>

Reachable(e) == e \in registered \cap alive

Sent(e, m) == mailbox' = [mailbox EXCEPT ![e] = Append(@, m)]

SetEntityState(r) ==
    /\ AtStep(r, "set")
    /\ LET s == Head(left[r])
       IN IF Reachable(s.entity) /\ s.val # "invalid"
          THEN Sent(s.entity, [type |-> "set", by |-> r, val |-> s.val]) /\ GoesOn(r)
          ELSE Fails(r) /\ UNCHANGED mailbox
    /\ UNCHANGED <<calls, registered, alive, state>>

\* The question waits in the mailbox of the entity, behind what was sent to it before.
eval_condition(r) ==
    /\ AtStep(r, "cond")
    /\ LET s == Head(left[r])
       IN IF Reachable(s.entity)
          THEN /\ Sent(s.entity, [type |-> "get", by |-> r, val |-> s.val])
               /\ at' = [at EXCEPT ![r] = "asked"]
               /\ UNCHANGED <<engineVars, left, reports>>
          ELSE Fails(r) /\ UNCHANGED mailbox
    /\ UNCHANGED <<calls, registered, alive, state>>

\* Mutation: the call is sent and not awaited.
ServiceCall_NotAwaited(r) ==
    /\ AtStep(r, "call")
    /\ calls' = Append(calls, [by |-> r, step |-> Head(left[r])])
    /\ GoesOn(r)
    /\ UNCHANGED worldVars

ServiceCall(r) ==
    /\ AtStep(r, "call")
    /\ calls' = Append(calls, [by |-> r, step |-> Head(left[r])])
    /\ at' = [at EXCEPT ![r] = "calling"]
    /\ UNCHANGED <<engineVars, left, reports, worldVars>>

-----------------------------------------------------------------------------
(* The service registry and the entity actors.                                                   *)

resolve_target(s) == s.target \cap registered

\* The command goes to every target before the call is answered. An entity that is registered but
\* has ended counts as a target and hears nothing.
Call ==
    /\ calls # <<>>
    /\ calls' = Tail(calls)
    /\ LET r == Head(calls).by
           s == Head(calls).step
           refs == resolve_target(s)
       IN /\ mailbox' = [e \in Entities |->
                            IF s.ok /\ s.val # "none" /\ e \in refs \cap alive
                            THEN Append(mailbox[e], [type |-> "command", by |-> r, val |-> s.val])
                            ELSE mailbox[e]]
          /\ IF at[r] = "calling"
             THEN IF s.ok /\ refs # {} THEN GoesOn(r) ELSE Fails(r)
             ELSE UNCHANGED <<engineVars, execVars, reports>>   \* nobody awaits the answer
    /\ UNCHANGED <<registered, alive, state>>

\* The switch domain: no command applies to an entity that is unavailable.
apply_command(old, cmd) ==
    IF old = "unavailable" THEN old
    ELSE IF cmd = "toggle" THEN (IF old = "on" THEN "off" ELSE "on")
    ELSE cmd

\* An expression names the value it compares with; an unavailable entity has no field to compare.
compare_field_value(actual, expected) == actual # "unavailable" /\ actual = expected

\* The questions in a mailbox nobody reads any more: the library may drop them, and the asker has
\* an error, or keep them as long as somebody holds the actor's reference, and the asker waits.
Abandoned(e) == {r \in RunIds : \E i \in DOMAIN mailbox[e] :
                                    mailbox[e][i].type = "get" /\ mailbox[e][i].by = r}

Ended(e) ==
    /\ alive' = alive \ {e}
    /\ mailbox' = [mailbox EXCEPT ![e] = <<>>]
    /\ at' = [r \in RunIds |-> IF r \in Abandoned(e) THEN "lost" ELSE at[r]]

EntityHandles(e) ==
    /\ e \in alive /\ mailbox[e] # <<>>
    /\ LET m == Head(mailbox[e])
       IN \/ /\ m.type \in {"set", "command"}
             /\ state' = [state EXCEPT ![e] =
                              IF m.type = "set" THEN m.val ELSE apply_command(@, m.val)]
             /\ mailbox' = [mailbox EXCEPT ![e] = Tail(@)]
             /\ UNCHANGED <<alive, engineVars, execVars, reports>>
          \/ /\ m.type = "get"
             /\ IF compare_field_value(state[e], m.val) THEN GoesOn(m.by) ELSE Fails(m.by)
             /\ mailbox' = [mailbox EXCEPT ![e] = Tail(@)]
             /\ UNCHANGED <<alive, state>>
          \/ /\ m.type = "stop"
             /\ Ended(e)
             /\ UNCHANGED <<state, engineVars, left, reports>>
    /\ UNCHANGED <<calls, registered>>

\* The parent ends, or the actor panics. It stays in the registry.
EntityEnds(e) ==
    /\ e \in alive
    /\ Ended(e)
    /\ UNCHANGED <<engineVars, left, reports, calls, registered, state>>

\* The device actor removes the entity.
RemoveEntity(e) ==
    /\ e \in registered
    /\ registered' = registered \ {e}
    /\ IF e \in alive THEN Sent(e, [type |-> "stop", by |-> NoRun, val |-> "none"])
       ELSE UNCHANGED mailbox
    /\ UNCHANGED <<engineVars, execVars, reports, calls, alive, state>>

\* The other thing the library may do with an abandoned question.
Dropped(r) ==
    /\ at[r] = "lost"
    /\ Fails(r)
    /\ UNCHANGED <<calls, worldVars>>

Step(r) ==
    Finish(r) \/ Literal(r) \/ SetEntityState(r) \/ eval_condition(r) \/ ServiceCall(r)

Next ==
    \/ \E w \in Workflows :
        \/ Create(w) \/ Delete(w) \/ RunPipeline(w) \/ RunStateMachine(w)
        \/ \E event \in Events : DispatchEvent(w, event)
    \/ \E r \in RunIds, ok \in BOOLEAN : RunCompleted(r, ok)
    \/ Stop
    \/ \E r \in RunIds : Step(r) \/ Dropped(r)
    \/ Call
    \/ \E e \in Entities : EntityHandles(e) \/ EntityEnds(e) \/ RemoveEntity(e)

Spec == Init /\ [][Next]_vars

\* Tasks and actors that can go on do. Nothing is assumed of an abandoned question.
FairSpec ==
    /\ Spec
    /\ \A r \in RunIds : WF_vars(Step(r)) /\ SF_vars(\E ok \in BOOLEAN : RunCompleted(r, ok))
    /\ WF_vars(Call)
    /\ \A e \in Entities : WF_vars(EntityHandles(e))

-----------------------------------------------------------------------------
(* Properties.                                                                                   *)

Statuses == {"running", "completed", "failed"}

StateNames ==
    {NoHandle.state} \cup UNION {{s.name : s \in Range(StatesOf(w))} :
                                    w \in {v \in Workflows : Modes[v] = "rtc"}}

TypeOK ==
    /\ workflows \subseteq created /\ created \subseteq Workflows
    /\ runs \in Seq([wf : created, status : Statuses]) /\ Len(runs) <= MaxRuns
    /\ rtc_runs \in [Workflows -> [run : 0..Len(runs), state : StateNames]]
    /\ up \in BOOLEAN /\ busy \in 0..Len(runs) /\ op \in {"run", "dispatch"}
    /\ at \in [RunIds -> {"idle", "ready", "asked", "calling", "lost", "done"}]
    /\ reports \subseteq RunIds \X BOOLEAN
    /\ registered \subseteq Entities /\ alive \subseteq Entities
    /\ state \in [Entities -> Values]

Executing(r) == at[r] \in {"ready", "asked", "calling", "lost"}

\* The steps of a run are still to come: a task or the handler is at them, its end is still to be
\* reported, or its machine is kept for the next event.
Pending(r) ==
    \/ Executing(r)
    \/ \E ok \in BOOLEAN : <<r, ok>> \in reports
    \/ rtc_runs[runs[r].wf].run = r

\* A later run of the same state machine took its place.
Superseded(r) ==
    \E q \in (r + 1)..Len(runs) : runs[q].wf = runs[r].wf /\ Modes[runs[r].wf] = "rtc"

\* The status a client polls is the truth: a run that is not running has nothing left to do and
\* will touch no entity again, and a run that is running is being worked on. The exception is the
\* machine that a second run of its workflow replaced, which nobody ends.
StatusTrue ==
    \A r \in DOMAIN runs :
        /\ runs[r].status # "running" => ~Pending(r)
        /\ up /\ runs[r].status = "running" => Pending(r) \/ Superseded(r)

\* What is deleted is over: no step of a deleted workflow is executed any more, no event reaches a
\* machine of it.
DeletedIsQuiet ==
    \A w \in created \ workflows :
        /\ rtc_runs[w] = NoHandle
        /\ \A r \in DOMAIN runs : runs[r].wf = w => ~Executing(r)

\* A condition sees what the same run did before: its question is behind its own writes in the
\* mailbox, also behind the ones a service call made for it.
OwnWritesSeen ==
    \A e \in Entities : \A i \in DOMAIN mailbox[e] :
        mailbox[e][i].type = "get" =>
            LET r == mailbox[e][i].by
            IN /\ \A j \in (i + 1)..Len(mailbox[e]) : mailbox[e][j].by # r
               /\ \A k \in DOMAIN calls : calls[k].by # r

Ledger ==
    INSTANCE RunLedger WITH drawn <- created, defined <- workflows, entries <- runs, serving <- up

\* What a client polls is a ledger: whatever order tasks, reports, handlers, handles and deletions
\* come in, a run is settled once and for good, nothing is entered or settled for a workflow that
\* was deleted, and nothing changes after the engine stopped.
KeepsLedger == Ledger!Spec

PipelineRuns(r) ==
    r \in DOMAIN runs /\ Modes[runs[r].wf] = "pipeline" /\ runs[r].status = "running"

\* Every pipeline ends and the engine learns of it, unless a question of a run was abandoned (of
\* its own, or of the machine the engine's handler waits for) or the engine was stopped.
PipelinesEnd ==
    \A r \in RunIds :
        PipelineRuns(r) ~> (~PipelineRuns(r) \/ ~up \/ \E q \in RunIds : at[q] = "lost")
=============================================================================
