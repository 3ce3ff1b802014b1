-------------------------------- MODULE ActorRuntime --------------------------------
(* The actor runtime: a parent spawns its children and stops them when it ends; every child has  *)
(* a loop, a monitor that awaits the end of the loop, an entry in the table of tasks and a       *)
(* handle in the parent's list. Loops, monitors, the parent and the shutdown run on different    *)
(* threads, so what they do between two locks or awaits is a step. Messages are counted, what an *)
(* actor does with one is that it goes on, stops itself or panics.                               *)
EXTENDS Integers, Sequences, FiniteSets

CONSTANTS
    Children,       \* the actors the parent may spawn
    Supervision,    \* the ways the children may be supervised
    max_restarts,   \* of the strategy
    within_secs,    \* of the strategy
    MaxIncs,        \* bound: incarnations of an actor
    MaxMail,        \* bound: messages waiting
    MaxTime         \* bound: the clock

\* "restart": spawned with a factory under OneForOne or RestartN. "all": under AllForOne.
\* "none": spawned without a factory, or under Escalate, which only write a log line.
AllKinds == {"restart", "all", "none"}

ASSUME ConstantsAssumption ==
    /\ Supervision \subseteq [Children -> AllKinds]
    /\ max_restarts \in Nat /\ within_secs \in Nat /\ MaxIncs \in Nat \ {0}
    /\ MaxMail \in Nat /\ MaxTime \in Nat

VARIABLES
    kind,      \* how each child is supervised
    parent,    \* "up", "ended" by itself, or "gone" by a panic or an abort
    spawning,  \* how far the parent is with the spawn of each child
    loop,      \* state of every incarnation's loop
    mon,       \* state of each child's monitor
    cur,       \* the incarnation the monitor watches
    handle,    \* the incarnation the handle in the parent's list stops, 0 without a handle
    times,     \* restart times kept in the handle
    stop,      \* incarnations whose stop channel holds true
    tasks,     \* the system's table of tasks
    aborted,   \* incarnations that shutdown has aborted
    mail,      \* messages waiting for each child
    clock,
    down,      \* shutdown was called
    restarts,  \* history: when each child was restarted
    late,      \* history: children in the middle of a spawn or a restart when shutdown came
    owed       \* history: incarnations that ran under a handle of their own when the parent ended

vars == <<kind, parent, spawning, loop, mon, cur, handle, times, stop, tasks, aborted, mail,
          clock, down, restarts, late, owed>>

Incs == 1..MaxIncs

Ids == Children \X Incs

Alive == {"starting", "running"}

Live(c) == {n \in Incs : loop[c][n] \in Alive}

Init ==
    /\ kind \in Supervision
    /\ parent = "up" /\ down = FALSE /\ clock = 0
    /\ spawning = [c \in Children |-> "no"]
    /\ loop = [c \in Children |-> [n \in Incs |-> "unborn"]]
    /\ mon = [c \in Children |-> "none"]
    /\ cur = [c \in Children |-> 1]
    /\ handle = [c \in Children |-> 0]
    /\ times = [c \in Children |-> <<>>]
    /\ stop = {} /\ tasks = {} /\ aborted = {} /\ late = {} /\ owed = {}
    /\ mail = [c \in Children |-> 0]
    /\ restarts = [c \in Children |-> <<>>]

-----------------------------------------------------------------------------
(* Spawning: spawn_actor_under and spawn_actor_under_typed, run by the parent's handler.         *)

Busy == \E c \in Children : spawning[c] \in {"loop", "registered", "monitored"}

SpawnLoop(c) ==
    /\ parent = "up" /\ ~Busy /\ spawning[c] = "no"
    /\ spawning' = [spawning EXCEPT ![c] = "loop"]
    /\ loop' = [loop EXCEPT ![c][1] = "starting"]
    /\ UNCHANGED <<kind, parent, mon, cur, handle, times, stop, tasks, aborted, mail, clock, down,
                   restarts, late, owed>>

register(c) ==
    /\ spawning[c] = "loop"
    /\ spawning' = [spawning EXCEPT ![c] = "registered"]
    /\ tasks' = tasks \cup {<<c, 1>>}
    /\ UNCHANGED <<kind, parent, loop, mon, cur, handle, times, stop, aborted, mail, clock, down,
                   restarts, late, owed>>

SpawnMonitor(c) ==
    /\ spawning[c] = "registered"
    /\ spawning' = [spawning EXCEPT ![c] = "monitored"]
    /\ mon' = [mon EXCEPT ![c] = "waiting"]
    /\ UNCHANGED <<kind, parent, loop, cur, handle, times, stop, tasks, aborted, mail, clock, down,
                   restarts, late, owed>>

\* The handle is pushed last: the monitor may already be through with a child that ended at once.
PushHandle(c) ==
    /\ spawning[c] = "monitored"
    /\ spawning' = [spawning EXCEPT ![c] = "done"]
    /\ handle' = [handle EXCEPT ![c] = 1]
    /\ UNCHANGED <<kind, parent, loop, mon, cur, times, stop, tasks, aborted, mail, clock, down,
                   restarts, late, owed>>

-----------------------------------------------------------------------------
(* The loop of an incarnation: run_actor_loop.                                                   *)

Runs(c, n, s) == loop[c][n] = s /\ <<c, n>> \notin aborted

Goes(c, n, s) == loop' = [loop EXCEPT ![c][n] = s]

PreStart(c, n) ==
    /\ Runs(c, n, "starting")
    /\ Goes(c, n, "running") \/ Goes(c, n, "panicked")
    /\ UNCHANGED <<kind, parent, spawning, mon, cur, handle, times, stop, tasks, aborted, mail,
                   clock, down, restarts, late, owed>>

\* The end of a loop that was not a panic: post_stop, and the entry in the table goes.
LoopEnds(c, n) ==
    /\ Goes(c, n, "ok")
    /\ tasks' = tasks \ {<<c, n>>}

Handle(c, n) ==
    /\ Runs(c, n, "running") /\ mail[c] > 0
    /\ mail' = [mail EXCEPT ![c] = @ - 1]
    /\ \/ UNCHANGED <<loop, tasks>>
       \/ Goes(c, n, "panicked") /\ UNCHANGED tasks
       \/ LoopEnds(c, n)
    /\ UNCHANGED <<kind, parent, spawning, mon, cur, handle, times, stop, aborted, clock, down,
                   restarts, late, owed>>

StopSeen(c, n) ==
    /\ Runs(c, n, "running") /\ <<c, n>> \in stop
    /\ LoopEnds(c, n)
    /\ UNCHANGED <<kind, parent, spawning, mon, cur, handle, times, stop, aborted, mail, clock,
                   down, restarts, late, owed>>

AbortTaken(c, n) ==
    /\ loop[c][n] \in Alive /\ <<c, n>> \in aborted
    /\ Goes(c, n, "aborted")
    /\ UNCHANGED <<kind, parent, spawning, mon, cur, handle, times, stop, tasks, aborted, mail,
                   clock, down, restarts, late, owed>>

-----------------------------------------------------------------------------
(* The monitors: supervisor_monitor and typed_restart_monitor.                                   *)

\* remove_child and deregister; the monitor returns.
MonitorReturns(c) ==
    /\ handle' = [handle EXCEPT ![c] = IF @ = cur[c] THEN 0 ELSE @]
    /\ tasks' = tasks \ {<<c, cur[c]>>}
    /\ mon' = [mon EXCEPT ![c] = "returned"]

\* Mutation: a loop that has not reached its messages yet is taken for a dead one.
Joined_NotAwaited(c, outcomes) ==
    /\ mon[c] = "waiting"
    /\ loop[c][cur[c]] \in outcomes \cup {"starting"}

Joined(c, outcomes) == mon[c] = "waiting" /\ loop[c][cur[c]] \in outcomes

MonitorEnds(c) ==
    /\ Joined(c, {"ok", "aborted"})
    /\ MonitorReturns(c)
    /\ UNCHANGED <<kind, parent, spawning, loop, cur, times, stop, aborted, mail, clock, down,
                   restarts, late, owed>>

\* A panic that is only logged, or that stops the siblings as well.
MonitorGivesUp(c) ==
    /\ kind[c] # "restart" /\ Joined(c, {"panicked"})
    /\ stop' = IF kind[c] = "all"
               THEN stop \cup {<<d, handle[d]>> : d \in {e \in Children \ {c} : handle[e] # 0}}
               ELSE stop
    /\ MonitorReturns(c)
    /\ UNCHANGED <<kind, parent, spawning, loop, cur, times, aborted, mail, clock, down, restarts,
                   late, owed>>

\* Mutation: only the restarts of this very tick are remembered.
Expired_Forgets(c) == {k \in DOMAIN times[c] : clock # times[c][k]}

\* Positions of the remembered restarts that lie before the window that ends now.
Expired(c) == {k \in DOMAIN times[c] : clock - times[c][k] >= within_secs}

\* What retain leaves: times are pushed as they come, so the expired ones are the first ones.
Recent(c) == SubSeq(times[c], Cardinality(Expired(c)) + 1, Len(times[c]))

\* check_restart_limit, and then the factory; pre_restart is awaited.
MonitorRestarts(c) ==
    /\ kind[c] = "restart" /\ Joined(c, {"panicked"})
    /\ \/ /\ handle[c] = cur[c] /\ Len(Recent(c)) < max_restarts /\ cur[c] < MaxIncs
          /\ times' = [times EXCEPT ![c] = Append(Recent(c), clock)]
          /\ restarts' = [restarts EXCEPT ![c] = Append(@, clock)]
          /\ mon' = [mon EXCEPT ![c] = "pre_restart"]
          /\ UNCHANGED <<handle, tasks>>
       \/ /\ handle[c] # cur[c] \/ Len(Recent(c)) >= max_restarts
          /\ MonitorReturns(c)
          /\ UNCHANGED <<times, restarts>>
    /\ UNCHANGED <<kind, parent, spawning, loop, cur, stop, aborted, mail, clock, down, late, owed>>

RestartLoop(c) ==
    /\ mon[c] = "pre_restart"
    /\ Goes(c, cur[c] + 1, "starting")
    /\ mon' = [mon EXCEPT ![c] = "spawned"]
    /\ UNCHANGED <<kind, parent, spawning, cur, handle, times, stop, tasks, aborted, mail, clock,
                   down, restarts, late, owed>>

\* Mutation: the new incarnation is not entered in the table.
RestartRegister_Unknown(c) ==
    /\ mon[c] = "spawned"
    /\ mon' = [mon EXCEPT ![c] = "registered"]
    /\ UNCHANGED <<kind, parent, spawning, loop, cur, handle, times, stop, tasks, aborted, mail,
                   clock, down, restarts, late, owed>>

RestartRegister(c) ==
    /\ mon[c] = "spawned"
    /\ tasks' = tasks \cup {<<c, cur[c] + 1>>}
    /\ mon' = [mon EXCEPT ![c] = "registered"]
    /\ UNCHANGED <<kind, parent, spawning, loop, cur, handle, times, stop, aborted, mail, clock,
                   down, restarts, late, owed>>

\* Mutation: the handle keeps the stop channel of the incarnation that died.
SwapHandle_NotStop(c) ==
    /\ mon[c] = "registered"
    /\ mon' = [mon EXCEPT ![c] = "swapped"]
    /\ UNCHANGED <<kind, parent, spawning, loop, cur, handle, times, stop, tasks, aborted, mail,
                   clock, down, restarts, late, owed>>

SwapHandle(c) ==
    /\ mon[c] = "registered"
    /\ handle' = [handle EXCEPT ![c] = IF @ = cur[c] THEN cur[c] + 1 ELSE @]
    /\ mon' = [mon EXCEPT ![c] = "swapped"]
    /\ UNCHANGED <<kind, parent, spawning, loop, cur, times, stop, tasks, aborted, mail, clock,
                   down, restarts, late, owed>>

\* Mutation: the entry of the dead incarnation stays in the table.
MonitorResumes_KeepsOld(c) ==
    /\ mon[c] = "swapped"
    /\ cur' = [cur EXCEPT ![c] = @ + 1]
    /\ mon' = [mon EXCEPT ![c] = "waiting"]
    /\ UNCHANGED <<kind, parent, spawning, loop, handle, times, stop, tasks, aborted, mail, clock,
                   down, restarts, late, owed>>

MonitorResumes(c) ==
    /\ mon[c] = "swapped"
    /\ tasks' = tasks \ {<<c, cur[c]>>}
    /\ cur' = [cur EXCEPT ![c] = @ + 1]
    /\ mon' = [mon EXCEPT ![c] = "waiting"]
    /\ UNCHANGED <<kind, parent, spawning, loop, handle, times, stop, aborted, mail, clock, down,
                   restarts, late, owed>>

-----------------------------------------------------------------------------
(* The parent, senders, the clock and shutdown.                                                  *)

\* The parent's loop breaks: it sends stop to every handle of its list, under the list's lock.
ParentEnds ==
    /\ parent = "up" /\ ~Busy
    /\ parent' = "ended"
    /\ stop' = stop \cup {<<c, handle[c]>> : c \in {d \in Children : handle[d] # 0}}
    /\ owed' = {i \in Ids : /\ loop[i[1]][i[2]] \in Alive
                             /\ mon[i[1]] \notin {"spawned", "registered"}}
    /\ UNCHANGED <<kind, spawning, loop, mon, cur, handle, times, tasks, aborted, mail, clock,
                   down, restarts, late>>

\* A panic of the parent, or its abort by shutdown, stops none of its children.
ParentVanishes ==
    /\ parent = "up" /\ ~Busy
    /\ parent' = "gone"
    /\ UNCHANGED <<kind, spawning, loop, mon, cur, handle, times, stop, tasks, aborted, mail,
                   clock, down, restarts, late, owed>>

\* Somebody receives: a loop, or the monitor that keeps the receiver for the next incarnation.
Send(c) ==
    /\ mail[c] < MaxMail
    /\ Live(c) # {} \/ (kind[c] # "none" /\ mon[c] \notin {"none", "returned"})
    /\ mail' = [mail EXCEPT ![c] = @ + 1]
    /\ UNCHANGED <<kind, parent, spawning, loop, mon, cur, handle, times, stop, tasks, aborted,
                   clock, down, restarts, late, owed>>

Tick ==
    /\ clock < MaxTime
    /\ clock' = clock + 1
    /\ UNCHANGED <<kind, parent, spawning, loop, mon, cur, handle, times, stop, tasks, aborted,
                   mail, down, restarts, late, owed>>

\* Children whose loop is not in the table though it lives or is about to.
Between ==
    {c \in Children : \/ parent = "up" /\ spawning[c] \in {"no", "loop"}
                      \/ mon[c] \in {"pre_restart", "spawned"}
                      \/ kind[c] = "restart" /\ loop[c][cur[c]] = "panicked" /\ mon[c] # "returned"}

\* The table is drained under its lock; what was in it is aborted.
shutdown ==
    /\ ~down
    /\ down' = TRUE
    /\ tasks' = {}
    /\ aborted' = tasks
    /\ late' = Between
    /\ UNCHANGED <<kind, parent, spawning, loop, mon, cur, handle, times, stop, mail, clock,
                   restarts, owed>>

Next ==
    \/ \E c \in Children :
        \/ SpawnLoop(c) \/ register(c) \/ SpawnMonitor(c) \/ PushHandle(c)
        \/ \E n \in Incs : PreStart(c, n) \/ Handle(c, n) \/ StopSeen(c, n) \/ AbortTaken(c, n)
        \/ MonitorEnds(c) \/ MonitorGivesUp(c) \/ MonitorRestarts(c)
        \/ RestartLoop(c) \/ RestartRegister(c) \/ SwapHandle(c) \/ MonitorResumes(c)
        \/ Send(c)
    \/ ParentEnds \/ ParentVanishes \/ Tick \/ shutdown

Spec == Init /\ [][Next]_vars

\* Tasks that can run do: the loops (select! takes each ready branch sooner or later), the
\* monitors, and the parent in the middle of a spawn.
FairSpec ==
    /\ Spec
    /\ \A c \in Children :
        /\ WF_vars(register(c) \/ SpawnMonitor(c) \/ PushHandle(c))
        /\ \A n \in Incs : /\ WF_vars(PreStart(c, n))
                           /\ WF_vars(StopSeen(c, n))
                           /\ WF_vars(AbortTaken(c, n))
        /\ WF_vars(MonitorEnds(c) \/ MonitorGivesUp(c) \/ MonitorRestarts(c) \/ RestartLoop(c)
                     \/ RestartRegister(c) \/ SwapHandle(c) \/ MonitorResumes(c))

-----------------------------------------------------------------------------
(* Properties.                                                                                   *)

TypeOK ==
    /\ kind \in [Children -> AllKinds]
    /\ parent \in {"up", "ended", "gone"}
    /\ spawning \in [Children -> {"no", "loop", "registered", "monitored", "done"}]
    /\ loop \in [Children -> [Incs -> Alive \cup {"unborn", "ok", "panicked", "aborted"}]]
    /\ mon \in [Children -> {"none", "waiting", "pre_restart", "spawned", "registered", "swapped",
                             "returned"}]
    /\ cur \in [Children -> Incs]
    /\ handle \in [Children -> 0..MaxIncs]
    /\ stop \subseteq Ids /\ tasks \subseteq Ids /\ aborted \subseteq Ids
    /\ mail \in [Children -> 0..MaxMail]
    /\ down \in BOOLEAN /\ late \subseteq Children /\ owed \subseteq Ids

\* The mailbox of an actor has one reader: a new incarnation never runs beside an old one, so
\* messages are handled one at a time and in order across a restart.
OneLoopPerActor == \A c \in Children : Cardinality(Live(c)) <= 1

\* The table of tasks is what shutdown needs it to be: it holds every loop that runs, except in
\* the moments between the start of a task and its registration, and when the monitor of an actor
\* has returned nothing of the actor is left in it, in whichever order loop and monitor removed it.
TableExact ==
    \A c \in Children :
        /\ mon[c] = "returned" => \A n \in Incs : <<c, n>> \notin tasks
        /\ ~down => \A n \in Live(c) :
                        <<c, n>> \in tasks \/ spawning[c] = "loop" \/ mon[c] = "spawned"
        /\ Cardinality({n \in Incs : <<c, n>> \in tasks}) <= 2

\* More than max_restarts restarts of an actor never fall within within_secs: the limit holds for
\* every window of time, though only the restarts of the last one are remembered.
RestartRateBounded ==
    \A c \in Children :
        \A k \in DOMAIN restarts[c] :
            k + max_restarts \in DOMAIN restarts[c] =>
                restarts[c][k + max_restarts] - restarts[c][k] >= within_secs

\* When the parent ends, every child that runs then ends for good, also one that was restarted
\* before: the stop goes to the incarnation that runs and not to the one the child was spawned
\* with. Missed are a child that is between two incarnations at that moment and a child under a
\* restarting strategy that panics before it looks at its stop channel: its next incarnation has a
\* channel of its own.
StopReachesChildren ==
    parent = "ended" ~>
        \A i \in owed : \/ Live(i[1]) = {}
                        \/ kind[i[1]] = "restart" /\ loop[i[1]][i[2]] = "panicked"

\* After shutdown every actor ends, except one that was being spawned or restarted while the table
\* was drained.
ShutdownEndsActors == down ~> \A c \in Children \ late : Live(c) = {}
=============================================================================
