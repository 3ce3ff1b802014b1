------------------------------ MODULE ActorRuntimeProofs ------------------------------
(* Proofs about the actor runtime, for any number of children, ways of supervision, restart      *)
(* limits and bounds.                                                                            *)
(*                                                                                               *)
(* The monitor of a child is the only one that creates incarnations, and it does so only after   *)
(* the join of the one before: incarnations before the watched one are over, those after it are  *)
(* unborn, and between a panic and the next wait the watched one is the dead one (Order). From   *)
(* this the table follows: a child has an entry at most for the watched incarnation and the one  *)
(* about to replace it (Entries), and a loop that lives is entered unless its registration is    *)
(* still to come (Entered).                                                                      *)
(*                                                                                               *)
(* For the restart limit an invariant of its own says what the handle remembers: the last of     *)
(* the restarts there were, all but those that had left the window when it was last cleaned      *)
(* (Remembers). Time only goes on, so what was forgotten stays outside every later window.       *)
EXTENDS ActorRuntime, FiniteSetTheorems, SequenceTheorems, TLAPS

\* The monitor has seen a panic and makes the next incarnation.
Restarting(c) == mon[c] \in {"pre_restart", "spawned", "registered", "swapped"}

\* The next incarnation exists beside the dead one.
Replaced(c) == mon[c] \in {"spawned", "registered", "swapped"}

\* There is no monitor before the spawn has come to it, and one ever after.
Spawned(c) ==
    /\ mon[c] = "none" <=> spawning[c] \in {"no", "loop", "registered"}
    /\ mon[c] = "none" => cur[c] = 1
    /\ spawning[c] = "no" => loop[c][1] = "unborn"

Order(c) ==
    /\ Restarting(c) => cur[c] + 1 \in Incs /\ loop[c][cur[c]] = "panicked"
    /\ mon[c] = "returned" => loop[c][cur[c]] \notin Alive
    /\ \A n \in Incs :
        /\ n < cur[c] => loop[c][n] \notin Alive
        /\ n > cur[c] => loop[c][n] = "unborn" \/ (n = cur[c] + 1 /\ Replaced(c))

Entries(c) ==
    \A n \in Incs :
        <<c, n>> \in tasks =>
            \/ n = cur[c] /\ mon[c] # "returned" /\ spawning[c] \notin {"no", "loop"}
            \/ n = cur[c] + 1 /\ mon[c] \in {"registered", "swapped"}

Entered(c) ==
    ~down => \A n \in Incs :
        loop[c][n] \in Alive => <<c, n>> \in tasks \/ spawning[c] = "loop" \/ mon[c] = "spawned"

Inv ==
    /\ TypeOK
    /\ \A c \in Children : Spawned(c) /\ Order(c) /\ Entries(c) /\ Entered(c)

-----------------------------------------------------------------------------
(* Initial states                                                                                *)

LEMMA InitInv == Init => Inv
<1> USE ConstantsAssumption DEF Incs, Ids, Alive
<1> SUFFICES ASSUME Init PROVE Inv
  OBVIOUS
<1>1. TypeOK
  <2>1. kind \in [Children -> AllKinds]
    BY DEF Init
  <2>2. 1 \in Incs /\ cur \in [Children -> Incs]
    BY DEF Init
  <2>3. loop \in [Children -> [Incs -> Alive \cup {"unborn", "ok", "panicked", "aborted"}]]
    BY DEF Init
  <2>4. mail \in [Children -> 0..MaxMail] /\ handle \in [Children -> 0..MaxIncs]
    BY DEF Init
  <2>5. spawning = [c \in Children |-> "no"] /\ mon = [c \in Children |-> "none"]
        /\ parent = "up" /\ down = FALSE
        /\ stop = {} /\ tasks = {} /\ aborted = {} /\ late = {} /\ owed = {}
    BY DEF Init
  <2> QED
    BY <2>1, <2>2, <2>3, <2>4, <2>5 DEF TypeOK
<1>2. ASSUME NEW c \in Children
      PROVE  Spawned(c) /\ Order(c) /\ Entries(c) /\ Entered(c)
  BY DEF Init, Spawned, Order, Entries, Entered, Restarting, Replaced
<1> QED
  BY <1>1, <1>2 DEF Inv

-----------------------------------------------------------------------------
(* The steps as far as the invariant looks at them                                              *)

\* A loop goes on, or ends; one that ends by itself removes its entry.
LoopMoves(c, n) ==
    /\ loop[c][n] \in Alive
    /\ \E s \in {"running", "ok", "panicked", "aborted"} :
        /\ loop' = [loop EXCEPT ![c][n] = s]
        /\ tasks' = tasks \/ (s = "ok" /\ tasks' = tasks \ {<<c, n>>})
    /\ UNCHANGED <<spawning, mon, cur, down>>

\* A monitor is through with its child.
Returned(c) ==
    /\ mon[c] = "waiting" /\ loop[c][cur[c]] \in {"ok", "aborted", "panicked"}
    /\ mon' = [mon EXCEPT ![c] = "returned"]
    /\ tasks' = tasks \ {<<c, cur[c]>>}
    /\ UNCHANGED <<spawning, loop, cur, down>>

\* A monitor begins a restart.
RestartBegins(c) ==
    /\ mon[c] = "waiting" /\ loop[c][cur[c]] = "panicked" /\ cur[c] < MaxIncs
    /\ mon' = [mon EXCEPT ![c] = "pre_restart"]
    /\ UNCHANGED <<spawning, loop, cur, tasks, down>>

Unaffected == UNCHANGED <<spawning, loop, mon, cur, tasks, down>>

StepOf(c) ==
    \/ SpawnLoop(c) \/ register(c) \/ SpawnMonitor(c) \/ PushHandle(c)
    \/ \E n \in Incs : LoopMoves(c, n)
    \/ Returned(c) \/ RestartBegins(c)
    \/ RestartLoop(c) \/ RestartRegister(c) \/ SwapHandle(c) \/ MonitorResumes(c)

(* Every step is one of these.                                                                   *)
LEMMA Shapes ==
    ASSUME [Next]_vars PROVE (\E c \in Children : StepOf(c)) \/ shutdown \/ Unaffected
<1>1. ASSUME NEW c \in Children, NEW n \in Incs,
             PreStart(c, n) \/ Handle(c, n) \/ StopSeen(c, n) \/ AbortTaken(c, n)
      PROVE  LoopMoves(c, n) \/ Unaffected
  <2>1. CASE PreStart(c, n)
    BY <2>1 DEF PreStart, Runs, Goes, LoopMoves, Alive
  <2>2. CASE Handle(c, n)
    BY <2>2 DEF Handle, Runs, Goes, LoopEnds, LoopMoves, Alive, Unaffected
  <2>3. CASE StopSeen(c, n)
    BY <2>3 DEF StopSeen, Runs, Goes, LoopEnds, LoopMoves, Alive
  <2>4. CASE AbortTaken(c, n)
    BY <2>4 DEF AbortTaken, Goes, LoopMoves
  <2> QED
    BY <1>1, <2>1, <2>2, <2>3, <2>4
<1>2. ASSUME NEW c \in Children, MonitorEnds(c) \/ MonitorGivesUp(c) \/ MonitorRestarts(c)
      PROVE  Returned(c) \/ RestartBegins(c)
  <2>1. CASE MonitorEnds(c) \/ MonitorGivesUp(c)
    BY <2>1 DEF MonitorEnds, MonitorGivesUp, MonitorReturns, Joined, Returned
  <2>2. CASE MonitorRestarts(c)
    BY <2>2 DEF MonitorRestarts, MonitorReturns, Joined, Returned, RestartBegins
  <2> QED
    BY <1>2, <2>1, <2>2
<1>3. ASSUME NEW c \in Children, Send(c)
      PROVE  Unaffected
  BY <1>3 DEF Send, Unaffected
<1>4. CASE ParentEnds \/ ParentVanishes \/ Tick \/ UNCHANGED vars
  BY <1>4 DEF ParentEnds, ParentVanishes, Tick, vars, Unaffected
<1> QED
  BY <1>1, <1>2, <1>3, <1>4 DEF Next, StepOf

-----------------------------------------------------------------------------
(* Types                                                                                         *)

(* A loop that goes to a state of loops keeps the type.                                          *)
LEMMA GoesTyped ==
    ASSUME TypeOK, NEW c \in Children, NEW n \in Incs,
           NEW s \in {"starting", "running", "ok", "panicked", "aborted"}, Goes(c, n, s)
    PROVE  loop' \in [Children -> [Incs -> Alive \cup {"unborn", "ok", "panicked", "aborted"}]]
  BY DEF TypeOK, Goes, Alive

(* Every step keeps the types: the monitor never counts beyond the incarnations there are, since *)
(* it restarts only below the bound.                                                             *)
LEMMA TypeStep == ASSUME Inv, [Next]_vars PROVE TypeOK'
<1> USE ConstantsAssumption DEF Inv, TypeOK, Incs, Ids, Alive
<1>1. ASSUME NEW c \in Children, SpawnLoop(c)
      PROVE  TypeOK'
  BY <1>1 DEF SpawnLoop
<1>2. ASSUME NEW c \in Children, register(c)
      PROVE  TypeOK'
  <2>1. <<c, 1>> \in Ids
    OBVIOUS
  <2>2. tasks' \subseteq Ids
    BY <1>2, <2>1 DEF register
  <2> QED
    BY <1>2, <2>2 DEF register
<1>3. ASSUME NEW c \in Children, SpawnMonitor(c)
      PROVE  TypeOK'
  BY <1>3 DEF SpawnMonitor
<1>4. ASSUME NEW c \in Children, PushHandle(c)
      PROVE  TypeOK'
  BY <1>4 DEF PushHandle
<1>5. ASSUME NEW c \in Children, NEW n \in Incs, PreStart(c, n)
      PROVE  TypeOK'
  <2>1. Goes(c, n, "running") \/ Goes(c, n, "panicked")
    BY <1>5 DEF PreStart
  <2>2. loop' \in [Children -> [Incs -> Alive \cup {"unborn", "ok", "panicked", "aborted"}]]
    BY <2>1, GoesTyped
  <2> QED
    BY <1>5, <2>2 DEF PreStart
<1>6. ASSUME NEW c \in Children, NEW n \in Incs, Handle(c, n)
      PROVE  TypeOK'
  <2>1. /\ loop' = loop \/ Goes(c, n, "panicked") \/ Goes(c, n, "ok")
        /\ tasks' \subseteq tasks
    BY <1>6 DEF Handle, LoopEnds
  <2>2. loop' \in [Children -> [Incs -> Alive \cup {"unborn", "ok", "panicked", "aborted"}]]
    BY <2>1, GoesTyped
  <2>3. mail' \in [Children -> 0..MaxMail]
    BY <1>6 DEF Handle
  <2> QED
    BY <1>6, <2>1, <2>2, <2>3 DEF Handle
<1>7. ASSUME NEW c \in Children, NEW n \in Incs, StopSeen(c, n)
      PROVE  TypeOK'
  BY <1>7 DEF StopSeen, Goes, LoopEnds
<1>8. ASSUME NEW c \in Children, NEW n \in Incs, AbortTaken(c, n)
      PROVE  TypeOK'
  BY <1>8 DEF AbortTaken, Goes
<1>9. ASSUME NEW c \in Children, MonitorEnds(c)
      PROVE  TypeOK'
  BY <1>9 DEF MonitorEnds, MonitorReturns
<1>10. ASSUME NEW c \in Children, MonitorGivesUp(c)
      PROVE  TypeOK'
  BY <1>10 DEF MonitorGivesUp, MonitorReturns
<1>11. ASSUME NEW c \in Children, MonitorRestarts(c)
      PROVE  TypeOK'
  <2>1. \/ /\ mon' = [mon EXCEPT ![c] = "pre_restart"]
           /\ handle' = handle /\ tasks' = tasks
        \/ MonitorReturns(c)
    BY <1>11 DEF MonitorRestarts
  <2>2. /\ mon' \in [Children -> {"none", "waiting", "pre_restart", "spawned", "registered",
                                  "swapped", "returned"}]
        /\ handle' \in [Children -> 0..MaxIncs] /\ tasks' \subseteq tasks
    <3>1. CASE MonitorReturns(c)
      BY <3>1 DEF MonitorReturns
    <3>2. CASE ~MonitorReturns(c)
      BY <2>1, <3>2
    <3> QED
      BY <3>1, <3>2
  <2> QED
    BY <1>11, <2>2 DEF MonitorRestarts
<1>12. ASSUME NEW c \in Children, RestartLoop(c)
      PROVE  TypeOK'
  BY <1>12 DEF RestartLoop, Goes, Order, Restarting
<1>13. ASSUME NEW c \in Children, RestartRegister(c)
      PROVE  TypeOK'
  <2>1. cur[c] + 1 \in Incs
    BY <1>13 DEF RestartRegister, Order, Restarting
  <2>2. tasks' \subseteq Ids
    BY <1>13, <2>1 DEF RestartRegister
  <2>3. mon' \in [Children -> {"none", "waiting", "pre_restart", "spawned", "registered",
                            "swapped", "returned"}]
    BY <1>13 DEF RestartRegister
  <2> QED
    BY <1>13, <2>2, <2>3 DEF RestartRegister
<1>14. ASSUME NEW c \in Children, SwapHandle(c)
      PROVE  TypeOK'
  <2>1. cur[c] + 1 \in Incs
    BY <1>14 DEF SwapHandle, Order, Restarting
  <2>2. handle' \in [Children -> 0..MaxIncs]
    BY <1>14, <2>1 DEF SwapHandle
  <2>3. mon' \in [Children -> {"none", "waiting", "pre_restart", "spawned", "registered",
                            "swapped", "returned"}]
    BY <1>14 DEF SwapHandle
  <2> QED
    BY <1>14, <2>2, <2>3 DEF SwapHandle
<1>15. ASSUME NEW c \in Children, MonitorResumes(c)
      PROVE  TypeOK'
  BY <1>15 DEF MonitorResumes, Order, Restarting
<1>16. ASSUME NEW c \in Children, Send(c)
      PROVE  TypeOK'
  BY <1>16 DEF Send
<1>17. CASE ParentEnds
  <2>1. stop' \subseteq Ids
    <3>1. \A c \in Children : handle[c] # 0 => <<c, handle[c]>> \in Ids
      OBVIOUS
    <3> QED
      BY <1>17, <3>1 DEF ParentEnds
  <2>2. owed' \subseteq Ids
    BY <1>17 DEF ParentEnds
  <2> QED
    BY <1>17, <2>1, <2>2 DEF ParentEnds
<1>18. CASE ParentVanishes
  BY <1>18 DEF ParentVanishes
<1>19. CASE Tick
  BY <1>19 DEF Tick
<1>20. CASE shutdown
  BY <1>20 DEF shutdown, Between
<1>21. CASE UNCHANGED vars
  BY <1>21 DEF vars
<1> QED
  BY <1>1, <1>2, <1>3, <1>4, <1>5, <1>6, <1>7, <1>8, <1>9, <1>10, <1>11, <1>12, <1>13,
     <1>14, <1>15, <1>16, <1>17, <1>18, <1>19, <1>20, <1>21 DEF Next

-----------------------------------------------------------------------------
(* Steps                                                                                         *)

(* Every step keeps the order of a spawn: loop, entry, monitor, handle.                         *)
LEMMA SpawnedStep == ASSUME Inv, [Next]_vars, NEW d \in Children PROVE Spawned(d)'
<1> USE ConstantsAssumption DEF Inv, TypeOK, Incs, Ids, Alive, Spawned
<1>1. ASSUME NEW c \in Children, SpawnLoop(c)
      PROVE  Spawned(d)'
  BY <1>1 DEF SpawnLoop
<1>2. ASSUME NEW c \in Children, register(c)
      PROVE  Spawned(d)'
  BY <1>2 DEF register
<1>3. ASSUME NEW c \in Children, SpawnMonitor(c)
      PROVE  Spawned(d)'
  BY <1>3 DEF SpawnMonitor
<1>4. ASSUME NEW c \in Children, PushHandle(c)
      PROVE  Spawned(d)'
  BY <1>4 DEF PushHandle
<1>5. ASSUME NEW c \in Children, NEW n \in Incs, LoopMoves(c, n)
      PROVE  Spawned(d)'
  BY <1>5 DEF LoopMoves
<1>6. ASSUME NEW c \in Children, Returned(c)
      PROVE  Spawned(d)'
  BY <1>6 DEF Returned
<1>7. ASSUME NEW c \in Children, RestartBegins(c)
      PROVE  Spawned(d)'
  BY <1>7 DEF RestartBegins
<1>8. ASSUME NEW c \in Children, RestartLoop(c)
      PROVE  Spawned(d)'
  BY <1>8 DEF RestartLoop, Goes
<1>9. ASSUME NEW c \in Children, RestartRegister(c)
      PROVE  Spawned(d)'
  BY <1>9 DEF RestartRegister
<1>10. ASSUME NEW c \in Children, SwapHandle(c)
      PROVE  Spawned(d)'
  BY <1>10 DEF SwapHandle
<1>11. ASSUME NEW c \in Children, MonitorResumes(c)
      PROVE  Spawned(d)'
  BY <1>11 DEF MonitorResumes
<1>12. CASE shutdown
  BY <1>12 DEF shutdown
<1>13. CASE Unaffected
  BY <1>13 DEF Unaffected
<1> QED
  BY <1>1, <1>2, <1>3, <1>4, <1>5, <1>6, <1>7, <1>8, <1>9, <1>10, <1>11, <1>12, <1>13,
     Shapes DEF StepOf

(* Every step keeps the incarnations in order: a loop is started only after the join of the one  *)
(* before it, or by the spawn.                                                                   *)
LEMMA OrderStep == ASSUME Inv, [Next]_vars, NEW d \in Children PROVE Order(d)'
<1> USE ConstantsAssumption DEF Inv, TypeOK, Incs, Ids, Alive, Order, Restarting, Replaced, Spawned
<1>1. ASSUME NEW c \in Children, SpawnLoop(c)
      PROVE  Order(d)'
  BY <1>1 DEF SpawnLoop
<1>2. ASSUME NEW c \in Children, register(c)
      PROVE  Order(d)'
  BY <1>2 DEF register
<1>3. ASSUME NEW c \in Children, SpawnMonitor(c)
      PROVE  Order(d)'
  BY <1>3 DEF SpawnMonitor
<1>4. ASSUME NEW c \in Children, PushHandle(c)
      PROVE  Order(d)'
  BY <1>4 DEF PushHandle
<1>5. ASSUME NEW c \in Children, NEW n \in Incs, LoopMoves(c, n)
      PROVE  Order(d)'
  BY <1>5 DEF LoopMoves
<1>6. ASSUME NEW c \in Children, Returned(c)
      PROVE  Order(d)'
  BY <1>6 DEF Returned
<1>7. ASSUME NEW c \in Children, RestartBegins(c)
      PROVE  Order(d)'
  BY <1>7 DEF RestartBegins
<1>8. ASSUME NEW c \in Children, RestartLoop(c)
      PROVE  Order(d)'
  BY <1>8 DEF RestartLoop, Goes
<1>9. ASSUME NEW c \in Children, RestartRegister(c)
      PROVE  Order(d)'
  BY <1>9 DEF RestartRegister
<1>10. ASSUME NEW c \in Children, SwapHandle(c)
      PROVE  Order(d)'
  BY <1>10 DEF SwapHandle
<1>11. ASSUME NEW c \in Children, MonitorResumes(c)
      PROVE  Order(d)'
  BY <1>11 DEF MonitorResumes
<1>12. CASE shutdown
  BY <1>12 DEF shutdown
<1>13. CASE Unaffected
  BY <1>13 DEF Unaffected
<1> QED
  BY <1>1, <1>2, <1>3, <1>4, <1>5, <1>6, <1>7, <1>8, <1>9, <1>10, <1>11, <1>12, <1>13,
     Shapes DEF StepOf

(* Every step keeps the table free of entries of incarnations that were given up.                *)
LEMMA EntriesStep == ASSUME Inv, [Next]_vars, NEW d \in Children PROVE Entries(d)'
<1> USE ConstantsAssumption DEF Inv, TypeOK, Incs, Ids, Alive, Entries, Order, Spawned, Restarting,
            Replaced
<1>1. ASSUME NEW c \in Children, SpawnLoop(c)
      PROVE  Entries(d)'
  BY <1>1 DEF SpawnLoop
<1>2. ASSUME NEW c \in Children, register(c)
      PROVE  Entries(d)'
  BY <1>2 DEF register
<1>3. ASSUME NEW c \in Children, SpawnMonitor(c)
      PROVE  Entries(d)'
  BY <1>3 DEF SpawnMonitor
<1>4. ASSUME NEW c \in Children, PushHandle(c)
      PROVE  Entries(d)'
  BY <1>4 DEF PushHandle
<1>5. ASSUME NEW c \in Children, NEW n \in Incs, LoopMoves(c, n)
      PROVE  Entries(d)'
  BY <1>5 DEF LoopMoves
<1>6. ASSUME NEW c \in Children, Returned(c)
      PROVE  Entries(d)'
  BY <1>6 DEF Returned
<1>7. ASSUME NEW c \in Children, RestartBegins(c)
      PROVE  Entries(d)'
  BY <1>7 DEF RestartBegins
<1>8. ASSUME NEW c \in Children, RestartLoop(c)
      PROVE  Entries(d)'
  BY <1>8 DEF RestartLoop, Goes
<1>9. ASSUME NEW c \in Children, RestartRegister(c)
      PROVE  Entries(d)'
  BY <1>9 DEF RestartRegister
<1>10. ASSUME NEW c \in Children, SwapHandle(c)
      PROVE  Entries(d)'
  BY <1>10 DEF SwapHandle
<1>11. ASSUME NEW c \in Children, MonitorResumes(c)
      PROVE  Entries(d)'
  BY <1>11 DEF MonitorResumes
<1>12. CASE shutdown
  BY <1>12 DEF shutdown
<1>13. CASE Unaffected
  BY <1>13 DEF Unaffected
<1> QED
  BY <1>1, <1>2, <1>3, <1>4, <1>5, <1>6, <1>7, <1>8, <1>9, <1>10, <1>11, <1>12, <1>13,
     Shapes DEF StepOf

(* Every step keeps living loops in the table, or their registration still to come.              *)
LEMMA EnteredStep == ASSUME Inv, [Next]_vars, NEW d \in Children PROVE Entered(d)'
<1> USE ConstantsAssumption DEF Inv, TypeOK, Incs, Ids, Alive, Entered, Order, Spawned, Restarting,
            Replaced
<1>1. ASSUME NEW c \in Children, SpawnLoop(c)
      PROVE  Entered(d)'
  BY <1>1 DEF SpawnLoop
<1>2. ASSUME NEW c \in Children, register(c)
      PROVE  Entered(d)'
  <2>1. CASE c = d
    <3>1. cur[d] = 1 /\ mon[d] = "none" /\ \A n \in Incs : n > 1 => loop[d][n] = "unborn"
      BY <1>2, <2>1 DEF register
    <3>2. \A n \in Incs : loop'[d][n] \in Alive => <<d, n>> \in tasks'
      BY <1>2, <2>1, <3>1 DEF register
    <3> QED
      BY <3>2
  <2>2. CASE c # d
    BY <1>2, <2>2 DEF register
  <2> QED
    BY <2>1, <2>2
<1>3. ASSUME NEW c \in Children, SpawnMonitor(c)
      PROVE  Entered(d)'
  BY <1>3 DEF SpawnMonitor
<1>4. ASSUME NEW c \in Children, PushHandle(c)
      PROVE  Entered(d)'
  BY <1>4 DEF PushHandle
<1>5. ASSUME NEW c \in Children, NEW n \in Incs, LoopMoves(c, n)
      PROVE  Entered(d)'
  BY <1>5 DEF LoopMoves
<1>6. ASSUME NEW c \in Children, Returned(c)
      PROVE  Entered(d)'
  BY <1>6 DEF Returned
<1>7. ASSUME NEW c \in Children, RestartBegins(c)
      PROVE  Entered(d)'
  BY <1>7 DEF RestartBegins
<1>8. ASSUME NEW c \in Children, RestartLoop(c)
      PROVE  Entered(d)'
  BY <1>8 DEF RestartLoop, Goes
<1>9. ASSUME NEW c \in Children, RestartRegister(c)
      PROVE  Entered(d)'
  <2>1. CASE c = d
    <3>1. ASSUME NEW n \in Incs, loop[d][n] \in Alive PROVE n = cur[d] + 1
      <4>1. Restarting(d) /\ cur[d] \in Incs
        BY <1>9, <2>1 DEF RestartRegister
      <4>2. loop[d][cur[d]] = "panicked" /\ ~(n < cur[d]) /\ n # cur[d]
        BY <3>1, <4>1
      <4>3. n > cur[d] /\ loop[d][n] # "unborn"
        BY <3>1, <4>1, <4>2
      <4> QED
        BY <4>3
    <3>2. \A n \in Incs : loop'[d][n] \in Alive => <<d, n>> \in tasks'
      BY <1>9, <2>1, <3>1 DEF RestartRegister
    <3> QED
      BY <3>2
  <2>2. CASE c # d
    BY <1>9, <2>2 DEF RestartRegister
  <2> QED
    BY <2>1, <2>2
<1>10. ASSUME NEW c \in Children, SwapHandle(c)
      PROVE  Entered(d)'
  BY <1>10 DEF SwapHandle
<1>11. ASSUME NEW c \in Children, MonitorResumes(c)
      PROVE  Entered(d)'
  BY <1>11 DEF MonitorResumes
<1>12. CASE shutdown
  BY <1>12 DEF shutdown
<1>13. CASE Unaffected
  BY <1>13 DEF Unaffected
<1> QED
  BY <1>1, <1>2, <1>3, <1>4, <1>5, <1>6, <1>7, <1>8, <1>9, <1>10, <1>11, <1>12, <1>13,
     Shapes DEF StepOf

-----------------------------------------------------------------------------
(* Theorems                                                                                      *)

(* The inductive invariant holds of every state of the runtime.                                  *)
THEOREM Invariant == Spec => []Inv
<1>1. Init => Inv
  BY InitInv
<1>2. Inv /\ [Next]_vars => Inv'
  <2> SUFFICES ASSUME Inv, [Next]_vars PROVE Inv'
    OBVIOUS
  <2>1. TypeOK'
    BY TypeStep
  <2>2. ASSUME NEW c \in Children PROVE Spawned(c)' /\ Order(c)' /\ Entries(c)' /\ Entered(c)'
    BY SpawnedStep, OrderStep, EntriesStep, EnteredStep
  <2> QED
    BY <2>1, <2>2 DEF Inv
<1> QED
  BY <1>1, <1>2, PTL DEF Spec

(* Every state of the runtime has its type: handles, stops and entries name incarnations.        *)
THEOREM TypeCorrect == Spec => []TypeOK
<1>1. Inv => TypeOK
  BY DEF Inv
<1> QED
  BY <1>1, Invariant, PTL

(* The loops of one actor never run side by side, however its spawn, its panics, restarts, stops *)
(* and the shutdown interleave, so a mailbox has one reader.                                     *)
THEOREM OneLoopInvariant == Spec => []OneLoopPerActor
<1>1. ASSUME Inv, NEW c \in Children PROVE Cardinality(Live(c)) <= 1
  <2> DEFINE k == IF Replaced(c) THEN cur[c] + 1 ELSE cur[c]
  <2>1. Live(c) \subseteq {k}
    BY <1>1, ConstantsAssumption DEF Inv, TypeOK, Order, Restarting, Replaced, Live, Alive, Incs
  <2>2. IsFiniteSet({k}) /\ Cardinality({k}) = 1
    BY FS_Singleton
  <2> QED
    BY <2>1, <2>2, FS_Subset
<1>2. Inv => OneLoopPerActor
  BY <1>1 DEF OneLoopPerActor
<1> QED
  BY <1>2, Invariant, PTL

(* The table of tasks holds every loop that runs, up to the moment between its start and its     *)
(* registration, nothing of an actor whose monitor has returned, and never more than the dead    *)
(* incarnation beside the new one.                                                               *)
THEOREM TableExactInvariant == Spec => []TableExact
<1>1. ASSUME Inv, NEW c \in Children
      PROVE  Cardinality({n \in Incs : <<c, n>> \in tasks}) <= 2
  <2> DEFINE S == {n \in Incs : <<c, n>> \in tasks}
  <2>1. cur[c] \in Int /\ cur[c] + 1 # cur[c]
    BY <1>1 DEF Inv, TypeOK, Incs
  <2>2. S \subseteq {cur[c], cur[c] + 1}
    BY <1>1 DEF Inv, Entries
  <2>3. IsFiniteSet({cur[c], cur[c] + 1}) /\ Cardinality({cur[c], cur[c] + 1}) = 2
    <3>1. IsFiniteSet({cur[c]}) /\ Cardinality({cur[c]}) = 1 /\ cur[c] + 1 \notin {cur[c]}
      BY <2>1, FS_Singleton
    <3>2. {cur[c], cur[c] + 1} = {cur[c]} \cup {cur[c] + 1}
      OBVIOUS
    <3>3. /\ IsFiniteSet({cur[c]} \cup {cur[c] + 1})
          /\ Cardinality({cur[c]} \cup {cur[c] + 1}) = 1 + 1
      BY <3>1, FS_AddElement
    <3> QED
      BY <3>2, <3>3
  <2> HIDE DEF S
  <2>4. Cardinality(S) <= 2
    BY <2>2, <2>3, FS_Subset
  <2> QED
    BY <2>4 DEF S
<1>2. ASSUME Inv, NEW c \in Children, mon[c] = "returned", NEW n \in Incs
      PROVE  <<c, n>> \notin tasks
  BY <1>2 DEF Inv, Entries
<1>3. ASSUME Inv, NEW c \in Children, ~down, NEW n \in Live(c)
      PROVE  <<c, n>> \in tasks \/ spawning[c] = "loop" \/ mon[c] = "spawned"
  BY <1>3 DEF Inv, Entered, Live
<1>4. Inv => TableExact
  BY <1>1, <1>2, <1>3 DEF TableExact
<1> QED
  BY <1>4, Invariant, PTL
-----------------------------------------------------------------------------
(* The restart limit                                                                             *)

Ascending(s) == \A j, k \in DOMAIN s : j <= k => s[j] <= s[k]

\* No max_restarts + 1 restarts of the history lie within within_secs.
RateBounded(history) ==
    \A k \in DOMAIN history :
        k + max_restarts \in DOMAIN history =>
            history[k + max_restarts] - history[k] >= within_secs

\* What is remembered of a history: its last members, and of the others that they are expired.
Remembers(history, memory, now) ==
    /\ history \in Seq(Nat) /\ memory \in Seq(Nat) /\ now \in Nat
    /\ Ascending(history)
    /\ \A k \in DOMAIN history : history[k] <= now
    /\ Len(memory) <= Len(history)
    /\ \A k \in DOMAIN memory : memory[k] = history[Len(history) - Len(memory) + k]
    /\ \A k \in 1..(Len(history) - Len(memory)) : now - history[k] >= within_secs

\* What retain drops of a memory.
Dropped(memory, now) == {k \in DOMAIN memory : now - memory[k] >= within_secs}

LimitInv ==
    /\ times \in [Children -> Seq(Nat)] /\ restarts \in [Children -> Seq(Nat)]
    /\ clock \in Nat
    /\ \A c \in Children : /\ Remembers(restarts[c], times[c], clock)
                           /\ RateBounded(restarts[c])

(* Of restarts in the order they happened, the expired ones are the first ones.                  *)
LEMMA DroppedFirst ==
    ASSUME NEW memory \in Seq(Nat), NEW now \in Nat, Ascending(memory)
    PROVE  /\ Cardinality(Dropped(memory, now)) \in 0..Len(memory)
           /\ Dropped(memory, now) = 1..Cardinality(Dropped(memory, now))
<1> DEFINE E == Dropped(memory, now)
           n == Cardinality(E)
<1>1. E \subseteq 1..Len(memory) /\ Len(memory) \in Nat
  BY DEF Dropped
<1>2. IsFiniteSet(1..Len(memory)) /\ Cardinality(1..Len(memory)) = Len(memory)
  BY <1>1, FS_Interval
<1>3. IsFiniteSet(E) /\ n <= Len(memory)
  <2>1. E \in SUBSET (1..Len(memory))
    BY <1>1
  <2>2. IsFiniteSet(E) /\ Cardinality(E) <= Cardinality(1..Len(memory))
    BY <1>2, <2>1, FS_Subset
  <2> QED
    BY <1>2, <2>2
<1>4. n \in Nat
  BY <1>3, FS_CardinalityType
<1> HIDE DEF E, n
<1>5. ASSUME NEW k \in E PROVE k \in 1..n
  <2>1. k \in 1..Len(memory) /\ now - memory[k] >= within_secs
    BY <1>1 DEF Dropped, E
  <2>2. ASSUME NEW j \in 1..k PROVE j \in E
    <3>1. j \in DOMAIN memory /\ memory[j] <= memory[k]
      BY <2>1 DEF Ascending
    <3>2. memory[j] \in Nat /\ memory[k] \in Nat
      BY <2>1, <3>1
    <3>3. now - memory[j] >= within_secs
      BY <2>1, <3>1, <3>2, ConstantsAssumption
    <3> QED
      BY <3>1, <3>3 DEF Dropped, E
  <2>3. Cardinality(1..k) = k
    BY <2>1, FS_Interval
  <2>4. 1..k \subseteq E
    BY <2>2
  <2>5. Cardinality(1..k) <= Cardinality(E)
    BY <1>3, <2>4, FS_Subset
  <2>6. k <= n
    BY <2>3, <2>5 DEF n
  <2> QED
    BY <1>4, <2>1, <2>6
<1>6. IsFiniteSet(1..n) /\ Cardinality(1..n) = n
  BY <1>4, FS_Interval
<1>7. E \subseteq 1..n
  BY <1>5
<1>8. Cardinality(1..n) = Cardinality(E)
  BY <1>6 DEF n
<1>9. E = 1..n
  BY <1>6, <1>7, <1>8, FS_Subset
<1> QED
  BY <1>1, <1>3, <1>4, <1>9 DEF E, n

(* A restart the limit allows is remembered, and leaves the rate bounded: of the max_restarts    *)
(* restarts before it, the first is forgotten or expired.                                        *)
LEMMA RestartRemembered ==
    ASSUME NEW history, NEW memory, NEW now, Remembers(history, memory, now), RateBounded(history),
           NEW recent,
           recent = SubSeq(memory, Cardinality(Dropped(memory, now)) + 1, Len(memory)),
           Len(recent) < max_restarts
    PROVE  /\ Append(recent, now) \in Seq(Nat) /\ Append(history, now) \in Seq(Nat)
           /\ Remembers(Append(history, now), Append(recent, now), now)
           /\ RateBounded(Append(history, now))
<1> DEFINE h == Len(history)
           m == Len(memory)
           e == Cardinality(Dropped(memory, now))
           H == Append(history, now)
           M == Append(recent, now)
<1>1. /\ history \in Seq(Nat) /\ memory \in Seq(Nat) /\ now \in Nat /\ h \in Nat /\ m \in Nat
      /\ m <= h /\ max_restarts \in Nat /\ within_secs \in Nat
      /\ DOMAIN history = 1..h /\ DOMAIN memory = 1..m
  BY ConstantsAssumption DEF Remembers
<1>2. /\ \A j, k \in 1..h : j <= k => history[j] <= history[k]
      /\ \A k \in 1..h : history[k] \in Nat /\ history[k] <= now
  <2>1. Ascending(history) /\ \A k \in 1..h : history[k] <= now
    BY <1>1 DEF Remembers
  <2>2. \A k \in 1..h : history[k] \in Nat
    BY <1>1
  <2>3. \A j, k \in 1..h : j <= k => history[j] <= history[k]
    BY <1>1, <2>1 DEF Ascending
  <2> QED
    BY <2>1, <2>2, <2>3
<1>3. /\ \A k \in 1..m : memory[k] = history[h - m + k]
      /\ \A k \in 1..(h - m) : now - history[k] >= within_secs
  BY <1>1 DEF Remembers
<1>a. \A k \in 1..h : k + max_restarts \in 1..h =>
                          history[k + max_restarts] - history[k] >= within_secs
  BY <1>1 DEF RateBounded
<1> HIDE DEF h, m
<1>b. Ascending(memory)
  <2> SUFFICES ASSUME NEW j \in 1..m, NEW k \in 1..m, j <= k PROVE memory[j] <= memory[k]
    BY <1>1 DEF Ascending
  <2>1. h - m + j \in 1..h /\ h - m + k \in 1..h /\ h - m + j <= h - m + k
    BY <1>1
  <2> QED
    BY <1>2, <1>3, <2>1
<1>c. e \in 0..m /\ Dropped(memory, now) = 1..e
  BY <1>1, <1>b, DroppedFirst DEF m
<1> HIDE DEF e
<1>4. /\ recent \in Seq(Nat) /\ Len(recent) = m - e
      /\ \A k \in 1..(m - e) : recent[k] = memory[e + k]
  <2>1. recent = SubSeq(memory, e + 1, m)
    BY DEF e, m
  <2>a. \A k \in 1..m : memory[k] \in Nat
    BY <1>1
  <2>b. e + 1 \in Int /\ m \in Int /\ \A k \in (e + 1)..m : k \in 1..m
    BY <1>1, <1>c
  <2>c. \A k \in (e + 1)..m : memory[k] \in Nat
    BY <2>a, <2>b
  <2>2. m - (e + 1) + 1 = m - e /\ \A k \in 1..(m - e) : e + 1 + k - 1 = e + k
    BY <1>1, <1>c
  <2>3. /\ SubSeq(memory, e + 1, m) \in Seq(Nat)
        /\ Len(SubSeq(memory, e + 1, m)) = IF e + 1 <= m THEN m - (e + 1) + 1 ELSE 0
        /\ \A k \in 1..(m - (e + 1) + 1) : SubSeq(memory, e + 1, m)[k] = memory[e + 1 + k - 1]
    <3>1. ASSUME NEW a \in Int, NEW b \in Int, \A k \in a..b : memory[k] \in Nat
          PROVE  /\ SubSeq(memory, a, b) \in Seq(Nat)
                 /\ Len(SubSeq(memory, a, b)) = IF a <= b THEN b - a + 1 ELSE 0
                 /\ \A k \in 1..(b - a + 1) : SubSeq(memory, a, b)[k] = memory[a + k - 1]
      <4>1. PICK T : T = Nat
        OBVIOUS
      <4>2. \A k \in a..b : memory[k] \in T
        BY <3>1, <4>1
      <4>3. /\ SubSeq(memory, a, b) \in Seq(T)
            /\ Len(SubSeq(memory, a, b)) = IF a <= b THEN b - a + 1 ELSE 0
            /\ \A k \in 1..(b - a + 1) : SubSeq(memory, a, b)[k] = memory[a + k - 1]
        BY <4>2, SubSeqProperties
      <4> QED
        BY <4>1, <4>3
    <3> QED
      BY <2>b, <2>c, <3>1
  <2>4. (IF e + 1 <= m THEN m - (e + 1) + 1 ELSE 0) = m - e
    BY <1>1, <1>c
  <2>5. \A k \in 1..(m - e) : SubSeq(memory, e + 1, m)[k] = memory[e + k]
    BY <2>2, <2>3
  <2> QED
    BY <2>1, <2>3, <2>4, <2>5
<1>5. ASSUME NEW k \in 1..(m - e) PROVE recent[k] = history[h - (m - e) + k]
  <2>1. e + k \in 1..m /\ h - m + (e + k) = h - (m - e) + k
    BY <1>1, <1>c
  <2> QED
    BY <1>3, <1>4, <2>1
<1>6. ASSUME NEW k \in 1..(h - (m - e)) PROVE now - history[k] >= within_secs
  <2>1. CASE k <= h - m
    <3>1. k \in 1..(h - m)
      BY <1>1, <1>c, <2>1
    <3> QED
      BY <1>3, <3>1
  <2>2. CASE k > h - m
    <3>1. k - (h - m) \in 1..e /\ k - (h - m) \in 1..m /\ h - m + (k - (h - m)) = k
      BY <1>1, <1>c, <2>2
    <3>2. now - memory[k - (h - m)] >= within_secs
      BY <1>c, <3>1 DEF Dropped
    <3> QED
      BY <1>3, <3>1, <3>2
  <2> QED
    BY <1>1, <1>c, <2>1, <2>2
<1>7. /\ H \in Seq(Nat) /\ Len(H) = h + 1 /\ H[h + 1] = now /\ DOMAIN H = 1..(h + 1)
      /\ \A k \in 1..h : H[k] = history[k]
  BY <1>1 DEF h
<1>8. /\ M \in Seq(Nat) /\ Len(M) = m - e + 1 /\ M[m - e + 1] = now /\ DOMAIN M = 1..(m - e + 1)
      /\ \A k \in 1..(m - e) : M[k] = recent[k]
  <2>0. m - e \in Nat
    BY <1>1, <1>c
  <2>1. recent \in Seq(Nat) /\ Len(recent) = m - e /\ DOMAIN recent = 1..(m - e)
    BY <1>4
  <2> QED
    BY <1>1, <2>0, <2>1
<1> HIDE DEF H, M
<1>9. Len(H) - Len(M) = h - (m - e)
  BY <1>1, <1>c, <1>7, <1>8
<1>10. Remembers(H, M, now)
  <2>1. Ascending(H)
    <3> SUFFICES ASSUME NEW j \in 1..(h + 1), NEW k \in 1..(h + 1), j <= k PROVE H[j] <= H[k]
      BY <1>7 DEF Ascending
    <3>1. CASE k \in 1..h
      <4>1. j \in 1..h
        BY <1>1, <3>1
      <4> QED
        BY <1>2, <1>7, <3>1, <4>1
    <3>2. CASE k = h + 1
      <4>1. CASE j \in 1..h
        BY <1>2, <1>7, <3>2, <4>1
      <4>2. CASE j = h + 1
        BY <1>1, <1>7, <3>2, <4>2
      <4> QED
        BY <1>1, <4>1, <4>2
    <3> QED
      BY <1>1, <3>1, <3>2
  <2>2. ASSUME NEW k \in 1..(h + 1) PROVE H[k] <= now
    <3>1. CASE k \in 1..h
      BY <1>2, <1>7, <3>1
    <3>2. CASE k = h + 1
      BY <1>1, <1>7, <3>2
    <3> QED
      BY <1>1, <3>1, <3>2
  <2>3. Len(M) <= Len(H)
    BY <1>1, <1>c, <1>7, <1>8
  <2>4. ASSUME NEW k \in 1..(m - e + 1) PROVE M[k] = H[h - (m - e) + k]
    <3>1. CASE k \in 1..(m - e)
      <4>1. h - (m - e) + k \in 1..h
        BY <1>1, <1>c, <3>1
      <4>2. M[k] = recent[k]
        BY <1>8, <3>1
      <4>3. recent[k] = history[h - (m - e) + k]
        BY <1>5, <3>1
      <4>4. H[h - (m - e) + k] = history[h - (m - e) + k]
        BY <1>7, <4>1
      <4> QED
        BY <4>2, <4>3, <4>4
    <3>2. CASE k = m - e + 1
      <4>1. h - (m - e) + k = h + 1
        BY <1>1, <1>c, <3>2
      <4> QED
        BY <1>7, <1>8, <3>2, <4>1
    <3>3. k \in 1..(m - e) \/ k = m - e + 1
      BY <1>1, <1>c, SMTT(30)
    <3> QED
      BY <3>1, <3>2, <3>3
  <2>5. ASSUME NEW k \in 1..(h - (m - e)) PROVE now - H[k] >= within_secs
    <3>1. k \in 1..h
      BY <1>1, <1>c
    <3> QED
      BY <1>6, <1>7, <3>1
  <2> QED
    BY <1>1, <1>7, <1>8, <1>9, <2>1, <2>2, <2>3, <2>4, <2>5 DEF Remembers
<1>11. RateBounded(H)
  <2> SUFFICES ASSUME NEW k \in 1..(h + 1), k + max_restarts \in 1..(h + 1)
               PROVE  H[k + max_restarts] - H[k] >= within_secs
    BY <1>7 DEF RateBounded
  <2>1. CASE k + max_restarts \in 1..h
    <3>1. k \in 1..h
      BY <1>1, <2>1
    <3>2. H[k] = history[k] /\ H[k + max_restarts] = history[k + max_restarts]
      BY <1>7, <2>1, <3>1
    <3>3. history[k + max_restarts] - history[k] >= within_secs
      BY <1>a, <2>1, <3>1, SMTT(30)
    <3> QED
      BY <3>2, <3>3
  <2>2. CASE k + max_restarts = h + 1
    <3>1. k \in 1..(h - (m - e)) /\ k \in 1..h
      <4>1. m - e < max_restarts
        BY <1>4
      <4> QED
        BY <1>1, <1>c, <2>2, <4>1, SMTT(30)
    <3> QED
      BY <1>6, <1>7, <2>2, <3>1
  <2> QED
    BY <1>1, <2>1, <2>2
<1> QED
  BY <1>7, <1>8, <1>10, <1>11 DEF H, M

(* The clock takes nothing back: what was forgotten stays expired.                               *)
LEMMA LaterRemembers ==
    ASSUME NEW history, NEW memory, NEW now, Remembers(history, memory, now)
    PROVE  Remembers(history, memory, now + 1)
<1>1. history \in Seq(Nat) /\ now \in Nat /\ within_secs \in Nat
  BY ConstantsAssumption DEF Remembers
<1>2. ASSUME NEW k \in DOMAIN history PROVE history[k] <= now + 1
  <2>1. history[k] \in Nat /\ history[k] <= now
    BY <1>1 DEF Remembers
  <2> QED
    BY <1>1, <2>1
<1>3. ASSUME NEW k \in 1..(Len(history) - Len(memory)) PROVE now + 1 - history[k] >= within_secs
  <2>1. k \in DOMAIN history /\ now - history[k] >= within_secs
    BY <1>1 DEF Remembers
  <2>2. history[k] \in Nat
    BY <1>1, <2>1
  <2> QED
    BY <1>1, <2>1, <2>2
<1> QED
  BY <1>1, <1>2, <1>3 DEF Remembers

(* Only a restart and the clock change what the limit looks at.                                  *)
LEMMA LimitStep == LimitInv /\ [Next]_vars => LimitInv'
<1> SUFFICES ASSUME LimitInv, [Next]_vars PROVE LimitInv'
  OBVIOUS
<1>1. CASE UNCHANGED <<times, restarts, clock>>
  BY <1>1 DEF LimitInv, Remembers, RateBounded, Ascending
<1>2. CASE Tick
  <2>1. times' = times /\ restarts' = restarts /\ clock' = clock + 1 /\ clock + 1 \in Nat
    BY <1>2 DEF Tick, LimitInv
  <2>2. \A c \in Children : Remembers(restarts[c], times[c], clock + 1)
    BY LaterRemembers DEF LimitInv
  <2>3. \A c \in Children : Remembers(restarts'[c], times'[c], clock')
    BY <2>1, <2>2
  <2>4. \A c \in Children : RateBounded(restarts'[c])
    BY <2>1 DEF LimitInv
  <2> QED
    BY <2>1, <2>3, <2>4 DEF LimitInv
<1>3. ASSUME NEW c \in Children, Len(Recent(c)) < max_restarts,
             times' = [times EXCEPT ![c] = Append(Recent(c), clock)],
             restarts' = [restarts EXCEPT ![c] = Append(@, clock)],
             clock' = clock
      PROVE  LimitInv'
  <2>1. Recent(c) = SubSeq(times[c], Cardinality(Dropped(times[c], clock)) + 1, Len(times[c]))
    BY DEF Recent, Expired, Dropped
  <2>2. Remembers(restarts[c], times[c], clock) /\ RateBounded(restarts[c])
    BY DEF LimitInv
  <2>3. /\ Append(Recent(c), clock) \in Seq(Nat) /\ Append(restarts[c], clock) \in Seq(Nat)
        /\ Remembers(Append(restarts[c], clock), Append(Recent(c), clock), clock)
        /\ RateBounded(Append(restarts[c], clock))
    BY <1>3, <2>1, <2>2, RestartRemembered
  <2>4. /\ times'[c] = Append(Recent(c), clock) /\ restarts'[c] = Append(restarts[c], clock)
        /\ \A d \in Children \ {c} : times'[d] = times[d] /\ restarts'[d] = restarts[d]
    BY <1>3 DEF LimitInv
  <2>5. times' \in [Children -> Seq(Nat)] /\ restarts' \in [Children -> Seq(Nat)]
    BY <1>3, <2>3 DEF LimitInv
  <2>6. ASSUME NEW d \in Children
        PROVE  Remembers(restarts'[d], times'[d], clock') /\ RateBounded(restarts'[d])
    <3>1. CASE d = c
      BY <1>3, <2>3, <2>4, <3>1
    <3>2. CASE d # c
      BY <1>3, <2>4, <3>2 DEF LimitInv
    <3> QED
      BY <3>1, <3>2
  <2> QED
    BY <1>3, <2>5, <2>6 DEF LimitInv
<1>4. \/ UNCHANGED <<times, restarts, clock>>
      \/ Tick
      \/ \E c \in Children : /\ Len(Recent(c)) < max_restarts
                             /\ times' = [times EXCEPT ![c] = Append(Recent(c), clock)]
                             /\ restarts' = [restarts EXCEPT ![c] = Append(@, clock)]
                             /\ clock' = clock
  <2>1. ASSUME NEW c \in Children, MonitorRestarts(c)
        PROVE  \/ UNCHANGED <<times, restarts, clock>>
               \/ /\ Len(Recent(c)) < max_restarts
                  /\ times' = [times EXCEPT ![c] = Append(Recent(c), clock)]
                  /\ restarts' = [restarts EXCEPT ![c] = Append(@, clock)]
                  /\ clock' = clock
    BY <2>1 DEF MonitorRestarts
  <2>2. ASSUME NEW c \in Children, NEW n \in Incs,
               PreStart(c, n) \/ Handle(c, n) \/ StopSeen(c, n) \/ AbortTaken(c, n)
        PROVE  UNCHANGED <<times, restarts, clock>>
    BY <2>2 DEF PreStart, Handle, StopSeen, AbortTaken
  <2>3. ASSUME NEW c \in Children,
               \/ SpawnLoop(c) \/ register(c) \/ SpawnMonitor(c) \/ PushHandle(c)
               \/ MonitorEnds(c) \/ MonitorGivesUp(c)
               \/ RestartLoop(c) \/ RestartRegister(c) \/ SwapHandle(c) \/ MonitorResumes(c)
               \/ Send(c)
        PROVE  UNCHANGED <<times, restarts, clock>>
    BY <2>3 DEF SpawnLoop, register, SpawnMonitor, PushHandle, MonitorEnds, MonitorGivesUp,
                RestartLoop, RestartRegister, SwapHandle, MonitorResumes, Send
  <2>4. ASSUME ParentEnds \/ ParentVanishes \/ shutdown \/ UNCHANGED vars
        PROVE  UNCHANGED <<times, restarts, clock>>
    BY <2>4 DEF ParentEnds, ParentVanishes, shutdown, vars
  <2> QED
    BY <2>1, <2>2, <2>3, <2>4 DEF Next
<1> QED
  BY <1>1, <1>2, <1>3, <1>4

(* An actor is never restarted more than max_restarts times within within_secs: the limit holds  *)
(* for every window of time though check_restart_limit forgets what has left the last one.       *)
THEOREM RestartRateInvariant == Spec => []RestartRateBounded
<1>1. Init => LimitInv
  <2> SUFFICES ASSUME Init PROVE LimitInv
    OBVIOUS
  <2>1. <<>> \in Seq(Nat) /\ Len(<<>>) = 0 /\ DOMAIN <<>> = {}
    OBVIOUS
  <2>2. clock = 0 /\ \A c \in Children : times[c] = <<>> /\ restarts[c] = <<>>
    BY DEF Init
  <2>3. times \in [Children -> Seq(Nat)] /\ restarts \in [Children -> Seq(Nat)]
    BY <2>1 DEF Init
  <2>4. ASSUME NEW c \in Children
        PROVE  Remembers(restarts[c], times[c], clock) /\ RateBounded(restarts[c])
    <3>1. Ascending(<<>>) /\ RateBounded(<<>>) /\ 1..(0 - 0) = {}
      BY <2>1 DEF Ascending, RateBounded
    <3>2. Remembers(<<>>, <<>>, 0)
      BY <2>1, <3>1 DEF Remembers
    <3> QED
      BY <2>2, <3>1, <3>2
  <2> QED
    BY <2>2, <2>3, <2>4 DEF LimitInv
<1>2. LimitInv => RestartRateBounded
  BY DEF LimitInv, RateBounded, RestartRateBounded
<1> QED
  BY <1>1, <1>2, LimitStep, PTL DEF Spec

-----------------------------------------------------------------------------
(* Stops and aborts: the safety halves of StopReachesChildren and ShutdownEndsActors. That a     *)
(* child ends is for the scheduler; that it was told to is shown here, for every interleaving of *)
(* the end of the parent or the shutdown with spawns, panics and restarts.                       *)

\* When the parent ends, every child that runs then under a handle of its own has been sent a
\* stop, on the channel of the incarnation that runs and not of the one it was spawned with.
StopSent == parent = "ended" => \A i \in owed : loop[i[1]][i[2]] \in Alive => i \in stop

\* After shutdown every loop that still runs has been aborted, but for the children that were
\* being spawned or restarted while the table was drained; none of the others is started again.
AbortSent == down => \A c \in Children \ late : \A n \in Live(c) : <<c, n>> \in aborted

\* The handle stops the incarnation the monitor watches, and from the swap on the next one. The
\* parent neither ends nor vanishes in the middle of a spawn.
Handled(c) ==
    /\ spawning[c] \in {"loop", "registered", "monitored"} => parent = "up"
    /\ spawning[c] # "done" => handle[c] = 0 /\ cur[c] = 1 /\ ~Restarting(c)
    /\ Restarting(c) => kind[c] = "restart"
    /\ spawning[c] = "done" /\ mon[c] \in {"waiting", "pre_restart", "spawned", "registered"} =>
           handle[c] = cur[c]
    /\ mon[c] = "swapped" => handle[c] = cur[c] + 1

\* Nothing of a child will run that the shutdown has not aborted.
Drained(c) ==
    /\ spawning[c] # "loop"
    /\ spawning[c] = "no" => parent # "up"
    /\ ~Restarting(c)
    /\ kind[c] = "restart" /\ loop[c][cur[c]] = "panicked" => mon[c] = "returned"
    /\ \A n \in Incs : loop[c][n] \in Alive => <<c, n>> \in aborted

\* An incarnation that is owed a stop has one, for as long as it runs.
Owing ==
    \A i \in owed : loop[i[1]][i[2]] # "unborn" /\ (loop[i[1]][i[2]] \in Alive => i \in stop)

ToldInv ==
    /\ Inv /\ Owing
    /\ \A c \in Children : Handled(c) /\ (down /\ c \notin late => Drained(c))

(* Every step keeps the handle on the incarnation to stop.                                       *)
LEMMA HandledStep == ASSUME ToldInv, [Next]_vars, NEW d \in Children PROVE Handled(d)'
<1> USE ConstantsAssumption DEF ToldInv, Inv, TypeOK, Incs, Alive, Spawned, Order, Handled,
                                Restarting, Busy
<1>1. ASSUME NEW c \in Children, SpawnLoop(c)
      PROVE  Handled(d)'
  BY <1>1 DEF SpawnLoop
<1>2. ASSUME NEW c \in Children, register(c)
      PROVE  Handled(d)'
  BY <1>2 DEF register
<1>3. ASSUME NEW c \in Children, SpawnMonitor(c)
      PROVE  Handled(d)'
  BY <1>3 DEF SpawnMonitor
<1>4. ASSUME NEW c \in Children, PushHandle(c)
      PROVE  Handled(d)'
  BY <1>4 DEF PushHandle
<1>5. ASSUME NEW c \in Children, NEW n \in Incs, PreStart(c, n)
      PROVE  Handled(d)'
  BY <1>5 DEF PreStart, Runs, Goes
<1>6. ASSUME NEW c \in Children, NEW n \in Incs, Handle(c, n)
      PROVE  Handled(d)'
  BY <1>6 DEF Handle, Runs, Goes, LoopEnds
<1>7. ASSUME NEW c \in Children, NEW n \in Incs, StopSeen(c, n)
      PROVE  Handled(d)'
  BY <1>7 DEF StopSeen, Runs, Goes, LoopEnds
<1>8. ASSUME NEW c \in Children, NEW n \in Incs, AbortTaken(c, n)
      PROVE  Handled(d)'
  BY <1>8 DEF AbortTaken, Goes
<1>9. ASSUME NEW c \in Children, MonitorEnds(c)
      PROVE  Handled(d)'
  BY <1>9 DEF MonitorEnds, Joined, MonitorReturns
<1>10. ASSUME NEW c \in Children, MonitorGivesUp(c)
      PROVE  Handled(d)'
  BY <1>10 DEF MonitorGivesUp, Joined, MonitorReturns
<1>11. ASSUME NEW c \in Children, MonitorRestarts(c)
      PROVE  Handled(d)'
  BY <1>11 DEF MonitorRestarts, Joined, MonitorReturns
<1>12. ASSUME NEW c \in Children, RestartLoop(c)
      PROVE  Handled(d)'
  BY <1>12 DEF RestartLoop, Goes
<1>13. ASSUME NEW c \in Children, RestartRegister(c)
      PROVE  Handled(d)'
  BY <1>13 DEF RestartRegister
<1>14. ASSUME NEW c \in Children, SwapHandle(c)
      PROVE  Handled(d)'
  BY <1>14 DEF SwapHandle
<1>15. ASSUME NEW c \in Children, MonitorResumes(c)
      PROVE  Handled(d)'
  BY <1>15 DEF MonitorResumes
<1>16. ASSUME NEW c \in Children, Send(c)
      PROVE  Handled(d)'
  BY <1>16 DEF Send
<1>17. CASE ParentEnds
  BY <1>17 DEF ParentEnds
<1>18. CASE ParentVanishes
  BY <1>18 DEF ParentVanishes
<1>19. CASE Tick
  BY <1>19 DEF Tick
<1>20. CASE shutdown
  BY <1>20 DEF shutdown
<1>21. CASE UNCHANGED vars
  BY <1>21 DEF vars
<1> QED
  BY <1>1, <1>2, <1>3, <1>4, <1>5, <1>6, <1>7, <1>8, <1>9, <1>10, <1>11, <1>12, <1>13, <1>14,
     <1>15, <1>16, <1>17, <1>18, <1>19, <1>20, <1>21 DEF Next

(* Every step of a child that shutdown did not miss leaves it so: a loop that is aborted neither *)
(* panics nor ends by itself, so its monitor starts no other.                                    *)
LEMMA DrainedStep ==
    ASSUME ToldInv, [Next]_vars, NEW d \in Children, down', d \notin late'
    PROVE  Drained(d)'
<1> USE ConstantsAssumption DEF ToldInv, Inv, TypeOK, Incs, Alive, Spawned, Order, Handled,
                                Drained, Restarting
<1>1. ASSUME NEW c \in Children, SpawnLoop(c)
      PROVE  Drained(d)'
  BY <1>1 DEF SpawnLoop
<1>2. ASSUME NEW c \in Children, register(c)
      PROVE  Drained(d)'
  BY <1>2 DEF register
<1>3. ASSUME NEW c \in Children, SpawnMonitor(c)
      PROVE  Drained(d)'
  BY <1>3 DEF SpawnMonitor
<1>4. ASSUME NEW c \in Children, PushHandle(c)
      PROVE  Drained(d)'
  BY <1>4 DEF PushHandle
<1>5. ASSUME NEW c \in Children, NEW n \in Incs, PreStart(c, n)
      PROVE  Drained(d)'
  <2>1. /\ loop' = [loop EXCEPT ![c][n] = "running"] \/ loop' = [loop EXCEPT ![c][n] = "panicked"]
        /\ loop[c][n] = "starting" /\ <<c, n>> \notin aborted
        /\ UNCHANGED <<kind, parent, spawning, mon, cur, aborted, down, late>>
    BY <1>5 DEF PreStart, Runs, Goes
  <2>2. Drained(d) /\ d # c
    BY <2>1
  <2>3. loop'[d] = loop[d]
    BY <2>1, <2>2
  <2> QED
    BY <2>1, <2>2, <2>3
<1>6. ASSUME NEW c \in Children, NEW n \in Incs, Handle(c, n)
      PROVE  Drained(d)'
  BY <1>6 DEF Handle, Runs, Goes, LoopEnds
<1>7. ASSUME NEW c \in Children, NEW n \in Incs, StopSeen(c, n)
      PROVE  Drained(d)'
  BY <1>7 DEF StopSeen, Runs, Goes, LoopEnds
<1>8. ASSUME NEW c \in Children, NEW n \in Incs, AbortTaken(c, n)
      PROVE  Drained(d)'
  BY <1>8 DEF AbortTaken, Goes
<1>9. ASSUME NEW c \in Children, MonitorEnds(c)
      PROVE  Drained(d)'
  BY <1>9 DEF MonitorEnds, Joined, MonitorReturns
<1>10. ASSUME NEW c \in Children, MonitorGivesUp(c)
      PROVE  Drained(d)'
  BY <1>10 DEF MonitorGivesUp, Joined, MonitorReturns
<1>11. ASSUME NEW c \in Children, MonitorRestarts(c)
      PROVE  Drained(d)'
  BY <1>11 DEF MonitorRestarts, Joined, MonitorReturns
<1>12. ASSUME NEW c \in Children, RestartLoop(c)
      PROVE  Drained(d)'
  BY <1>12 DEF RestartLoop, Goes
<1>13. ASSUME NEW c \in Children, RestartRegister(c)
      PROVE  Drained(d)'
  BY <1>13 DEF RestartRegister
<1>14. ASSUME NEW c \in Children, SwapHandle(c)
      PROVE  Drained(d)'
  BY <1>14 DEF SwapHandle
<1>15. ASSUME NEW c \in Children, MonitorResumes(c)
      PROVE  Drained(d)'
  BY <1>15 DEF MonitorResumes
<1>16. ASSUME NEW c \in Children, Send(c)
      PROVE  Drained(d)'
  BY <1>16 DEF Send
<1>17. CASE ParentEnds
  BY <1>17 DEF ParentEnds
<1>18. CASE ParentVanishes
  BY <1>18 DEF ParentVanishes
<1>19. CASE Tick
  BY <1>19 DEF Tick
<1>20. CASE shutdown
  BY <1>20 DEF shutdown, Between, Entered
<1>21. CASE UNCHANGED vars
  BY <1>21 DEF vars
<1> QED
  BY <1>1, <1>2, <1>3, <1>4, <1>5, <1>6, <1>7, <1>8, <1>9, <1>10, <1>11, <1>12, <1>13, <1>14,
     <1>15, <1>16, <1>17, <1>18, <1>19, <1>20, <1>21 DEF Next

(* When the parent ends, the handles are those of the children that run.                         *)
LEMMA ParentEndsOwing == ASSUME ToldInv, ParentEnds PROVE Owing'
<1> SUFFICES ASSUME NEW i \in owed'
             PROVE  /\ loop'[i[1]][i[2]] # "unborn"
                    /\ loop'[i[1]][i[2]] \in Alive => i \in stop'
  BY DEF Owing
<1>1. PICK c \in Children, n \in Incs : i = <<c, n>>
  BY DEF ParentEnds, Ids
<1>2. loop[c][n] \in Alive /\ mon[c] \notin {"spawned", "registered"} /\ loop' = loop
  BY <1>1 DEF ParentEnds
<1>3. ~Busy /\ spawning[c] \notin {"loop", "registered", "monitored"}
  BY DEF ParentEnds, Busy
<1>4. handle[c] = n
  <2>1. Spawned(c) /\ Order(c) /\ Handled(c)
    BY DEF ToldInv, Inv
  <2>2. cur[c] \in Nat /\ n \in Nat /\ cur[c] \in Incs
    BY ConstantsAssumption DEF ToldInv, Inv, TypeOK, Incs
  <2>3. /\ spawning[c] \in {"no", "done"}
        /\ mon[c] \in {"none", "waiting", "pre_restart", "swapped", "returned"}
    BY <1>2, <1>3 DEF ToldInv, Inv, TypeOK
  <2>4. n = cur[c] \/ (n = cur[c] + 1 /\ mon[c] = "swapped")
    BY <1>2, <2>1, <2>2 DEF Order, Replaced, Alive
  <2>5. CASE n = cur[c]
    <3>1. ~Restarting(c) /\ mon[c] # "returned"
      BY <1>2, <2>1, <2>5 DEF Order, Alive
    <3>2. spawning[c] = "done" /\ mon[c] = "waiting"
      BY <1>2, <2>1, <2>3, <2>5, <3>1 DEF Spawned, Restarting, Alive
    <3> QED
      BY <2>1, <2>5, <3>2 DEF Handled
  <2>6. CASE mon[c] = "swapped" /\ n = cur[c] + 1
    BY <2>1, <2>6 DEF Handled
  <2> QED
    BY <2>4, <2>5, <2>6
<1>5. n # 0
  BY DEF Incs
<1>6. <<c, n>> \in stop'
  BY <1>4, <1>5 DEF ParentEnds
<1> QED
  BY <1>1, <1>2, <1>6 DEF Alive

(* No other step owes a stop, takes one back or brings an incarnation back to life.              *)
LEMMA OwingKept ==
    ASSUME ToldInv, owed' = owed, stop \subseteq stop',
           \A i \in owed : /\ loop[i[1]][i[2]] # "unborn" => loop'[i[1]][i[2]] # "unborn"
                           /\ loop'[i[1]][i[2]] \in Alive =>
                                  loop[i[1]][i[2]] \in Alive \cup {"unborn"}
    PROVE  Owing'
  BY DEF ToldInv, Owing

\* What every incarnation does at most in a step.
LoopsAge ==
    \A c \in Children : \A n \in Incs :
        /\ loop[c][n] # "unborn" => loop'[c][n] # "unborn"
        /\ loop'[c][n] \in Alive => loop[c][n] \in Alive \cup {"unborn"}

(* One loop that goes on, ends or is born leaves the others as they are.                         *)
LEMMA OneAges ==
    ASSUME TypeOK, NEW c \in Children, NEW n \in Incs, loop[c][n] \in Alive \cup {"unborn"},
           NEW s, s # "unborn", Goes(c, n, s)
    PROVE  LoopsAge
<1> SUFFICES ASSUME NEW d \in Children, NEW k \in Incs
             PROVE  /\ loop[d][k] # "unborn" => loop'[d][k] # "unborn"
                    /\ loop'[d][k] \in Alive => loop[d][k] \in Alive \cup {"unborn"}
  BY DEF LoopsAge
<1>1. loop'[d][k] = IF d = c /\ k = n THEN s ELSE loop[d][k]
  BY DEF TypeOK, Goes
<1> QED
  BY <1>1

(* A loop that has ended is never started again: a new one is a new incarnation.                 *)
LEMMA LoopsAgeStep == ASSUME Inv, [Next]_vars PROVE LoopsAge
<1>1. CASE loop' = loop
  BY <1>1 DEF LoopsAge
<1>2. ASSUME NEW c \in Children, NEW n \in Incs, LoopMoves(c, n)
      PROVE  LoopsAge
  <2>1. PICK s \in {"running", "ok", "panicked", "aborted"} : Goes(c, n, s)
    BY <1>2 DEF LoopMoves, Goes
  <2> QED
    BY <1>2, <2>1, OneAges DEF LoopMoves, Inv
<1>3. ASSUME NEW c \in Children, SpawnLoop(c)
      PROVE  LoopsAge
  <2>1. 1 \in Incs /\ loop[c][1] = "unborn" /\ Goes(c, 1, "starting")
    BY <1>3, ConstantsAssumption DEF SpawnLoop, Goes, Inv, Spawned, Incs
  <2> QED
    BY <2>1, OneAges DEF Inv
<1>4. ASSUME NEW c \in Children, RestartLoop(c)
      PROVE  LoopsAge
  <2>1. Order(c) /\ mon[c] = "pre_restart" /\ cur[c] \in Nat
    BY <1>4, ConstantsAssumption DEF RestartLoop, Inv, TypeOK, Incs
  <2>2. cur[c] + 1 \in Incs /\ loop[c][cur[c] + 1] = "unborn"
    BY <2>1 DEF Order, Restarting, Replaced
  <2>3. Goes(c, cur[c] + 1, "starting")
    BY <1>4 DEF RestartLoop
  <2> QED
    BY <2>2, <2>3, OneAges DEF Inv
<1>5. \/ loop' = loop
      \/ \E c \in Children : \/ \E n \in Incs : LoopMoves(c, n)
                             \/ SpawnLoop(c) \/ RestartLoop(c)
  BY Shapes DEF StepOf, shutdown, Unaffected, register, SpawnMonitor, PushHandle, Returned,
                RestartBegins, RestartRegister, SwapHandle, MonitorResumes
<1> QED
  BY <1>1, <1>2, <1>3, <1>4, <1>5

(* Every step leaves the incarnations that are owed a stop with one.                             *)
LEMMA OwingStep == ASSUME ToldInv, [Next]_vars PROVE Owing'
<1>1. CASE ParentEnds
  BY <1>1, ParentEndsOwing
<1>2. CASE ~ParentEnds
  <2>1. owed' = owed /\ stop \subseteq stop'
    <3>1. ASSUME NEW c \in Children, NEW n \in Incs,
                 PreStart(c, n) \/ Handle(c, n) \/ StopSeen(c, n) \/ AbortTaken(c, n)
          PROVE  owed' = owed /\ stop' = stop
      BY <3>1 DEF PreStart, Handle, StopSeen, AbortTaken
    <3>2. ASSUME NEW c \in Children,
                 \/ SpawnLoop(c) \/ register(c) \/ SpawnMonitor(c) \/ PushHandle(c)
                 \/ MonitorEnds(c) \/ MonitorRestarts(c) \/ RestartLoop(c) \/ RestartRegister(c)
                 \/ SwapHandle(c) \/ MonitorResumes(c) \/ Send(c)
          PROVE  owed' = owed /\ stop' = stop
      BY <3>2 DEF SpawnLoop, register, SpawnMonitor, PushHandle, MonitorEnds, MonitorRestarts,
                  RestartLoop, RestartRegister, SwapHandle, MonitorResumes, Send
    <3>3. ASSUME NEW c \in Children, MonitorGivesUp(c)
          PROVE  owed' = owed /\ stop \subseteq stop'
      BY <3>3 DEF MonitorGivesUp
    <3>4. ASSUME ParentVanishes \/ Tick \/ shutdown \/ UNCHANGED vars
          PROVE  owed' = owed /\ stop' = stop
      BY <3>4 DEF ParentVanishes, Tick, shutdown, vars
    <3> QED
      BY <1>2, <3>1, <3>2, <3>3, <3>4 DEF Next
  <2>2. LoopsAge
    BY LoopsAgeStep DEF ToldInv
  <2>3. ASSUME NEW i \in owed
        PROVE  /\ loop[i[1]][i[2]] # "unborn" => loop'[i[1]][i[2]] # "unborn"
               /\ loop'[i[1]][i[2]] \in Alive => loop[i[1]][i[2]] \in Alive \cup {"unborn"}
    <3>1. i[1] \in Children /\ i[2] \in Incs
      BY DEF ToldInv, Inv, TypeOK, Ids
    <3> QED
      BY <2>2, <3>1 DEF LoopsAge
  <2> QED
    BY <2>1, <2>3, OwingKept
<1> QED
  BY <1>1, <1>2

(* The invariant behind the stops and the aborts.                                                *)
THEOREM ToldInvariant == Spec => []ToldInv
<1>1. Init => ToldInv
  <2> SUFFICES ASSUME Init PROVE ToldInv
    OBVIOUS
  <2>1. Inv
    BY InitInv
  <2>2. owed = {} /\ down = FALSE
    BY DEF Init
  <2>3. ASSUME NEW c \in Children PROVE Handled(c)
    BY DEF Init, Handled, Restarting
  <2> QED
    BY <2>1, <2>2, <2>3 DEF ToldInv, Owing
<1>2. ToldInv /\ [Next]_vars => ToldInv'
  <2> SUFFICES ASSUME ToldInv, [Next]_vars PROVE ToldInv'
    OBVIOUS
  <2>1. Inv'
    <3>1. Inv
      BY DEF ToldInv
    <3>2. TypeOK'
      BY <3>1, TypeStep
    <3>3. ASSUME NEW c \in Children PROVE Spawned(c)' /\ Order(c)' /\ Entries(c)' /\ Entered(c)'
      BY <3>1, SpawnedStep, OrderStep, EntriesStep, EnteredStep
    <3> QED
      BY <3>2, <3>3 DEF Inv
  <2>2. ASSUME NEW c \in Children PROVE Handled(c)' /\ (down' /\ c \notin late' => Drained(c)')
    BY HandledStep, DrainedStep
  <2> QED
    BY <2>1, <2>2, OwingStep DEF ToldInv
<1> QED
  BY <1>1, <1>2, PTL DEF Spec

(* When the parent ends, the stop it sends goes to every child that runs under a handle of its   *)
(* own, to the incarnation that runs then, however often the monitor has replaced it.            *)
THEOREM StopSentInvariant == Spec => []StopSent
<1>1. ToldInv => StopSent
  BY DEF ToldInv, Owing, StopSent
<1> QED
  BY <1>1, ToldInvariant, PTL

(* Shutdown aborts every loop that runs, and no monitor starts another one after it: the table   *)
(* it drains held all of them, except those of a child in the middle of a spawn or a restart.    *)
THEOREM AbortSentInvariant == Spec => []AbortSent
<1>1. ToldInv => AbortSent
  BY DEF ToldInv, Drained, AbortSent, Live
<1> QED
  BY <1>1, ToldInvariant, PTL
=============================================================================
