----------------------------- MODULE WorkflowEngineProofs -----------------------------
(* Proofs about the workflow engine, for any set of workflows and entities, any definitions of   *)
(* pipelines and state machines, and any number of runs.                                         *)
(*                                                                                               *)
(* A status can only be true because a run has one owner at a time: the task of a pipeline, its  *)
(* report, the engine's handler or the handle kept for its workflow (Executors, Reported, Busy,  *)
(* Kept). That an owner is woken at most once rests on the mailboxes: a run has one question or  *)
(* one call under way, and only while it waits for it (Mail). What a definition contains only    *)
(* matters for the last part, on machines and values.                                            *)
EXTENDS WorkflowEngine, WellFoundedInduction, TLAPS

AtStates == {"idle", "ready", "asked", "calling", "lost", "done"}

Runs == [wf : Workflows, status : Statuses]

EngineTypes ==
    /\ runs \in Seq(Runs) /\ Len(runs) <= MaxRuns
    /\ DOMAIN rtc_runs = Workflows
    /\ \A w \in Workflows : rtc_runs[w] = NoHandle \/ rtc_runs[w].run # NoRun
    /\ up \in BOOLEAN /\ busy \in Nat
    /\ at \in [RunIds -> AtStates]

\* What the invariant looks at: the steps are first described by their effect on these.
Count == Len(runs)
WfOf(r) == runs[r].wf
Status(r) == runs[r].status
Open == up
HasReport(r, ok) == <<r, ok>> \in reports
KeptRun(w) == rtc_runs[w].run

\* The machine kept for a workflow is the one of a run of it that waits for an event.
Kept ==
    \A w \in Workflows : KeptRun(w) # NoRun =>
        /\ KeptRun(w) \in 1..Count /\ WfOf(KeptRun(w)) = w /\ Modes[w] = "rtc"
        /\ Status(KeptRun(w)) = "running" /\ ~Executing(KeptRun(w))

\* The handler of an engine that runs is at the last run it started, or at one whose handle it
\* has taken out.
Busy ==
    busy # NoRun =>
        /\ Open /\ busy \in 1..Count /\ Modes[WfOf(busy)] = "rtc" /\ Executing(busy)
        /\ op = "run" => busy = Count
        /\ op # "run" => KeptRun(WfOf(busy)) = NoRun

\* Steps are executed by the task of a pipeline or by the handler.
Executors ==
    \A r \in RunIds : Executing(r) =>
        /\ r \in 1..Count /\ Status(r) = "running"
        /\ busy = r \/ Modes[WfOf(r)] = "pipeline"

\* What is reported is the end of a pipeline, once.
Reported ==
    \A r \in RunIds, ok \in BOOLEAN : HasReport(r, ok) =>
        /\ r \in 1..Count /\ Modes[WfOf(r)] = "pipeline" /\ Status(r) = "running"
        /\ ~Executing(r) /\ \A other \in BOOLEAN : HasReport(r, other) => other = ok

Later(r) == \E q \in (r + 1)..Count : WfOf(q) = WfOf(r) /\ Modes[WfOf(r)] = "rtc"

\* A run that is running is owned, or another run of its machine was started after it.
Owned ==
    Open => \A r \in 1..Count : Status(r) = "running" =>
        \/ Executing(r) \/ Later(r)
        \/ \E ok \in BOOLEAN : HasReport(r, ok)
        \/ KeptRun(WfOf(r)) = r

\* A workflow is deleted only when its runs are over.
Deleted ==
    /\ workflows \subseteq created /\ created \subseteq Workflows
    /\ \A r \in 1..Count :
        WfOf(r) \in created /\ (Status(r) = "running" => WfOf(r) \in workflows)

Engine == EngineTypes /\ Kept /\ Busy /\ Executors /\ Reported /\ Owned /\ Deleted

-----------------------------------------------------------------------------
(* The steps by their effect                                                                     *)

SameRuns == /\ Count' = Count
            /\ \A q \in 1..Count : WfOf(q)' = WfOf(q) /\ Status(q)' = Status(q)

Sets(r, s) == /\ Count' = Count
              /\ \A q \in 1..Count : /\ WfOf(q)' = WfOf(q)
                                     /\ Status(q)' = IF q = r THEN s ELSE Status(q)

Adds(w, s) == /\ Count' = Count + 1
              /\ \A q \in 1..(Count + 1) :
                  /\ WfOf(q)' = IF q = Count + 1 THEN w ELSE WfOf(q)
                  /\ Status(q)' = IF q = Count + 1 THEN s ELSE Status(q)

SameExecuting == \A q \in RunIds : Executing(q)' <=> Executing(q)
Begins(r) == \A q \in RunIds : Executing(q)' <=> q = r \/ Executing(q)
Rests(r) == \A q \in RunIds : Executing(q)' <=> q # r /\ Executing(q)

SameKept == \A v \in Workflows : KeptRun(v)' = KeptRun(v)
Keeps(w, r) == \A v \in Workflows : KeptRun(v)' = IF v = w THEN r ELSE KeptRun(v)

SameReports == \A q \in RunIds, b \in BOOLEAN : HasReport(q, b)' <=> HasReport(q, b)
SameOpen == Open' <=> Open
SameWorkflows == created' = created /\ workflows' = workflows

\* A workflow is created, or deleted when no run of it is active.
Created(w) ==
    /\ Open /\ w \notin created
    /\ created' = created \cup {w} /\ workflows' = workflows \cup {w}
    /\ SameRuns /\ SameExecuting /\ SameKept /\ SameReports /\ SameOpen /\ UNCHANGED <<busy, op>>

DeletedNow(w) ==
    /\ Open /\ w \in workflows
    /\ \A q \in 1..Count : WfOf(q) = w => Status(q) # "running"
    /\ created' = created /\ workflows' = workflows \ {w}
    /\ SameRuns /\ SameExecuting /\ SameKept /\ SameReports /\ SameOpen /\ UNCHANGED <<busy, op>>

\* A run starts: a pipeline in a task, a machine in the handler.
Launched(w) ==
    /\ Open /\ busy = NoRun /\ w \in workflows /\ Count < MaxRuns
    /\ Adds(w, "running") /\ Begins(Count + 1)
    /\ \/ Modes[w] = "pipeline" /\ busy' = busy
       \/ Modes[w] = "rtc" /\ busy' = Count + 1 /\ op' = "run"
    /\ SameKept /\ SameReports /\ SameOpen /\ SameWorkflows

\* A machine without states.
Refused(w) ==
    /\ Open /\ busy = NoRun /\ w \in workflows /\ Count < MaxRuns
    /\ Adds(w, "failed") /\ busy' = busy
    /\ SameExecuting /\ SameKept /\ SameReports /\ SameOpen /\ SameWorkflows

\* The report of a pipeline is read.
Learned(r, ok) ==
    /\ Open /\ HasReport(r, ok)
    /\ \A q \in RunIds, b \in BOOLEAN :
        HasReport(q, b)' <=> HasReport(q, b) /\ ~(q = r /\ b = ok)
    /\ \E s \in {"completed", "failed"} : Sets(r, s)
    /\ SameExecuting /\ SameKept /\ SameOpen /\ SameWorkflows /\ UNCHANGED <<busy, op>>

\* A machine is taken out, and is over or handled.
GivenUp(w) ==
    /\ Open /\ busy = NoRun /\ KeptRun(w) # NoRun
    /\ \E s \in {"completed", "failed"} : Sets(KeptRun(w), s)
    /\ Keeps(w, NoRun) /\ busy' = busy
    /\ SameExecuting /\ SameReports /\ SameOpen /\ SameWorkflows

Taken(w) ==
    /\ Open /\ busy = NoRun /\ KeptRun(w) # NoRun
    /\ Keeps(w, NoRun) /\ busy' = KeptRun(w) /\ op' = "dispatch" /\ Begins(KeptRun(w))
    /\ SameRuns /\ SameReports /\ SameOpen /\ SameWorkflows

\* The handler is through with a machine that is over, or that it keeps.
Closed(r) ==
    /\ busy = r /\ busy' = NoRun
    /\ \E s \in {"completed", "failed"} : Sets(r, s)
    /\ Rests(r)
    /\ SameKept /\ SameReports /\ SameOpen /\ SameWorkflows

Stored(r) ==
    /\ busy = r /\ busy' = NoRun /\ Keeps(WfOf(r), r) /\ Rests(r)
    /\ SameRuns /\ SameReports /\ SameOpen /\ SameWorkflows

\* A task is through.
TaskEnds(r, ok) ==
    /\ busy # r /\ Executing(r) /\ Rests(r)
    /\ \A q \in RunIds, b \in BOOLEAN :
        HasReport(q, b)' <=> HasReport(q, b) \/ (Open /\ q = r /\ b = ok)
    /\ SameRuns /\ SameKept /\ SameOpen /\ SameWorkflows /\ UNCHANGED <<busy, op>>

Stopped ==
    /\ Open /\ busy = NoRun /\ ~Open'
    /\ SameRuns /\ SameExecuting /\ SameKept /\ SameReports /\ SameWorkflows
    /\ UNCHANGED <<busy, op>>

\* Executors go on.
GoOn ==
    /\ SameRuns /\ SameExecuting /\ SameKept /\ SameReports /\ SameOpen /\ SameWorkflows
    /\ UNCHANGED <<busy, op>>

Effect ==
    \/ \E w \in Workflows : \/ Created(w) \/ DeletedNow(w) \/ Launched(w) \/ Refused(w)
                             \/ GivenUp(w) \/ Taken(w)
    \/ \E r \in RunIds : \/ Closed(r) \/ Stored(r)
                          \/ \E ok \in BOOLEAN : Learned(r, ok) \/ TaskEnds(r, ok)
    \/ Stopped
    \/ GoOn

-----------------------------------------------------------------------------
(* The engine's part of the invariant                                                            *)

\* The constants, and the values of what the effects are about.
Sorts ==
    /\ MaxRuns \in Nat /\ RunIds = 1..MaxRuns /\ NoRun = 0
    /\ Count \in Nat /\ Count <= MaxRuns /\ busy \in Nat
    /\ \A q \in 1..Count : WfOf(q) \in Workflows
    /\ \A w \in Workflows : Modes[w] \in {"pipeline", "rtc"}

(* Every step keeps the kept machines those of runs that wait.                                  *)
LEMMA KeptStep == ASSUME Sorts, Engine, Effect PROVE Kept'
<1> USE DEF Sorts, Engine, Kept, Busy, Executors, Reported,
            SameRuns, Sets, Adds, SameExecuting, Begins, Rests, SameKept, Keeps,
            SameReports, SameOpen, SameWorkflows
<1>1. ASSUME NEW w \in Workflows, Created(w) PROVE Kept'
  BY <1>1 DEF Created
<1>2. ASSUME NEW w \in Workflows, DeletedNow(w) PROVE Kept'
  BY <1>2 DEF DeletedNow
<1>3. ASSUME NEW w \in Workflows, Launched(w) PROVE Kept'
  BY <1>3 DEF Launched
<1>4. ASSUME NEW w \in Workflows, Refused(w) PROVE Kept'
  BY <1>4 DEF Refused
<1>5. ASSUME NEW w \in Workflows, GivenUp(w) PROVE Kept'
  BY <1>5 DEF GivenUp
<1>6. ASSUME NEW w \in Workflows, Taken(w) PROVE Kept'
  BY <1>6 DEF Taken
<1>7. ASSUME NEW r \in RunIds, Closed(r) PROVE Kept'
  BY <1>7 DEF Closed
<1>8. ASSUME NEW r \in RunIds, Stored(r) PROVE Kept'
  BY <1>8 DEF Stored
<1>9. ASSUME NEW r \in RunIds, NEW ok \in BOOLEAN, Learned(r, ok) PROVE Kept'
  BY <1>9 DEF Learned
<1>10. ASSUME NEW r \in RunIds, NEW ok \in BOOLEAN, TaskEnds(r, ok) PROVE Kept'
  BY <1>10 DEF TaskEnds
<1>11. CASE Stopped
  BY <1>11 DEF Stopped
<1>12. CASE GoOn
  BY <1>12 DEF GoOn
<1> QED
  BY <1>1, <1>2, <1>3, <1>4, <1>5, <1>6, <1>7, <1>8, <1>9, <1>10, <1>11, <1>12 DEF Effect

(* Every step keeps the handler at a run of its own.                                            *)
LEMMA BusyStep == ASSUME Sorts, Engine, Effect PROVE Busy'
<1> USE DEF Sorts, Engine, Kept, Busy, Executors, Reported,
            SameRuns, Sets, Adds, SameExecuting, Begins, Rests, SameKept, Keeps,
            SameReports, SameOpen, SameWorkflows
<1>1. ASSUME NEW w \in Workflows, Created(w) PROVE Busy'
  BY <1>1 DEF Created
<1>2. ASSUME NEW w \in Workflows, DeletedNow(w) PROVE Busy'
  BY <1>2 DEF DeletedNow
<1>3. ASSUME NEW w \in Workflows, Launched(w) PROVE Busy'
  BY <1>3 DEF Launched
<1>4. ASSUME NEW w \in Workflows, Refused(w) PROVE Busy'
  BY <1>4 DEF Refused
<1>5. ASSUME NEW w \in Workflows, GivenUp(w) PROVE Busy'
  BY <1>5 DEF GivenUp
<1>6. ASSUME NEW w \in Workflows, Taken(w) PROVE Busy'
  BY <1>6 DEF Taken
<1>7. ASSUME NEW r \in RunIds, Closed(r) PROVE Busy'
  BY <1>7 DEF Closed
<1>8. ASSUME NEW r \in RunIds, Stored(r) PROVE Busy'
  BY <1>8 DEF Stored
<1>9. ASSUME NEW r \in RunIds, NEW ok \in BOOLEAN, Learned(r, ok) PROVE Busy'
  BY <1>9 DEF Learned
<1>10. ASSUME NEW r \in RunIds, NEW ok \in BOOLEAN, TaskEnds(r, ok) PROVE Busy'
  BY <1>10 DEF TaskEnds
<1>11. CASE Stopped
  BY <1>11 DEF Stopped
<1>12. CASE GoOn
  BY <1>12 DEF GoOn
<1> QED
  BY <1>1, <1>2, <1>3, <1>4, <1>5, <1>6, <1>7, <1>8, <1>9, <1>10, <1>11, <1>12 DEF Effect

(* Every step keeps one executor per run.                                                       *)
LEMMA ExecutorsStep == ASSUME Sorts, Engine, Effect PROVE Executors'
<1> USE DEF Sorts, Engine, Kept, Busy, Executors, Reported,
            SameRuns, Sets, Adds, SameExecuting, Begins, Rests, SameKept, Keeps,
            SameReports, SameOpen, SameWorkflows
<1>1. ASSUME NEW w \in Workflows, Created(w) PROVE Executors'
  BY <1>1 DEF Created
<1>2. ASSUME NEW w \in Workflows, DeletedNow(w) PROVE Executors'
  BY <1>2 DEF DeletedNow
<1>3. ASSUME NEW w \in Workflows, Launched(w) PROVE Executors'
  BY <1>3 DEF Launched
<1>4. ASSUME NEW w \in Workflows, Refused(w) PROVE Executors'
  BY <1>4 DEF Refused
<1>5. ASSUME NEW w \in Workflows, GivenUp(w) PROVE Executors'
  BY <1>5 DEF GivenUp
<1>6. ASSUME NEW w \in Workflows, Taken(w) PROVE Executors'
  BY <1>6 DEF Taken
<1>7. ASSUME NEW r \in RunIds, Closed(r) PROVE Executors'
  BY <1>7 DEF Closed
<1>8. ASSUME NEW r \in RunIds, Stored(r) PROVE Executors'
  BY <1>8 DEF Stored
<1>9. ASSUME NEW r \in RunIds, NEW ok \in BOOLEAN, Learned(r, ok) PROVE Executors'
  BY <1>9 DEF Learned
<1>10. ASSUME NEW r \in RunIds, NEW ok \in BOOLEAN, TaskEnds(r, ok) PROVE Executors'
  BY <1>10 DEF TaskEnds
<1>11. CASE Stopped
  BY <1>11 DEF Stopped
<1>12. CASE GoOn
  BY <1>12 DEF GoOn
<1> QED
  BY <1>1, <1>2, <1>3, <1>4, <1>5, <1>6, <1>7, <1>8, <1>9, <1>10, <1>11, <1>12 DEF Effect

(* Every step keeps one report per pipeline.                                                    *)
LEMMA ReportedStep == ASSUME Sorts, Engine, Effect PROVE Reported'
<1> USE DEF Sorts, Engine, Kept, Busy, Executors, Reported,
            SameRuns, Sets, Adds, SameExecuting, Begins, Rests, SameKept, Keeps,
            SameReports, SameOpen, SameWorkflows
<1>1. ASSUME NEW w \in Workflows, Created(w) PROVE Reported'
  BY <1>1 DEF Created
<1>2. ASSUME NEW w \in Workflows, DeletedNow(w) PROVE Reported'
  BY <1>2 DEF DeletedNow
<1>3. ASSUME NEW w \in Workflows, Launched(w) PROVE Reported'
  BY <1>3 DEF Launched
<1>4. ASSUME NEW w \in Workflows, Refused(w) PROVE Reported'
  BY <1>4 DEF Refused
<1>5. ASSUME NEW w \in Workflows, GivenUp(w) PROVE Reported'
  BY <1>5 DEF GivenUp
<1>6. ASSUME NEW w \in Workflows, Taken(w) PROVE Reported'
  BY <1>6 DEF Taken
<1>7. ASSUME NEW r \in RunIds, Closed(r) PROVE Reported'
  BY <1>7 DEF Closed
<1>8. ASSUME NEW r \in RunIds, Stored(r) PROVE Reported'
  BY <1>8 DEF Stored
<1>9. ASSUME NEW r \in RunIds, NEW ok \in BOOLEAN, Learned(r, ok) PROVE Reported'
  BY <1>9 DEF Learned
<1>10. ASSUME NEW r \in RunIds, NEW ok \in BOOLEAN, TaskEnds(r, ok) PROVE Reported'
  BY <1>10 DEF TaskEnds
<1>11. CASE Stopped
  BY <1>11 DEF Stopped
<1>12. CASE GoOn
  BY <1>12 DEF GoOn
<1> QED
  BY <1>1, <1>2, <1>3, <1>4, <1>5, <1>6, <1>7, <1>8, <1>9, <1>10, <1>11, <1>12 DEF Effect

(* Every step keeps every run owned.                                                            *)
LEMMA OwnedStep == ASSUME Sorts, Engine, Effect PROVE Owned'
<1> USE DEF Sorts, Engine, Kept, Busy, Executors, Reported, Owned, Later,
            SameRuns, Sets, Adds, SameExecuting, Begins, Rests, SameKept, Keeps,
            SameReports, SameOpen, SameWorkflows
<1>1. ASSUME NEW w \in Workflows, Created(w) PROVE Owned'
  BY <1>1 DEF Created
<1>2. ASSUME NEW w \in Workflows, DeletedNow(w) PROVE Owned'
  BY <1>2 DEF DeletedNow
<1>3. ASSUME NEW w \in Workflows, Launched(w) PROVE Owned'
  BY <1>3 DEF Launched
<1>4. ASSUME NEW w \in Workflows, Refused(w) PROVE Owned'
  BY <1>4 DEF Refused
<1>5. ASSUME NEW w \in Workflows, GivenUp(w) PROVE Owned'
  BY <1>5 DEF GivenUp
<1>6. ASSUME NEW w \in Workflows, Taken(w) PROVE Owned'
  BY <1>6 DEF Taken
<1>7. ASSUME NEW r \in RunIds, Closed(r) PROVE Owned'
  BY <1>7 DEF Closed
<1>8. ASSUME NEW r \in RunIds, Stored(r) PROVE Owned'
  BY <1>8 DEF Stored
<1>9. ASSUME NEW r \in RunIds, NEW ok \in BOOLEAN, Learned(r, ok) PROVE Owned'
  BY <1>9 DEF Learned
<1>10. ASSUME NEW r \in RunIds, NEW ok \in BOOLEAN, TaskEnds(r, ok) PROVE Owned'
  BY <1>10 DEF TaskEnds
<1>11. CASE Stopped
  BY <1>11 DEF Stopped
<1>12. CASE GoOn
  BY <1>12 DEF GoOn
<1> QED
  BY <1>1, <1>2, <1>3, <1>4, <1>5, <1>6, <1>7, <1>8, <1>9, <1>10, <1>11, <1>12 DEF Effect

(* Every step keeps deleted workflows without runs.                                             *)
LEMMA DeletedStep == ASSUME Sorts, Engine, Effect PROVE Deleted'
<1> USE DEF Sorts, Engine, Deleted, Kept, Busy, Reported,
            SameRuns, Sets, Adds, SameExecuting, Begins, Rests, SameKept, Keeps,
            SameReports, SameOpen, SameWorkflows
<1>1. ASSUME NEW w \in Workflows, Created(w) PROVE Deleted'
  BY <1>1 DEF Created
<1>2. ASSUME NEW w \in Workflows, DeletedNow(w) PROVE Deleted'
  BY <1>2 DEF DeletedNow
<1>3. ASSUME NEW w \in Workflows, Launched(w) PROVE Deleted'
  BY <1>3 DEF Launched
<1>4. ASSUME NEW w \in Workflows, Refused(w) PROVE Deleted'
  BY <1>4 DEF Refused
<1>5. ASSUME NEW w \in Workflows, GivenUp(w) PROVE Deleted'
  BY <1>5 DEF GivenUp
<1>6. ASSUME NEW w \in Workflows, Taken(w) PROVE Deleted'
  BY <1>6 DEF Taken
<1>7. ASSUME NEW r \in RunIds, Closed(r) PROVE Deleted'
  BY <1>7 DEF Closed
<1>8. ASSUME NEW r \in RunIds, Stored(r) PROVE Deleted'
  BY <1>8 DEF Stored
<1>9. ASSUME NEW r \in RunIds, NEW ok \in BOOLEAN, Learned(r, ok) PROVE Deleted'
  BY <1>9 DEF Learned
<1>10. ASSUME NEW r \in RunIds, NEW ok \in BOOLEAN, TaskEnds(r, ok) PROVE Deleted'
  BY <1>10 DEF TaskEnds
<1>11. CASE Stopped
  BY <1>11 DEF Stopped
<1>12. CASE GoOn
  BY <1>12 DEF GoOn
<1> QED
  BY <1>1, <1>2, <1>3, <1>4, <1>5, <1>6, <1>7, <1>8, <1>9, <1>10, <1>11, <1>12 DEF Effect

-----------------------------------------------------------------------------
(* The mailboxes                                                                                 *)

Sequence(s) == \E S : s \in Seq(S)

\* What is in the mailboxes, by position.
Size(e) == Len(mailbox[e])
Sender(e, i) == mailbox[e][i].by
Question(e, i) == mailbox[e][i].type = "get"
Callers == Len(calls)
Caller(k) == calls[k].by

\* A question in a mailbox is the last message of the run that asks it, the only question it
\* asks, and the run waits for it.
Asking ==
    \A e \in Entities : \A i \in 1..Size(e) : Question(e, i) =>
        /\ Sender(e, i) \in RunIds /\ at[Sender(e, i)] = "asked"
        /\ \A j \in (i + 1)..Size(e) : Sender(e, j) # Sender(e, i)
        /\ \A f \in Entities : f # e => \A j \in 1..Size(f) :
            Question(f, j) => Sender(f, j) # Sender(e, i)

\* A call under way is the only one of its run, which waits for it.
Calling ==
    \A k \in 1..Callers :
        /\ Caller(k) \in RunIds /\ at[Caller(k)] = "calling"
        /\ \A l \in 1..Callers : Caller(l) = Caller(k) => l = k

Boxes ==
    /\ mailbox = [e \in Entities |-> mailbox[e]]
    /\ \A e \in Entities : Sequence(mailbox[e])

Mail == Boxes /\ alive \subseteq Entities /\ Sequence(calls) /\ Asking /\ Calling

Inv == Engine /\ Mail

(* What appending to a sequence of anything does.                                               *)
LEMMA AppendFacts ==
    ASSUME NEW s, Sequence(s), NEW m
    PROVE  /\ Sequence(Append(s, m)) /\ Len(s) \in Nat /\ Len(Append(s, m)) = Len(s) + 1
           /\ \A i \in 1..Len(s) : Append(s, m)[i] = s[i]
           /\ Append(s, m)[Len(s) + 1] = m
<1>1. PICK S : s \in Seq(S)
  BY DEF Sequence
<1>2. s \in Seq(S \cup {m}) /\ m \in S \cup {m}
  BY <1>1
<1>3. Append(s, m) \in Seq(S \cup {m})
  BY <1>2
<1> QED
  BY <1>2, <1>3 DEF Sequence

(* What taking the head off a sequence of anything does.                                        *)
LEMMA TailFacts ==
    ASSUME NEW s, Sequence(s), s # <<>>
    PROVE  /\ Sequence(Tail(s)) /\ Len(s) \in Nat \ {0} /\ Len(Tail(s)) = Len(s) - 1
           /\ \A i \in 1..(Len(s) - 1) : Tail(s)[i] = s[i + 1]
           /\ Head(s) = s[1]
<1>1. PICK S : s \in Seq(S)
  BY DEF Sequence
<1>2. Tail(s) \in Seq(S)
  BY <1>1
<1> QED
  BY <1>1, <1>2 DEF Sequence

(* An empty sequence is one.                                                                    *)
LEMMA EmptyFacts == Sequence(<<>>) /\ Len(<<>>) = 0
BY <<>> \in Seq({}) DEF Sequence

-----------------------------------------------------------------------------
(* From the actions to their effects                                                             *)

(* The invariant gives the values the effects are about.                                        *)
LEMMA SortsHold == ASSUME EngineTypes PROVE Sorts
<1>1. runs \in Seq(Runs) /\ Len(runs) \in Nat /\ Len(runs) <= MaxRuns /\ busy \in Nat
  BY DEF EngineTypes
<1>2. \A q \in 1..Len(runs) : runs[q] \in Runs
  BY <1>1
<1>3. \A q \in 1..Count : WfOf(q) \in Workflows
  BY <1>2 DEF Count, WfOf, Runs
<1>4. Count \in Nat /\ Count <= MaxRuns
  BY <1>1 DEF Count
<1>5. MaxRuns \in Nat /\ \A w \in Workflows : Modes[w] \in {"pipeline", "rtc"}
  BY ConstantsAssumption
<1> QED
  BY <1>1, <1>3, <1>4, <1>5 DEF Sorts, RunIds, NoRun

(* The status of a run is set.                                                                  *)
LEMMA SetStatus ==
    ASSUME EngineTypes, NEW r \in 1..Count, NEW s \in Statuses,
           runs' = [runs EXCEPT ![r].status = s]
    PROVE  runs' \in Seq(Runs) /\ Len(runs') = Len(runs) /\ Sets(r, s)
<1>1. runs \in Seq(Runs) /\ runs[r] \in Runs
  BY DEF EngineTypes, Count
<1>2. [runs[r] EXCEPT !.status = s] \in Runs
  BY <1>1 DEF Runs
<1>3. runs' = [runs EXCEPT ![r] = [runs[r] EXCEPT !.status = s]]
  OBVIOUS
<1>4. runs' \in Seq(Runs) /\ Len(runs') = Len(runs)
  BY <1>1, <1>2, <1>3 DEF Count
<1>5. ASSUME NEW q \in 1..Count
      PROVE  runs'[q] = IF q = r THEN [runs[r] EXCEPT !.status = s] ELSE runs[q]
  BY <1>1, <1>3 DEF Count
<1>6. \A q \in 1..Count : runs[q] \in Runs
  BY <1>1 DEF Count
<1> QED
  BY <1>1, <1>4, <1>5, <1>6 DEF Sets, Count, WfOf, Status, Runs

(* A run is added.                                                                              *)
LEMMA AddRun ==
    ASSUME EngineTypes, NEW w \in Workflows, NEW s \in Statuses,
           runs' = Append(runs, [wf |-> w, status |-> s])
    PROVE  runs' \in Seq(Runs) /\ Len(runs') = Len(runs) + 1 /\ Adds(w, s)
<1> DEFINE new == [wf |-> w, status |-> s]
<1>1. runs \in Seq(Runs) /\ new \in Runs
  BY DEF EngineTypes, Runs
<1>2. runs' \in Seq(Runs) /\ Len(runs') = Len(runs) + 1 /\ Len(runs) \in Nat
  BY <1>1
<1>3. \A q \in 1..(Len(runs) + 1) : runs'[q] = IF q = Len(runs) + 1 THEN new ELSE runs[q]
  BY <1>1
<1> QED
  BY <1>2, <1>3 DEF Adds, Count, WfOf, Status

(* A run moves from one place to another: what its executor's steps do to who executes.         *)
LEMMA MovesFacts ==
    ASSUME EngineTypes, NEW r \in RunIds, NEW p \in AtStates, at' = [at EXCEPT ![r] = p]
    PROVE  /\ at' \in [RunIds -> AtStates]
           /\ \A q \in RunIds : at'[q] = IF q = r THEN p ELSE at[q]
           /\ p \in {"idle", "done"} => Rests(r)
           /\ p \notin {"idle", "done"} => Begins(r)
BY DEF EngineTypes, AtStates, Rests, Begins, Executing

(* The end of an executor: the handler is through, or a task reports.                           *)
LEMMA EndsEffect ==
    ASSUME Engine, NEW r \in RunIds, NEW ok \in BOOLEAN, Executing(r), Ends(r, ok)
    PROVE  Effect /\ EngineTypes' /\ \A q \in RunIds : at'[q] = IF q = r THEN "done" ELSE at[q]
<1>1. Sorts /\ EngineTypes
  BY SortsHold DEF Engine
<1>2. r \in 1..Count /\ r # NoRun
  BY <1>1 DEF Engine, Executors, Sorts
<1>3. /\ at' \in [RunIds -> AtStates] /\ Rests(r)
      /\ \A q \in RunIds : at'[q] = IF q = r THEN "done" ELSE at[q]
  BY <1>1, MovesFacts DEF Ends, AtStates
<1>4. SameWorkflows /\ SameOpen /\ up' = up /\ op' = op
  BY DEF Ends, SameWorkflows, SameOpen, Open
<1>5. CASE busy = r
  <2>1. HandlerEnds(r, ok) /\ reports' = reports /\ busy' = NoRun
    BY <1>5 DEF Ends, HandlerEnds
  <2>2. SameReports
    BY <2>1 DEF SameReports, HasReport
  <2>3. ASSUME rtc_runs' = rtc_runs,
               \E s \in {"completed", "failed"} : runs' = [runs EXCEPT ![r].status = s]
        PROVE  Effect /\ EngineTypes'
    <3>0. PICK s \in {"completed", "failed"} : runs' = [runs EXCEPT ![r].status = s]
      BY <2>3
    <3>1. runs' \in Seq(Runs) /\ Len(runs') = Len(runs) /\ Sets(r, s)
      BY <1>1, <1>2, <3>0, SetStatus DEF Statuses
    <3>2. Closed(r)
      BY <1>3, <1>4, <1>5, <2>1, <2>2, <2>3, <3>1 DEF Closed, SameKept, KeptRun
    <3> QED
      BY <1>1, <1>3, <1>4, <2>1, <2>3, <3>1, <3>2 DEF Effect, EngineTypes, NoRun
  <2>4. ASSUME rtc_runs' = [rtc_runs EXCEPT ![runs[r].wf] = [run |-> r, state |-> target]],
               runs' = runs
        PROVE  Effect /\ EngineTypes'
    <3>1. runs[r].wf \in Workflows
      BY <1>1, <1>2 DEF Sorts, WfOf
    <3>2. /\ DOMAIN rtc_runs' = Workflows
          /\ \A v \in Workflows : rtc_runs'[v] = IF v = runs[r].wf
                                                 THEN [run |-> r, state |-> target]
                                                 ELSE rtc_runs[v]
      BY <1>1, <2>4, <3>1 DEF EngineTypes
    <3>3. Keeps(WfOf(r), r)
      BY <3>2 DEF Keeps, KeptRun, WfOf
    <3>4. SameRuns
      BY <2>4 DEF SameRuns, Count, WfOf, Status
    <3>5. Stored(r)
      BY <1>3, <1>4, <1>5, <2>1, <2>2, <3>3, <3>4 DEF Stored
    <3> QED
      BY <1>1, <1>2, <1>3, <1>4, <2>1, <2>4, <3>2, <3>5 DEF Effect, EngineTypes, NoRun
  <2>5. CASE runs' = [runs EXCEPT ![r].status = "failed"] /\ rtc_runs' = rtc_runs
    BY <1>3, <2>3, <2>5
  <2>6. CASE runs' = [runs EXCEPT ![r].status = "completed"] /\ rtc_runs' = rtc_runs
    BY <1>3, <2>3, <2>6
  <2> QED
    BY <1>3, <2>1, <2>4, <2>5, <2>6 DEF HandlerEnds
<1>6. CASE busy # r
  <2>1. /\ UNCHANGED <<runs, rtc_runs, busy>>
        /\ reports' = IF up THEN reports \cup {<<r, ok>>} ELSE reports
    BY <1>6 DEF Ends
  <2>2. \A q \in RunIds, b \in BOOLEAN :
            HasReport(q, b)' <=> HasReport(q, b) \/ (Open /\ q = r /\ b = ok)
    BY <2>1 DEF HasReport, Open
  <2>3. SameRuns /\ SameKept
    BY <2>1 DEF SameRuns, SameKept, KeptRun, Count, WfOf, Status
  <2>4. TaskEnds(r, ok)
    BY <1>3, <1>4, <1>6, <2>1, <2>2, <2>3 DEF TaskEnds
  <2> QED
    BY <1>1, <1>3, <1>4, <2>1, <2>4 DEF Effect, EngineTypes
<1> QED
  BY <1>3, <1>5, <1>6

(* What leaves the engine and its reports alone, and moves a run that goes on executing.        *)
LEMMA GoOnEffect ==
    ASSUME Engine, UNCHANGED <<engineVars, reports>>, at' \in [RunIds -> AtStates], SameExecuting
    PROVE  Effect /\ EngineTypes'
<1>1. /\ created' = created /\ workflows' = workflows /\ runs' = runs /\ rtc_runs' = rtc_runs
      /\ up' = up /\ busy' = busy /\ op' = op /\ reports' = reports
  BY DEF engineVars
<1>2. GoOn
  BY <1>1 DEF GoOn, SameRuns, SameKept, SameReports, SameOpen, SameWorkflows, Count, WfOf, Status,
              KeptRun, HasReport, Open
<1> QED
  BY <1>1, <1>2 DEF Effect, EngineTypes, Engine

(* A run that executes moves to another place where it executes.                                *)
LEMMA MovesEffect ==
    ASSUME Engine, UNCHANGED <<engineVars, reports>>, NEW r \in RunIds, Executing(r),
           NEW p \in {"ready", "asked", "calling", "lost"}, at' = [at EXCEPT ![r] = p]
    PROVE  Effect /\ EngineTypes' /\ \A q \in RunIds : at'[q] = IF q = r THEN p ELSE at[q]
<1>1. /\ at' \in [RunIds -> AtStates] /\ Begins(r)
      /\ \A q \in RunIds : at'[q] = IF q = r THEN p ELSE at[q]
  BY MovesFacts DEF Engine, AtStates
<1>2. SameExecuting
  BY <1>1 DEF SameExecuting, Begins
<1> QED
  BY <1>1, <1>2, GoOnEffect

(* The engine's handlers.                                                                       *)
LEMMA HandlersEffect ==
    ASSUME Engine, NEW w \in Workflows,
           \/ Create(w) \/ Delete(w) \/ RunPipeline(w) \/ RunStateMachine(w)
           \/ \E event \in Events : DispatchEvent(w, event)
    PROVE  Effect /\ EngineTypes'
<1>1. Sorts /\ EngineTypes
  BY SortsHold DEF Engine
<1>2. CASE Create(w) \/ Delete(w)
  <2>1. UNCHANGED <<runs, rtc_runs, up, busy, op, at, reports>>
    BY <1>2 DEF Create, Delete, execVars
  <2>2. /\ SameRuns /\ SameExecuting /\ SameKept /\ SameReports /\ SameOpen
        /\ UNCHANGED <<busy, op>>
    BY <2>1 DEF SameRuns, SameExecuting, SameKept, SameReports, SameOpen, Count, WfOf, Status,
                Executing, KeptRun, HasReport, Open
  <2>3. EngineTypes'
    BY <1>1, <2>1 DEF EngineTypes
  <2>4. ASSUME Create(w) PROVE Created(w)
    BY <2>2, <2>4 DEF Create, Created, Ready, Open
  <2>5. ASSUME Delete(w) PROVE DeletedNow(w)
    <3>1. \A q \in 1..Count : WfOf(q) = w => Status(q) # "running"
      BY <1>1, <2>5 DEF Delete, Active, EngineTypes, Count, WfOf, Status
    <3> QED
      BY <2>2, <2>5, <3>1 DEF Delete, DeletedNow, Ready, Open
  <2> QED
    BY <1>2, <2>3, <2>4, <2>5 DEF Effect
<1>3. CASE RunPipeline(w) \/ RunStateMachine(w)
  <2>1. /\ Open /\ busy = NoRun /\ w \in workflows /\ Count < MaxRuns
        /\ UNCHANGED <<created, workflows, rtc_runs, up, reports>>
    BY <1>3 DEF RunPipeline, RunStateMachine, Ready, Open, Count
  <2>2. SameKept /\ SameReports /\ SameOpen /\ SameWorkflows
    BY <2>1 DEF SameKept, SameReports, SameOpen, SameWorkflows, KeptRun, HasReport, Open
  <2>3. Count + 1 \in RunIds /\ Count + 1 = Len(runs) + 1
    BY <1>1, <2>1 DEF Sorts, Count
  <2>4. ASSUME runs' = Append(runs, [wf |-> w, status |-> "running"]),
               at' = [at EXCEPT ![Len(runs) + 1] = "ready"],
               \/ Modes[w] = "pipeline" /\ busy' = busy
               \/ Modes[w] = "rtc" /\ busy' = Count + 1 /\ op' = "run"
        PROVE  Effect /\ EngineTypes'
    <3>1. runs' \in Seq(Runs) /\ Len(runs') = Len(runs) + 1 /\ Adds(w, "running")
      BY <1>1, <2>4, AddRun DEF Statuses
    <3>2. at' \in [RunIds -> AtStates] /\ Begins(Count + 1)
      BY <1>1, <2>3, <2>4, MovesFacts DEF AtStates
    <3>3. Launched(w)
      BY <2>1, <2>2, <2>4, <3>1, <3>2 DEF Launched
    <3>4. busy' \in Nat /\ Len(runs') <= MaxRuns
      BY <1>1, <2>1, <2>4, <3>1 DEF Sorts, Count
    <3> QED
      BY <1>1, <2>1, <3>1, <3>2, <3>3, <3>4 DEF Effect, EngineTypes
  <2>5. ASSUME runs' = Append(runs, [wf |-> w, status |-> "failed"]), UNCHANGED <<busy, op, at>>
        PROVE  Effect /\ EngineTypes'
    <3>1. runs' \in Seq(Runs) /\ Len(runs') = Len(runs) + 1 /\ Adds(w, "failed")
      BY <1>1, <2>5, AddRun DEF Statuses
    <3>2. SameExecuting
      BY <2>5 DEF SameExecuting, Executing
    <3>3. Refused(w)
      BY <2>1, <2>2, <2>5, <3>1, <3>2 DEF Refused
    <3>4. Len(runs') <= MaxRuns
      BY <1>1, <2>1, <3>1 DEF Sorts, Count
    <3> QED
      BY <1>1, <2>1, <2>5, <3>1, <3>3, <3>4 DEF Effect, EngineTypes
  <2>6. CASE RunPipeline(w)
    BY <2>4, <2>6 DEF RunPipeline, Starts
  <2>7. CASE RunStateMachine(w) /\ StatesOf(w) = <<>>
    BY <2>5, <2>7 DEF RunStateMachine, execVars
  <2>8. CASE RunStateMachine(w) /\ StatesOf(w) # <<>>
    BY <2>3, <2>4, <2>8 DEF RunStateMachine, Starts
  <2> QED
    BY <1>3, <2>6, <2>7, <2>8
<1>4. ASSUME NEW event \in Events, DispatchEvent(w, event) PROVE Effect /\ EngineTypes'
  <2> DEFINE r == rtc_runs[w].run
  <2>1. /\ Open /\ busy = NoRun /\ rtc_runs[w] # NoHandle
        /\ UNCHANGED <<created, workflows, up, reports>>
        /\ rtc_runs' = [rtc_runs EXCEPT ![w] = NoHandle]
    BY <1>4 DEF DispatchEvent, Ready, Open
  <2>2. KeptRun(w) # NoRun /\ r = KeptRun(w) /\ r \in 1..Count /\ r \in RunIds
    BY <1>1, <2>1 DEF EngineTypes, KeptRun, Engine, Kept, Sorts
  <2>3. /\ DOMAIN rtc_runs' = Workflows
        /\ \A v \in Workflows : rtc_runs'[v] = IF v = w THEN NoHandle ELSE rtc_runs[v]
    BY <1>1, <2>1 DEF EngineTypes
  <2>4. Keeps(w, NoRun)
    <3>1. NoHandle.run = NoRun
      BY DEF NoHandle
    <3> QED
      BY <2>3, <3>1 DEF Keeps, KeptRun
  <2>5. SameReports /\ SameOpen /\ SameWorkflows
    BY <2>1 DEF SameReports, SameOpen, SameWorkflows, HasReport, Open
  <2>6. \A v \in Workflows : rtc_runs'[v] = NoHandle \/ rtc_runs'[v].run # NoRun
    BY <1>1, <2>3 DEF EngineTypes
  <2>7. ASSUME NEW s \in {"completed", "failed"}, runs' = [runs EXCEPT ![r].status = s],
               UNCHANGED <<busy, at>>
        PROVE  Effect /\ EngineTypes'
    <3>1. runs' \in Seq(Runs) /\ Len(runs') = Len(runs) /\ Sets(r, s)
      BY <1>1, <2>2, <2>7, SetStatus DEF Statuses
    <3>2. SameExecuting
      BY <2>7 DEF SameExecuting, Executing
    <3>3. GivenUp(w)
      BY <2>1, <2>2, <2>4, <2>5, <2>7, <3>1, <3>2 DEF GivenUp
    <3> QED
      BY <1>1, <2>1, <2>3, <2>6, <2>7, <3>1, <3>3 DEF Effect, EngineTypes
  <2>8. ASSUME busy' = r, op' = "dispatch", at' = [at EXCEPT ![r] = "ready"], runs' = runs
        PROVE  Effect /\ EngineTypes'
    <3>1. at' \in [RunIds -> AtStates] /\ Begins(r)
      BY <1>1, <2>2, <2>8, MovesFacts DEF AtStates
    <3>2. SameRuns
      BY <2>8 DEF SameRuns, Count, WfOf, Status
    <3>3. Taken(w)
      BY <2>1, <2>2, <2>4, <2>5, <2>8, <3>1, <3>2 DEF Taken
    <3>4. busy' \in Nat
      BY <1>1, <2>2, <2>8 DEF Sorts
    <3> QED
      BY <1>1, <2>1, <2>3, <2>6, <2>8, <3>1, <3>3, <3>4 DEF Effect, EngineTypes
  <2>9. \/ /\ runs' = [runs EXCEPT ![r].status = "completed"]
           /\ UNCHANGED <<busy, at>>
        \/ /\ runs' = [runs EXCEPT ![r].status = "failed"]
           /\ UNCHANGED <<busy, at>>
        \/ busy' = r /\ op' = "dispatch" /\ at' = [at EXCEPT ![r] = "ready"] /\ runs' = runs
    BY <1>4 DEF DispatchEvent, Starts, execVars
  <2> QED
    BY <2>7, <2>8, <2>9
<1> QED
  BY <1>2, <1>3, <1>4

-----------------------------------------------------------------------------
(* The mailboxes' part of the invariant                                                          *)

SameBox(e) ==
    /\ Size(e)' = Size(e)
    /\ \A i \in 1..Size(e) : Sender(e, i)' = Sender(e, i) /\ (Question(e, i)' <=> Question(e, i))

\* A message of r is put in, a question or not.
Longer(e, r, asks) ==
    /\ Size(e)' = Size(e) + 1
    /\ \A i \in 1..(Size(e) + 1) :
        /\ Sender(e, i)' = IF i = Size(e) + 1 THEN r ELSE Sender(e, i)
        /\ Question(e, i)' <=> IF i = Size(e) + 1 THEN asks ELSE Question(e, i)

Shorter(e) ==
    /\ Size(e) \in Nat \ {0} /\ Size(e)' = Size(e) - 1
    /\ \A i \in 1..(Size(e) - 1) :
        Sender(e, i)' = Sender(e, i + 1) /\ (Question(e, i)' <=> Question(e, i + 1))

Emptied(e) == Size(e)' = 0

SameCalls == Callers' = Callers /\ \A k \in 1..Callers : Caller(k)' = Caller(k)

MoreCalls(r) ==
    /\ Callers' = Callers + 1
    /\ \A k \in 1..(Callers + 1) : Caller(k)' = IF k = Callers + 1 THEN r ELSE Caller(k)

LessCalls ==
    /\ Callers \in Nat \ {0} /\ Callers' = Callers - 1
    /\ \A k \in 1..(Callers - 1) : Caller(k)' = Caller(k + 1)

\* Who waits for an answer goes on waiting.
Waiting(q) == at[q] \in {"asked", "calling"}
StillWaiting(q) == Waiting(q) => at'[q] = at[q]

Sizes == /\ \A e \in Entities : Size(e) \in Nat
         /\ Callers \in Nat

(* Nothing moves.                                                                               *)
LEMMA QuietMail ==
    ASSUME Sizes, Asking, Calling, \A e \in Entities : SameBox(e), SameCalls,
           \A q \in RunIds : StillWaiting(q)
    PROVE  Asking' /\ Calling'
BY DEF Sizes, Asking, Calling, SameBox, SameCalls, StillWaiting, Waiting

(* A message that is no question is put in some mailboxes for a run that asks nothing; the run   *)
(* may be the one at the head of the calls, which is then through.                               *)
LEMMA SentMail ==
    ASSUME Sizes, Asking, Calling, NEW r, ~(r \in RunIds /\ at[r] = "asked"),
           \A e \in Entities : SameBox(e) \/ Longer(e, r, FALSE),
           \/ SameCalls /\ \A q \in RunIds : StillWaiting(q)
           \/ /\ LessCalls /\ Caller(1) = r
              /\ \A q \in RunIds : q # r => StillWaiting(q)
    PROVE  Asking' /\ Calling'
<1>1. Asking'
  <2>1. ASSUME NEW e \in Entities, NEW i \in 1..Size(e)', Question(e, i)'
        PROVE  /\ i \in 1..Size(e) /\ Question(e, i) /\ Sender(e, i)' = Sender(e, i)
               /\ \A j \in 1..Size(e)' : Sender(e, j)' = Sender(e, j) \/ Sender(e, j)' = r
    BY <2>1 DEF Sizes, SameBox, Longer
  <2>2. \A q \in RunIds : q # r => StillWaiting(q)
    OBVIOUS
  <2>3. ASSUME NEW e \in Entities, NEW i \in 1..Size(e)', Question(e, i)'
        PROVE  /\ Sender(e, i)' \in RunIds /\ at'[Sender(e, i)'] = "asked"
               /\ Sender(e, i)' # r
    BY <2>1, <2>2, <2>3 DEF Asking, StillWaiting, Waiting
  <2>4. ASSUME NEW e \in Entities, NEW i \in 1..Size(e)', Question(e, i)',
               NEW j \in (i + 1)..Size(e)'
        PROVE  Sender(e, j)' # Sender(e, i)'
    BY <2>1, <2>3, <2>4 DEF Asking, Sizes, SameBox, Longer
  <2>5. ASSUME NEW e \in Entities, NEW i \in 1..Size(e)', Question(e, i)',
               NEW f \in Entities, f # e, NEW j \in 1..Size(f)', Question(f, j)'
        PROVE  Sender(f, j)' # Sender(e, i)'
    BY <2>1, <2>5 DEF Asking
  <2> QED
    BY <2>3, <2>4, <2>5 DEF Asking
<1>2. CASE SameCalls /\ \A q \in RunIds : StillWaiting(q)
  BY <1>1, <1>2 DEF Sizes, Calling, SameCalls, StillWaiting, Waiting
<1>3. CASE LessCalls /\ Caller(1) = r /\ \A q \in RunIds : q # r => StillWaiting(q)
  BY <1>1, <1>3 DEF Sizes, Calling, LessCalls, StillWaiting, Waiting
<1> QED
  BY <1>2, <1>3

(* A run asks.                                                                                  *)
LEMMA AskedMail ==
    ASSUME Sizes, Asking, Calling, NEW r \in RunIds, ~Waiting(r), NEW e \in Entities,
           Longer(e, r, TRUE), \A f \in Entities : f # e => SameBox(f), SameCalls,
           \A q \in RunIds : at'[q] = IF q = r THEN "asked" ELSE at[q]
    PROVE  Asking' /\ Calling'
BY DEF Sizes, Asking, Calling, SameBox, Longer, SameCalls, Waiting

(* A run calls.                                                                                 *)
LEMMA CalledMail ==
    ASSUME Sizes, Asking, Calling, NEW r \in RunIds, ~Waiting(r),
           \A e \in Entities : SameBox(e), MoreCalls(r),
           \A q \in RunIds : at'[q] = IF q = r THEN "calling" ELSE at[q]
    PROVE  Asking' /\ Calling'
BY DEF Sizes, Asking, Calling, SameBox, MoreCalls, Waiting

(* An entity takes the first message; if it is a question the one who asked goes on.            *)
LEMMA TakenMail ==
    ASSUME Sizes, Asking, Calling, NEW e \in Entities, Shorter(e),
           \A f \in Entities : f # e => SameBox(f), SameCalls,
           \A q \in RunIds : ~(Question(e, 1) /\ q = Sender(e, 1)) => StillWaiting(q)
    PROVE  Asking' /\ Calling'
<1>1. Calling'
  BY DEF Sizes, Asking, Calling, Shorter, SameCalls, StillWaiting, Waiting
<1>2. Asking'
  BY DEF Sizes, Asking, Shorter, SameBox, StillWaiting, Waiting
<1> QED
  BY <1>1, <1>2

(* An entity ends: the ones who asked it wait no more for an answer.                            *)
LEMMA EndedMail ==
    ASSUME Sizes, Asking, Calling, NEW e \in Entities, Emptied(e),
           \A f \in Entities : f # e => SameBox(f), SameCalls,
           \A q \in RunIds : (\A i \in 1..Size(e) : Question(e, i) => Sender(e, i) # q)
                              => StillWaiting(q)
    PROVE  Asking' /\ Calling'
<1>1. Calling'
  BY DEF Sizes, Asking, Calling, SameCalls, StillWaiting, Waiting
<1>2. Asking'
  BY DEF Sizes, Asking, Emptied, SameBox, StillWaiting, Waiting
<1> QED
  BY <1>1, <1>2

(* A sequence has a length.                                                                     *)
LEMMA LenFacts == ASSUME NEW s, Sequence(s) PROVE Len(s) \in Nat
BY DEF Sequence

(* The mailboxes and the calls have lengths.                                                    *)
LEMMA SizesHold == ASSUME Mail PROVE Sizes
BY LenFacts DEF Mail, Boxes, Sizes, Size, Callers

(* What stays the same.                                                                         *)
LEMMA SameBoxes == ASSUME mailbox' = mailbox PROVE \A e \in Entities : SameBox(e)
BY DEF SameBox, Size, Sender, Question

LEMMA SameLine == ASSUME calls' = calls PROVE SameCalls
BY DEF SameCalls, Callers, Caller

(* A mailbox is set, the others stay.                                                           *)
LEMMA OneBox ==
    ASSUME Boxes, NEW e \in Entities, NEW s, Sequence(s), mailbox' = [mailbox EXCEPT ![e] = s]
    PROVE  Boxes' /\ mailbox'[e] = s /\ \A f \in Entities : f # e => SameBox(f)
<1>1. \A f \in Entities : mailbox'[f] = IF f = e THEN s ELSE mailbox[f]
  BY DEF Boxes
<1>2. mailbox' = [f \in Entities |-> mailbox'[f]]
  BY DEF Boxes
<1> QED
  BY <1>1, <1>2 DEF Boxes, SameBox, Size, Sender, Question

(* A message at the end of a mailbox.                                                           *)
LEMMA BoxLonger ==
    ASSUME NEW e \in Entities, NEW m, Sequence(mailbox[e]), mailbox'[e] = Append(mailbox[e], m)
    PROVE  /\ m.type # "get" => Longer(e, m.by, FALSE)
           /\ m.type = "get" => Longer(e, m.by, TRUE)
BY AppendFacts DEF Longer, Size, Sender, Question

LEMMA BoxSent ==
    ASSUME Boxes, NEW e \in Entities, NEW m, Sent(e, m)
    PROVE  /\ Boxes' /\ \A f \in Entities : f # e => SameBox(f)
           /\ m.type # "get" => Longer(e, m.by, FALSE)
           /\ m.type = "get" => Longer(e, m.by, TRUE)
<1>1. Sequence(mailbox[e]) /\ Sequence(Append(mailbox[e], m))
  BY AppendFacts DEF Boxes
<1>2. mailbox' = [mailbox EXCEPT ![e] = Append(mailbox[e], m)]
  BY DEF Sent
<1> QED
  BY <1>1, <1>2, OneBox, BoxLonger

(* The first message out of a mailbox.                                                          *)
LEMMA BoxShorter ==
    ASSUME Boxes, NEW e \in Entities, mailbox[e] # <<>>,
           mailbox' = [mailbox EXCEPT ![e] = Tail(@)]
    PROVE  /\ Boxes' /\ \A f \in Entities : f # e => SameBox(f)
           /\ Shorter(e) /\ Head(mailbox[e]) = mailbox[e][1]
<1>1. Sequence(mailbox[e]) /\ Sequence(Tail(mailbox[e]))
  BY TailFacts DEF Boxes
<1>2. mailbox' = [mailbox EXCEPT ![e] = Tail(mailbox[e])]
  OBVIOUS
<1>3. Boxes' /\ mailbox'[e] = Tail(mailbox[e]) /\ \A f \in Entities : f # e => SameBox(f)
  BY <1>1, <1>2, OneBox
<1> QED
  <2>1. /\ Len(mailbox[e]) \in Nat \ {0} /\ Len(mailbox'[e]) = Len(mailbox[e]) - 1
        /\ \A i \in 1..(Len(mailbox[e]) - 1) : mailbox'[e][i] = mailbox[e][i + 1]
        /\ Head(mailbox[e]) = mailbox[e][1]
    BY <1>1, <1>3, TailFacts
  <2> QED
    BY <1>3, <2>1 DEF Shorter, Size, Sender, Question

-----------------------------------------------------------------------------
(* Every step keeps the invariant                                                                *)

Preserved == Effect /\ EngineTypes' /\ Mail'

(* A run that does not wait fails, or ends.                                                     *)
LEMMA EndsQuietly ==
    ASSUME Inv, NEW r \in RunIds, NEW ok \in BOOLEAN, at[r] \in {"ready", "lost"}, Ends(r, ok),
           UNCHANGED <<calls, mailbox, alive>>
    PROVE  Preserved
<1>1. Effect /\ EngineTypes' /\ \A q \in RunIds : at'[q] = IF q = r THEN "done" ELSE at[q]
  BY EndsEffect DEF Inv, Executing
<1>2. \A q \in RunIds : StillWaiting(q)
  BY <1>1 DEF StillWaiting, Waiting
<1>3. Asking' /\ Calling'
  BY <1>2, QuietMail, SizesHold, SameBoxes, SameLine DEF Inv, Mail
<1> QED
  BY <1>1, <1>3 DEF Preserved, Inv, Mail, Boxes

(* A step that needs nobody.                                                                    *)
LEMMA StepsQuietly ==
    ASSUME Inv, NEW r \in RunIds, at[r] = "ready", GoesOn(r), UNCHANGED <<calls, mailbox, alive>>
    PROVE  Preserved
<1>1. Effect /\ EngineTypes' /\ \A q \in RunIds : at'[q] = IF q = r THEN "ready" ELSE at[q]
  BY MovesEffect DEF Inv, Executing, GoesOn
<1>2. \A q \in RunIds : StillWaiting(q)
  BY <1>1 DEF StillWaiting, Waiting
<1>3. Asking' /\ Calling'
  BY <1>2, QuietMail, SizesHold, SameBoxes, SameLine DEF Inv, Mail
<1> QED
  BY <1>1, <1>3 DEF Preserved, Inv, Mail, Boxes

(* The steps of executors.                                                                      *)
LEMMA ExecutorStep == ASSUME Inv, NEW r \in RunIds, Step(r) \/ Dropped(r) PROVE Preserved
<1> DEFINE s == Head(left[r])
           Message(type) == [type |-> type, by |-> r, val |-> s.val]
<1>0. Boxes /\ alive \subseteq Entities /\ Sequence(calls) /\ Asking /\ Calling /\ Sizes /\ Engine
  BY SizesHold DEF Inv, Mail
<1>1. CASE Finish(r) \/ Literal(r) \/ Dropped(r)
  <2>1. UNCHANGED <<calls, mailbox, alive>> /\ at[r] \in {"ready", "lost"}
    BY <1>1 DEF Finish, Literal, Dropped, AtStep, worldVars
  <2>2. (\E ok \in BOOLEAN : Ends(r, ok)) \/ (at[r] = "ready" /\ GoesOn(r))
    BY <1>1 DEF Finish, Literal, Dropped, AtStep, Fails
  <2> QED
    BY <2>1, <2>2, EndsQuietly, StepsQuietly
<1>2. CASE SetEntityState(r)
  <2>1. at[r] = "ready" /\ calls' = calls /\ alive' = alive
    BY <1>2 DEF SetEntityState, AtStep
  <2>2. CASE Fails(r) /\ mailbox' = mailbox
    BY <2>1, <2>2, EndsQuietly DEF Fails
  <2>3. CASE Reachable(s.entity) /\ Sent(s.entity, Message("set")) /\ GoesOn(r)
    <3>1. Effect /\ EngineTypes' /\ \A q \in RunIds : at'[q] = IF q = r THEN "ready" ELSE at[q]
      BY <1>0, <2>1, <2>3, MovesEffect DEF Executing, GoesOn
    <3>2. s.entity \in Entities
      BY <1>0, <2>3 DEF Reachable
    <3>3. Message("set").type # "get" /\ Message("set").by = r
      OBVIOUS
    <3>4. /\ Boxes' /\ Longer(s.entity, r, FALSE)
          /\ \A f \in Entities : f # s.entity => SameBox(f)
      <4> HIDE DEF Message, s
      <4> QED
        BY <1>0, <2>3, <3>2, <3>3, BoxSent
    <3>5. \A q \in RunIds : StillWaiting(q)
      BY <2>1, <3>1 DEF StillWaiting, Waiting
    <3>6. Asking' /\ Calling'
      BY <1>0, <2>1, <3>4, <3>5, SentMail, SameLine
    <3> QED
      BY <1>0, <2>1, <3>1, <3>4, <3>6 DEF Preserved, Mail
  <2> QED
    BY <1>2, <2>2, <2>3 DEF SetEntityState
<1>3. CASE eval_condition(r)
  <2>1. at[r] = "ready" /\ calls' = calls /\ alive' = alive
    BY <1>3 DEF eval_condition, AtStep
  <2>2. CASE Fails(r) /\ mailbox' = mailbox
    BY <2>1, <2>2, EndsQuietly DEF Fails
  <2>3. CASE /\ Reachable(s.entity) /\ Sent(s.entity, Message("get"))
             /\ at' = [at EXCEPT ![r] = "asked"] /\ UNCHANGED <<engineVars, left, reports>>
    <3>1. Effect /\ EngineTypes' /\ \A q \in RunIds : at'[q] = IF q = r THEN "asked" ELSE at[q]
      BY <1>0, <2>1, <2>3, MovesEffect DEF Executing
    <3>2. s.entity \in Entities
      BY <1>0, <2>3 DEF Reachable
    <3>3. Message("get").type = "get" /\ Message("get").by = r
      OBVIOUS
    <3>4. /\ Boxes' /\ Longer(s.entity, r, TRUE)
          /\ \A f \in Entities : f # s.entity => SameBox(f)
      <4> HIDE DEF Message, s
      <4> QED
        BY <1>0, <2>3, <3>2, <3>3, BoxSent
    <3>5. ~Waiting(r)
      BY <2>1 DEF Waiting
    <3>6. Asking' /\ Calling'
      BY <1>0, <2>1, <3>1, <3>2, <3>4, <3>5, AskedMail, SameLine
    <3> QED
      BY <1>0, <2>1, <3>1, <3>4, <3>6 DEF Preserved, Mail
  <2> QED
    BY <1>3, <2>2, <2>3 DEF eval_condition
<1>4. CASE ServiceCall(r)
  <2> DEFINE call == [by |-> r, step |-> s]
  <2>1. /\ at[r] = "ready" /\ calls' = Append(calls, call) /\ at' = [at EXCEPT ![r] = "calling"]
        /\ UNCHANGED <<engineVars, reports, mailbox, alive>>
    BY <1>4 DEF ServiceCall, AtStep, worldVars
  <2>2. Effect /\ EngineTypes' /\ \A q \in RunIds : at'[q] = IF q = r THEN "calling" ELSE at[q]
    BY <1>0, <2>1, MovesEffect DEF Executing
  <2>3. call.by = r
    OBVIOUS
  <2>4. Sequence(calls') /\ MoreCalls(r)
    <3> HIDE DEF call
    <3> QED
      BY <1>0, <2>1, <2>3, AppendFacts DEF MoreCalls, Callers, Caller
  <2>5. Asking' /\ Calling'
    BY <1>0, <2>1, <2>2, <2>4, CalledMail, SameBoxes DEF Waiting
  <2> QED
    BY <1>0, <2>1, <2>2, <2>4, <2>5 DEF Preserved, Mail, Boxes
<1> QED
  BY <1>1, <1>2, <1>3, <1>4 DEF Step

Handlers(w) ==
    \/ Create(w) \/ Delete(w) \/ RunPipeline(w) \/ RunStateMachine(w)
    \/ \E event \in Events : DispatchEvent(w, event)

(* The engine's handlers start only runs that nobody executes.                                  *)
LEMMA HandlerStep == ASSUME Inv, NEW w \in Workflows, Handlers(w) PROVE Preserved
<1>1. Engine /\ Sorts /\ EngineTypes /\ Sizes /\ Mail
  BY SortsHold, SizesHold DEF Inv, Engine
<1>2. Effect /\ EngineTypes'
  BY <1>1, HandlersEffect DEF Handlers
<1>3. UNCHANGED <<calls, mailbox, alive>>
  BY DEF Handlers, Create, Delete, RunPipeline, RunStateMachine, DispatchEvent, worldVars
<1>4. ASSUME NEW r, ~Executing(r), at' = [at EXCEPT ![r] = "ready"]
      PROVE  \A q \in RunIds : StillWaiting(q)
  BY <1>1, <1>4 DEF EngineTypes, StillWaiting, Waiting, Executing
<1>5. ASSUME at' = at PROVE \A q \in RunIds : StillWaiting(q)
  BY <1>5 DEF StillWaiting
<1>6. \A q \in RunIds : StillWaiting(q)
  <2>1. CASE Create(w) \/ Delete(w)
    BY <1>5, <2>1 DEF Create, Delete, execVars
  <2>2. CASE RunPipeline(w) \/ RunStateMachine(w)
    <3>1. at' = at \/ at' = [at EXCEPT ![Len(runs) + 1] = "ready"]
      BY <2>2 DEF RunPipeline, RunStateMachine, Starts, execVars
    <3>2. Len(runs) + 1 \in RunIds /\ Len(runs) + 1 \notin 1..Count
      BY <1>1, <2>2 DEF RunPipeline, RunStateMachine, Sorts, Count
    <3>3. ~Executing(Len(runs) + 1)
      BY <1>1, <3>2 DEF Engine, Executors
    <3> QED
      BY <1>4, <1>5, <3>1, <3>3
  <2>3. ASSUME NEW event \in Events, DispatchEvent(w, event)
        PROVE  \A q \in RunIds : StillWaiting(q)
    <3>1. at' = at \/ at' = [at EXCEPT ![rtc_runs[w].run] = "ready"]
      BY <2>3 DEF DispatchEvent, Starts, execVars
    <3>2. rtc_runs[w] # NoHandle
      BY <2>3 DEF DispatchEvent
    <3>3. ~Executing(rtc_runs[w].run)
      BY <1>1, <3>2 DEF Engine, EngineTypes, Kept, KeptRun
    <3> QED
      BY <1>4, <1>5, <3>1, <3>3
  <2> QED
    BY <2>1, <2>2, <2>3 DEF Handlers
<1>7. Asking' /\ Calling'
  BY <1>1, <1>3, <1>6, QuietMail, SameBoxes, SameLine DEF Mail
<1> QED
  BY <1>1, <1>2, <1>3, <1>7 DEF Preserved, Mail, Boxes

(* The report of a pipeline, the end of the engine.                                             *)
LEMMA ReportStep ==
    ASSUME Inv, Stop \/ \E r \in RunIds, ok \in BOOLEAN : RunCompleted(r, ok)
    PROVE  Preserved
<1>1. Engine /\ Sorts /\ EngineTypes /\ Sizes /\ Mail
  BY SortsHold, SizesHold DEF Inv, Engine
<1>2. UNCHANGED <<at, calls, mailbox, alive, created, workflows, rtc_runs, busy, op>> /\ Ready
  BY DEF Stop, RunCompleted, execVars, worldVars
<1>3. Asking' /\ Calling'
  BY <1>1, <1>2, QuietMail, SameBoxes, SameLine DEF Mail, StillWaiting
<1>4. SameExecuting /\ SameKept /\ SameWorkflows
  BY <1>2 DEF SameExecuting, SameKept, SameWorkflows, Executing, KeptRun
<1>5. CASE Stop
  <2>1. SameRuns /\ SameReports /\ ~Open'
    BY <1>5 DEF Stop, SameRuns, SameReports, Count, WfOf, Status, HasReport, Open
  <2>2. Stopped
    BY <1>2, <1>4, <2>1 DEF Stopped, Ready, Open
  <2>3. EngineTypes'
    BY <1>1, <1>2, <1>5 DEF EngineTypes, Stop
  <2> QED
    BY <1>1, <1>2, <1>3, <2>2, <2>3 DEF Preserved, Mail, Boxes, Effect
<1>6. ASSUME NEW r \in RunIds, NEW ok \in BOOLEAN, RunCompleted(r, ok) PROVE Preserved
  <2>1. /\ HasReport(r, ok) /\ reports' = reports \ {<<r, ok>>} /\ up' = up
        /\ runs' = [runs EXCEPT ![r].status = IF ok THEN "completed" ELSE "failed"]
    BY <1>6 DEF RunCompleted, HasReport
  <2>2. r \in 1..Count
    BY <1>1, <2>1 DEF Engine, Reported
  <2>3. PICK s \in {"completed", "failed"} : runs' = [runs EXCEPT ![r].status = s]
    <3>1. CASE ok
      BY <2>1, <3>1
    <3>2. CASE ~ok
      BY <2>1, <3>2
    <3> QED
      BY <3>1, <3>2
  <2>4. runs' \in Seq(Runs) /\ Len(runs') = Len(runs) /\ Sets(r, s)
    BY <1>1, <2>2, <2>3, SetStatus DEF Statuses
  <2>5. \A q \in RunIds, b \in BOOLEAN :
            HasReport(q, b)' <=> HasReport(q, b) /\ ~(q = r /\ b = ok)
    BY <2>1 DEF HasReport
  <2>6. SameOpen
    BY <2>1 DEF SameOpen, Open
  <2>7. Learned(r, ok)
    BY <1>2, <1>4, <2>1, <2>4, <2>5, <2>6 DEF Learned, Ready, Open
  <2>8. EngineTypes'
    BY <1>1, <1>2, <2>1, <2>4 DEF EngineTypes
  <2> QED
    BY <1>1, <1>2, <1>3, <2>7, <2>8 DEF Preserved, Mail, Boxes, Effect
<1> QED
  BY <1>5, <1>6

(* The answer to a call: the command is with the targets, the caller goes on or fails.          *)
LEMMA CallStep == ASSUME Inv, Call PROVE Preserved
<1>1. Engine /\ Sizes /\ Mail /\ Boxes /\ Asking /\ Calling /\ Sequence(calls)
  BY SizesHold DEF Inv, Mail
<1>2. calls # <<>> /\ calls' = Tail(calls) /\ alive' = alive
  BY DEF Call
<1>3. Sequence(calls') /\ LessCalls /\ Caller(1) = Head(calls).by /\ 1 \in 1..Callers
  BY <1>1, <1>2, TailFacts DEF LessCalls, Callers, Caller
<1>4. PICK r \in RunIds : r = Head(calls).by /\ at[r] = "calling"
  BY <1>1, <1>3 DEF Calling
<1> DEFINE s == Head(calls).step
           m == [type |-> "command", by |-> r, val |-> s.val]
<1>5. GoesOn(r) \/ Fails(r)
  BY <1>4 DEF Call
<1>6. Effect /\ EngineTypes' /\ \A q \in RunIds : q # r => at'[q] = at[q]
  <2>1. CASE GoesOn(r)
    <3>1. Executing(r) /\ UNCHANGED <<engineVars, reports>> /\ at' = [at EXCEPT ![r] = "ready"]
      BY <1>4, <2>1 DEF Executing, GoesOn
    <3>2. Effect /\ EngineTypes' /\ \A q \in RunIds : at'[q] = IF q = r THEN "ready" ELSE at[q]
      BY <1>1, <3>1, MovesEffect
    <3> QED
      BY <3>2
  <2>2. CASE Fails(r)
    BY <1>1, <1>4, <2>2, EndsEffect DEF Fails, Executing
  <2> QED
    BY <1>5, <2>1, <2>2
<1>7. /\ mailbox' = [e \in Entities |-> mailbox'[e]]
      /\ \A e \in Entities : mailbox'[e] = mailbox[e] \/ mailbox'[e] = Append(mailbox[e], m)
  BY <1>4 DEF Call
<1>8. m.type # "get" /\ m.by = r
  OBVIOUS
<1>9. ASSUME NEW e \in Entities
      PROVE  Sequence(mailbox'[e]) /\ (SameBox(e) \/ Longer(e, r, FALSE))
  <2> HIDE DEF m
  <2>1. Sequence(mailbox[e])
    BY <1>1 DEF Boxes
  <2>2. CASE mailbox'[e] = mailbox[e]
    BY <2>1, <2>2 DEF SameBox, Size, Sender, Question
  <2>3. CASE mailbox'[e] = Append(mailbox[e], m)
    <3>1. Sequence(mailbox'[e])
      BY <2>1, <2>3, AppendFacts
    <3>2. Longer(e, m.by, FALSE)
      BY <1>8, <2>1, <2>3, BoxLonger
    <3> QED
      BY <1>8, <3>1, <3>2
  <2> QED
    BY <1>7, <2>2, <2>3
<1>10. Asking' /\ Calling'
  <2>1. \A q \in RunIds : q # r => StillWaiting(q)
    BY <1>6 DEF StillWaiting
  <2> QED
    BY <1>1, <1>3, <1>4, <1>9, <2>1, SentMail
<1> QED
  BY <1>1, <1>2, <1>3, <1>6, <1>7, <1>9, <1>10 DEF Preserved, Mail, Boxes

(* The end of an entity actor: the runs that asked it are lost, and go on executing.            *)
LEMMA EndedStep ==
    ASSUME Inv, NEW e \in Entities, Ended(e), UNCHANGED <<engineVars, reports, calls>>
    PROVE  Preserved
<1>1. Engine /\ EngineTypes /\ Sizes /\ Mail /\ Boxes /\ Asking /\ Calling
  BY SizesHold DEF Inv, Mail, Engine
<1>2. Boxes' /\ mailbox'[e] = <<>> /\ \A f \in Entities : f # e => SameBox(f)
  BY <1>1, EmptyFacts, OneBox DEF Ended
<1>3. Emptied(e)
  BY <1>2, EmptyFacts DEF Emptied, Size
<1>4. DOMAIN mailbox[e] = 1..Size(e)
  <2>1. PICK S : mailbox[e] \in Seq(S)
    BY <1>1 DEF Boxes, Sequence
  <2> QED
    BY <2>1 DEF Size
<1>5. \A q \in RunIds :
        q \in Abandoned(e) <=> \E i \in 1..Size(e) : Question(e, i) /\ Sender(e, i) = q
  BY <1>4 DEF Abandoned, Question, Sender
<1>6. \A q \in RunIds : at'[q] = IF q \in Abandoned(e) THEN "lost" ELSE at[q]
  BY DEF Ended
<1>7. \A q \in RunIds : q \in Abandoned(e) => at[q] = "asked"
  BY <1>1, <1>5 DEF Asking
<1>8. at' \in [RunIds -> AtStates] /\ SameExecuting
  <2>1. SameExecuting
    BY <1>6, <1>7 DEF SameExecuting, Executing
  <2>2. \A q \in RunIds : at'[q] \in AtStates
    BY <1>1, <1>6 DEF EngineTypes, AtStates
  <2>3. at' = [q \in RunIds |-> at'[q]]
    BY DEF Ended
  <2> QED
    BY <2>1, <2>2, <2>3
<1>9. Effect /\ EngineTypes'
  BY <1>1, <1>8, GoOnEffect
<1>10. \A q \in RunIds : (\A i \in 1..Size(e) : Question(e, i) => Sender(e, i) # q)
                          => StillWaiting(q)
  BY <1>5, <1>6 DEF StillWaiting
<1>11. Asking' /\ Calling'
  BY <1>1, <1>2, <1>3, <1>10, EndedMail, SameLine
<1> QED
  BY <1>1, <1>2, <1>9, <1>11 DEF Preserved, Mail, Ended

(* The entity actors.                                                                           *)
LEMMA EntityStep ==
    ASSUME Inv, NEW e \in Entities, EntityHandles(e) \/ EntityEnds(e) \/ RemoveEntity(e)
    PROVE  Preserved
<1>1. /\ Engine /\ EngineTypes /\ Sizes /\ Mail /\ Boxes /\ Asking /\ Calling /\ Sequence(calls)
      /\ alive \subseteq Entities
  BY SizesHold DEF Inv, Mail, Engine
<1>2. calls' = calls
  BY DEF EntityHandles, EntityEnds, RemoveEntity
<1>3. CASE EntityEnds(e)
  BY <1>3, EndedStep DEF EntityEnds
<1>4. CASE RemoveEntity(e)
  <2> DEFINE m == [type |-> "stop", by |-> NoRun, val |-> "none"]
  <2>1. UNCHANGED <<engineVars, at, reports, alive>>
    BY <1>4 DEF RemoveEntity, execVars
  <2>2. at' \in [RunIds -> AtStates] /\ SameExecuting /\ \A q \in RunIds : StillWaiting(q)
    BY <1>1, <2>1 DEF EngineTypes, SameExecuting, Executing, StillWaiting
  <2>3. Effect /\ EngineTypes'
    BY <1>1, <2>1, <2>2, GoOnEffect
  <2>4. CASE mailbox' = mailbox
    <3>1. Asking' /\ Calling'
      BY <1>1, <1>2, <2>2, <2>4, QuietMail, SameBoxes, SameLine
    <3> QED
      BY <1>1, <1>2, <2>1, <2>3, <2>4, <3>1 DEF Preserved, Mail, Boxes
  <2>5. CASE Sent(e, m)
    <3>1. m.type # "get" /\ m.by = NoRun
      OBVIOUS
    <3>2. Boxes' /\ Longer(e, NoRun, FALSE) /\ \A f \in Entities : f # e => SameBox(f)
      <4> HIDE DEF m
      <4> QED
        BY <1>1, <2>5, <3>1, BoxSent
    <3>3. NoRun \notin RunIds
      BY ConstantsAssumption DEF NoRun, RunIds
    <3>4. Asking' /\ Calling'
      BY <1>1, <1>2, <2>2, <3>2, <3>3, SentMail, SameLine
    <3> QED
      BY <1>1, <1>2, <2>1, <2>3, <3>2, <3>4 DEF Preserved, Mail
  <2> QED
    BY <1>4, <2>4, <2>5 DEF RemoveEntity
<1>5. CASE EntityHandles(e)
  <2> DEFINE m == Head(mailbox[e])
  <2>1. mailbox[e] # <<>>
    BY <1>5 DEF EntityHandles
  <2>2. CASE m.type = "stop" /\ Ended(e) /\ UNCHANGED <<engineVars, reports>>
    BY <1>2, <2>2, EndedStep
  <2>3. CASE /\ mailbox' = [mailbox EXCEPT ![e] = Tail(@)]
             /\ UNCHANGED <<alive, engineVars, at, reports>>
    <3>1. /\ Boxes' /\ \A f \in Entities : f # e => SameBox(f)
          /\ Shorter(e)
      BY <1>1, <2>1, <2>3, BoxShorter
    <3>2. at' \in [RunIds -> AtStates] /\ SameExecuting /\ \A q \in RunIds : StillWaiting(q)
      BY <1>1, <2>3 DEF EngineTypes, SameExecuting, Executing, StillWaiting
    <3>3. Effect /\ EngineTypes'
      BY <1>1, <2>3, <3>2, GoOnEffect
    <3>4. Asking' /\ Calling'
      BY <1>1, <1>2, <3>1, <3>2, TakenMail, SameLine
    <3> QED
      BY <1>1, <1>2, <2>3, <3>1, <3>3, <3>4 DEF Preserved, Mail
  <2>4. CASE /\ m.type = "get" /\ (GoesOn(m.by) \/ Fails(m.by))
             /\ mailbox' = [mailbox EXCEPT ![e] = Tail(@)] /\ alive' = alive
    <3>1. /\ Boxes' /\ \A f \in Entities : f # e => SameBox(f)
          /\ Shorter(e) /\ m = mailbox[e][1]
      BY <1>1, <2>1, <2>4, BoxShorter
    <3>2. Question(e, 1) /\ Sender(e, 1) = m.by /\ 1 \in 1..Size(e)
      <4>1. 1 \in 1..Size(e)
        BY <3>1 DEF Shorter
      <4>2. mailbox[e][1].type = "get"
        BY <2>4, <3>1
      <4> QED
        BY <3>1, <4>1, <4>2 DEF Question, Sender
    <3>3. PICK r \in RunIds : r = m.by /\ at[r] = "asked"
      BY <1>1, <3>2 DEF Asking
    <3>4. CASE GoesOn(r)
      <4>1. Executing(r) /\ UNCHANGED <<engineVars, reports>> /\ at' = [at EXCEPT ![r] = "ready"]
        BY <3>3, <3>4 DEF Executing, GoesOn
      <4>2. Effect /\ EngineTypes' /\ \A q \in RunIds : at'[q] = IF q = r THEN "ready" ELSE at[q]
        BY <1>1, <4>1, MovesEffect
      <4>3. \A q \in RunIds : ~(Question(e, 1) /\ q = Sender(e, 1)) => StillWaiting(q)
        BY <3>2, <3>3, <4>2 DEF StillWaiting
      <4>4. Asking' /\ Calling'
        BY <1>1, <1>2, <3>1, <4>3, TakenMail, SameLine
      <4> QED
        BY <1>1, <1>2, <2>4, <3>1, <4>2, <4>4 DEF Preserved, Mail
    <3>5. CASE Fails(r)
      <4>1. Executing(r) /\ Ends(r, FALSE)
        BY <3>3, <3>5 DEF Executing, Fails
      <4>2. Effect /\ EngineTypes' /\ \A q \in RunIds : at'[q] = IF q = r THEN "done" ELSE at[q]
        BY <1>1, <4>1, EndsEffect
      <4>3. \A q \in RunIds : ~(Question(e, 1) /\ q = Sender(e, 1)) => StillWaiting(q)
        BY <3>2, <3>3, <4>2 DEF StillWaiting
      <4>4. Asking' /\ Calling'
        BY <1>1, <1>2, <3>1, <4>3, TakenMail, SameLine
      <4> QED
        BY <1>1, <1>2, <2>4, <3>1, <4>2, <4>4 DEF Preserved, Mail
    <3> QED
      BY <2>4, <3>3, <3>4, <3>5
  <2> QED
    BY <1>5, <2>2, <2>3, <2>4 DEF EntityHandles, execVars
<1> QED
  BY <1>3, <1>4, <1>5

-----------------------------------------------------------------------------
(* The theorems                                                                                  *)

(* The invariant holds at the start.                                                            *)
LEMMA InitInv == ASSUME Init PROVE Inv
<1>1. /\ runs = <<>> /\ Count = 0 /\ reports = {} /\ busy = NoRun /\ calls = <<>> /\ up = TRUE
      /\ created = {} /\ workflows = {} /\ alive = Entities
      /\ at = [r \in RunIds |-> "idle"] /\ rtc_runs = [w \in Workflows |-> NoHandle]
      /\ mailbox = [e \in Entities |-> <<>>]
  BY EmptyFacts DEF Init, Count
<1>2. EngineTypes
  <2>1. runs \in Seq(Runs) /\ Len(runs) <= MaxRuns
    BY <1>1, ConstantsAssumption DEF Count
  <2> QED
    BY <1>1, <2>1 DEF EngineTypes, AtStates, NoRun
<1>3. \A w \in Workflows : KeptRun(w) = NoRun
  BY <1>1 DEF KeptRun, NoHandle
<1>4. \A r \in RunIds : ~Executing(r)
  BY <1>1 DEF Executing
<1>5. Kept /\ Busy /\ Executors /\ Reported /\ Owned /\ Deleted
  BY <1>1, <1>3, <1>4 DEF Kept, Busy, Executors, Reported, Owned, Deleted, HasReport
<1>6. Boxes /\ Sequence(calls) /\ Callers = 0 /\ \A e \in Entities : Size(e) = 0
  BY <1>1, EmptyFacts DEF Boxes, Callers, Size
<1>7. Mail
  BY <1>1, <1>6 DEF Mail, Asking, Calling
<1> QED
  BY <1>2, <1>5, <1>7 DEF Inv, Engine

(* What the steps were shown to preserve is the invariant.                                      *)
LEMMA PreservedInv == ASSUME Inv, Preserved PROVE Inv'
<1>1. Sorts /\ Engine
  BY SortsHold DEF Inv, Engine
<1>2. Kept' /\ Busy' /\ Executors' /\ Reported' /\ Owned' /\ Deleted'
  BY <1>1, KeptStep, BusyStep, ExecutorsStep, ReportedStep, OwnedStep, DeletedStep DEF Preserved
<1> QED
  BY <1>2 DEF Preserved, Inv, Engine

(* Every step has one of the effects.                                                           *)
LEMMA NextEffect == ASSUME Inv, [Next]_vars PROVE Preserved
<1>1. CASE UNCHANGED vars
  <2>1. UNCHANGED <<engineVars, at, reports, calls, alive, mailbox>>
    BY <1>1 DEF vars, execVars, worldVars
  <2>2. Engine /\ Mail /\ Sizes /\ EngineTypes
    BY SizesHold DEF Inv, Engine
  <2>3. at' \in [RunIds -> AtStates] /\ SameExecuting /\ \A q \in RunIds : StillWaiting(q)
    BY <2>1, <2>2 DEF EngineTypes, SameExecuting, Executing, StillWaiting
  <2>4. Effect /\ EngineTypes'
    BY <2>1, <2>2, <2>3, GoOnEffect
  <2>5. Asking' /\ Calling'
    BY <2>1, <2>2, <2>3, QuietMail, SameBoxes, SameLine DEF Mail
  <2> QED
    BY <2>1, <2>2, <2>4, <2>5 DEF Preserved, Mail, Boxes
<1>2. CASE Next
  BY <1>2, HandlerStep, ReportStep, ExecutorStep, CallStep, EntityStep DEF Next, Handlers
<1> QED
  BY <1>1, <1>2

(* Every step preserves the invariant.                                                          *)
LEMMA NextInv == ASSUME Inv, [Next]_vars PROVE Inv'
BY NextEffect, PreservedInv

(* The invariant: one owner per run, one message under way per run that waits.                  *)
THEOREM Invariant == Spec => []Inv
BY InitInv, NextInv, PTL DEF Spec

(* The status a client polls is true: a run that is not running has no task, no report and no   *)
(* machine left, and one that is running has an owner unless another run of its machine took     *)
(* its place (WorkflowEngine's runs and rtc_runs).                                               *)
THEOREM StatusTrueInvariant == Spec => []StatusTrue
<1>1. ASSUME Inv PROVE StatusTrue
  <2>1. Sorts /\ Engine /\ DOMAIN runs = 1..Count
    BY <1>1, SortsHold DEF Inv, Engine, EngineTypes, Count
  <2> SUFFICES ASSUME NEW r \in 1..Count
               PROVE  /\ runs[r].status # "running" => ~Pending(r)
                      /\ up /\ runs[r].status = "running" => Pending(r) \/ Superseded(r)
    BY <2>1 DEF StatusTrue
  <2>2. r \in RunIds /\ WfOf(r) \in Workflows /\ r # NoRun
    BY <2>1 DEF Sorts
  <2>3. Pending(r) <=> \/ Executing(r)
                       \/ \E ok \in BOOLEAN : HasReport(r, ok)
                       \/ KeptRun(WfOf(r)) = r
    BY DEF Pending, HasReport, KeptRun, WfOf
  <2>4. Superseded(r) <=> Later(r)
    BY DEF Superseded, Later, Count, WfOf
  <2>5. Pending(r) => Status(r) = "running"
    BY <2>1, <2>2, <2>3 DEF Engine, Executors, Reported, Kept
  <2>6. Open /\ Status(r) = "running" => Pending(r) \/ Later(r)
    BY <2>1, <2>3 DEF Engine, Owned
  <2> QED
    BY <2>4, <2>5, <2>6 DEF Open, Status
<1> QED
  BY <1>1, Invariant, PTL

(* What is deleted is over: Delete is refused while a run is active, and nothing of a run       *)
(* outlives its status.                                                                          *)
THEOREM DeletedIsQuietInvariant == Spec => []DeletedIsQuiet
<1>1. ASSUME Inv PROVE DeletedIsQuiet
  <2>1. Sorts /\ Engine /\ EngineTypes /\ DOMAIN runs = 1..Count
    BY <1>1, SortsHold DEF Inv, Engine, EngineTypes, Count
  <2> SUFFICES ASSUME NEW w \in created \ workflows
               PROVE  /\ rtc_runs[w] = NoHandle
                      /\ \A r \in 1..Count : WfOf(r) = w => ~Executing(r)
    BY <2>1 DEF DeletedIsQuiet, WfOf
  <2>2. w \in Workflows
    BY <2>1 DEF Engine, Deleted
  <2>3. \A r \in 1..Count : WfOf(r) = w => Status(r) # "running"
    BY <2>1 DEF Engine, Deleted
  <2>4. KeptRun(w) = NoRun
    BY <2>1, <2>2, <2>3 DEF Engine, Kept
  <2>5. rtc_runs[w] = NoHandle
    BY <2>1, <2>2, <2>4 DEF EngineTypes, KeptRun
  <2>6. \A r \in 1..Count : WfOf(r) = w => ~Executing(r)
    BY <2>1, <2>3 DEF Engine, Executors, Sorts
  <2> QED
    BY <2>5, <2>6
<1> QED
  BY <1>1, Invariant, PTL

(* A run reads its own writes: its question is the last of its messages in the mailbox of the   *)
(* entity, and no call of it is under way that could still write.                                *)
THEOREM OwnWritesSeenInvariant == Spec => []OwnWritesSeen
<1>1. ASSUME Inv PROVE OwnWritesSeen
  <2>1. Boxes /\ Sequence(calls) /\ Asking /\ Calling
    BY <1>1 DEF Inv, Mail
  <2>2. DOMAIN calls = 1..Callers
    <3>1. PICK S : calls \in Seq(S)
      BY <2>1 DEF Sequence
    <3> QED
      BY <3>1 DEF Callers
  <2>3. ASSUME NEW e \in Entities PROVE DOMAIN mailbox[e] = 1..Size(e)
    <3>1. PICK S : mailbox[e] \in Seq(S)
      BY <2>1 DEF Boxes, Sequence
    <3> QED
      BY <3>1 DEF Size
  <2>4. ASSUME NEW e \in Entities, NEW i \in DOMAIN mailbox[e], mailbox[e][i].type = "get"
        PROVE  /\ \A j \in (i + 1)..Len(mailbox[e]) : mailbox[e][j].by # mailbox[e][i].by
               /\ \A k \in DOMAIN calls : calls[k].by # mailbox[e][i].by
    <3>1. i \in 1..Size(e) /\ Question(e, i)
      BY <2>3, <2>4 DEF Question
    <3>2. \A j \in (i + 1)..Size(e) : Sender(e, j) # Sender(e, i)
      BY <2>1, <3>1 DEF Asking
    <3>3. \A k \in 1..Callers : Caller(k) # Sender(e, i)
      BY <2>1, <3>1 DEF Asking, Calling
    <3> QED
      BY <2>2, <3>2, <3>3 DEF Size, Sender, Caller
  <2> QED
    BY <2>4 DEF OwnWritesSeen
<1> QED
  BY <1>1, Invariant, PTL

-----------------------------------------------------------------------------
(* The ledger                                                                                    *)

(* Runs that are the same by position are the same sequence.                                    *)
LEMMA SameLedger == ASSUME EngineTypes, EngineTypes', SameRuns PROVE runs' = runs
<1>1. runs \in Seq(Runs) /\ runs' \in Seq(Runs) /\ Len(runs') = Len(runs)
  BY DEF EngineTypes, SameRuns, Count
<1>2. ASSUME NEW q \in 1..Len(runs) PROVE runs'[q] = runs[q]
  <2>1. runs[q] \in Runs /\ runs'[q] \in Runs
    BY <1>1
  <2>2. runs'[q].wf = runs[q].wf /\ runs'[q].status = runs[q].status
    BY DEF SameRuns, Count, WfOf, Status
  <2> QED
    BY <2>1, <2>2 DEF Runs
<1> QED
  BY <1>1, <1>2

(* A status that changes by position is the status of one entry.                                *)
LEMMA SetLedger ==
    ASSUME EngineTypes, EngineTypes', NEW r \in 1..Count, NEW s \in Statuses, Sets(r, s)
    PROVE  runs' = [runs EXCEPT ![r].status = s]
<1> DEFINE new == [runs EXCEPT ![r].status = s]
<1>1. runs \in Seq(Runs) /\ runs' \in Seq(Runs) /\ Len(runs') = Len(runs) /\ runs[r] \in Runs
  BY DEF EngineTypes, Sets, Count
<1>2. [runs[r] EXCEPT !.status = s] \in Runs
  BY <1>1 DEF Runs
<1>3. new = [runs EXCEPT ![r] = [runs[r] EXCEPT !.status = s]]
  OBVIOUS
<1>4. new \in Seq(Runs) /\ Len(new) = Len(runs)
  BY <1>1, <1>2, <1>3 DEF Count
<1>5. ASSUME NEW q \in 1..Len(runs) PROVE runs'[q] = new[q]
  <2>1. runs[q] \in Runs /\ runs'[q] \in Runs
    BY <1>1
  <2>2. runs'[q].wf = runs[q].wf /\ runs'[q].status = IF q = r THEN s ELSE runs[q].status
    BY DEF Sets, Count, WfOf, Status
  <2>3. new[q] = IF q = r THEN [runs[r] EXCEPT !.status = s] ELSE runs[q]
    BY <1>1, <1>3 DEF Count
  <2> QED
    BY <2>1, <2>2, <2>3 DEF Runs
<1> QED
  BY <1>1, <1>4, <1>5

(* A run that is added by position is appended.                                                 *)
LEMMA AddLedger ==
    ASSUME EngineTypes, EngineTypes', NEW w \in Workflows, NEW s \in Statuses, Adds(w, s)
    PROVE  runs' = Append(runs, [wf |-> w, status |-> s])
<1> DEFINE entry == [wf |-> w, status |-> s]
           new == Append(runs, entry)
<1>1. runs \in Seq(Runs) /\ runs' \in Seq(Runs) /\ Len(runs') = Len(runs) + 1 /\ entry \in Runs
  BY DEF EngineTypes, Adds, Count, Runs
<1>2. new \in Seq(Runs) /\ Len(new) = Len(runs) + 1 /\ Len(runs) \in Nat
  BY <1>1
<1>3. ASSUME NEW q \in 1..(Len(runs) + 1) PROVE runs'[q] = new[q]
  <2>1. runs'[q] \in Runs /\ new[q] = IF q = Len(runs) + 1 THEN entry ELSE runs[q]
    BY <1>1
  <2>2. /\ runs'[q].wf = IF q = Len(runs) + 1 THEN w ELSE runs[q].wf
        /\ runs'[q].status = IF q = Len(runs) + 1 THEN s ELSE runs[q].status
    BY DEF Adds, Count, WfOf, Status
  <2>3. q # Len(runs) + 1 => runs[q] \in Runs
    BY <1>1
  <2> QED
    BY <2>1, <2>2, <2>3 DEF Runs
<1> QED
  BY <1>1, <1>2, <1>3

(* A run is settled that was running, for a workflow that is defined.                           *)
LEMMA SettledStep ==
    ASSUME Engine, EngineTypes', NEW r \in 1..Count, Status(r) = "running", Open, SameOpen,
           SameWorkflows, NEW s \in {"completed", "failed"}, Sets(r, s)
    PROVE  Ledger!Next
<1>1. EngineTypes /\ r \in DOMAIN runs /\ s \in Statuses
  BY DEF Engine, EngineTypes, Count, Statuses
<1>2. runs' = [runs EXCEPT ![r].status = s]
  BY <1>1, SetLedger
<1>3. up /\ up' = up
  BY DEF Open, SameOpen, Engine, EngineTypes
<1>4. runs[r].status = "running" /\ runs[r].wf \in workflows
  BY DEF Engine, Deleted, WfOf, Status
<1>5. Ledger!Settle(r)
  BY <1>2, <1>4 DEF Ledger!Settle, Ledger!Over, SameWorkflows
<1> QED
  BY <1>1, <1>3, <1>5 DEF Ledger!Next

(* A run is entered for a workflow that is defined.                                             *)
LEMMA EnteredStep ==
    ASSUME Engine, EngineTypes', NEW w \in Workflows, w \in workflows, Open, SameOpen,
           SameWorkflows, NEW s \in {"running", "failed"}, Adds(w, s)
    PROVE  Ledger!Next
<1>1. EngineTypes /\ s \in Statuses
  BY DEF Engine, Statuses
<1>2. runs' = Append(runs, [wf |-> w, status |-> s])
  BY <1>1, AddLedger
<1>3. up /\ up' = up
  BY DEF Open, SameOpen, Engine, EngineTypes
<1>4. Ledger!Enter(w)
  BY <1>2 DEF Ledger!Enter, SameWorkflows
<1> QED
  BY <1>3, <1>4 DEF Ledger!Next

(* Every effect is a step of the ledger or leaves it alone.                                     *)
LEMMA LedgerStep ==
    ASSUME Engine, Effect, EngineTypes'
    PROVE  [Ledger!Next]_(Ledger!vars)
<1>1. Sorts /\ EngineTypes /\ DOMAIN runs = 1..Count
  BY SortsHold DEF Engine, EngineTypes, Count
<1>2. ASSUME SameRuns, SameOpen PROVE runs' = runs /\ up' = up
  BY <1>1, <1>2, SameLedger DEF SameOpen, Open, EngineTypes
<1>3. ASSUME SameRuns, SameOpen, SameWorkflows PROVE UNCHANGED Ledger!vars
  BY <1>2, <1>3 DEF Ledger!vars, SameWorkflows
<1>4. ASSUME NEW w \in Workflows, Created(w) PROVE Ledger!Next
  BY <1>2, <1>4 DEF Created, Ledger!Next, Ledger!Define, Open
<1>5. ASSUME NEW w \in Workflows, DeletedNow(w) PROVE Ledger!Next
  <2>1. \A r \in DOMAIN runs : runs[r].wf = w => runs[r].status \in {"completed", "failed"}
    <3>1. \A r \in 1..Count : runs[r] \in Runs
      BY <1>1 DEF EngineTypes, Count
    <3> QED
      BY <1>1, <1>5, <3>1 DEF DeletedNow, WfOf, Status, Runs, Statuses
  <2> QED
    BY <1>2, <1>5, <2>1 DEF DeletedNow, Ledger!Next, Ledger!Forget, Ledger!Over, Open
<1>6. ASSUME NEW w \in Workflows, Launched(w) PROVE Ledger!Next
  BY <1>6, EnteredStep DEF Launched
<1>7. ASSUME NEW w \in Workflows, Refused(w) PROVE Ledger!Next
  BY <1>7, EnteredStep DEF Refused
<1>8. ASSUME NEW w \in Workflows, GivenUp(w) PROVE Ledger!Next
  <2>1. KeptRun(w) \in 1..Count /\ Status(KeptRun(w)) = "running"
    BY <1>8 DEF GivenUp, Engine, Kept
  <2> QED
    BY <1>8, <2>1, SettledStep DEF GivenUp
<1>9. ASSUME NEW r \in RunIds, Closed(r) PROVE Ledger!Next
  <2>1. r # NoRun /\ Open /\ r \in 1..Count /\ Status(r) = "running"
    BY <1>1, <1>9 DEF Closed, Engine, Busy, Executors, Sorts
  <2> QED
    BY <1>9, <2>1, SettledStep DEF Closed
<1>10. ASSUME NEW r \in RunIds, NEW ok \in BOOLEAN, Learned(r, ok) PROVE Ledger!Next
  <2>1. r \in 1..Count /\ Status(r) = "running"
    BY <1>10 DEF Learned, Engine, Reported
  <2> QED
    BY <1>10, <2>1, SettledStep DEF Learned
<1>11. CASE Stopped
  <2>1. runs' = runs /\ up /\ up' = FALSE
    BY <1>1, <1>11, SameLedger DEF Stopped, Open, EngineTypes
  <2> QED
    BY <1>11, <2>1 DEF Stopped, SameWorkflows, Ledger!Next, Ledger!Close
<1>12. CASE GoOn \/ \E w \in Workflows : Taken(w)
  BY <1>3, <1>12 DEF GoOn, Taken
<1>13. CASE \E r \in RunIds : Stored(r) \/ \E ok \in BOOLEAN : TaskEnds(r, ok)
  BY <1>3, <1>13 DEF Stored, TaskEnds
<1> QED
  BY <1>4, <1>5, <1>6, <1>7, <1>8, <1>9, <1>10, <1>11, <1>12, <1>13 DEF Effect

(* What a client polls is a ledger: entries are settled once, for workflows that exist, and no  *)
(* task, late report or abandoned answer writes to it after the engine stopped.                  *)
THEOREM LedgerRefinement == Spec => KeepsLedger
<1>1. Init => Ledger!Init
  BY DEF Init, Ledger!Init
<1>2. Inv /\ [Next]_vars => [Ledger!Next]_(Ledger!vars)
  BY NextEffect, LedgerStep DEF Inv, Preserved
<1> QED
  BY <1>1, <1>2, Invariant, PTL DEF Spec, KeepsLedger, Ledger!Spec

-----------------------------------------------------------------------------
(* Machines and values                                                                           *)

\* A machine that is kept, or that the handler is moving, is in a state its definition has, although
\* nobody checks the names the transitions give: dispatch never fails with "current state not found
\* in definition", and DispatchEvent needs no such case.
MachinesPlaced ==
    /\ \A w \in Workflows : rtc_runs[w] # NoHandle => StateNamed(w, rtc_runs[w].state) # {}
    /\ busy # NoRun => StateNamed(runs[busy].wf, target) # {}

\* Steps that are left to execute, as DefinitionsAssumption has them.
Typed(steps) == \E S : steps \in Seq(S) /\ \A s \in S : StepTyped(s)

Machines ==
    /\ rtc_runs \in [Workflows -> [run : Nat, state : StateNames]]
    /\ op \in {"run", "dispatch"} /\ target \in StateNames
    /\ MachinesPlaced

\* What a mailbox may hold for the state of the entity.
MessageTyped(m) ==
    /\ m.type = "set" => m.val \in Values
    /\ m.type = "command" => m.val \in {"on", "off", "toggle"}

\* A run that waits for an answer is at the step it asked for.
Work ==
    /\ left = [r \in RunIds |-> left[r]]
    /\ \A r \in RunIds : Typed(left[r]) /\ (at[r] \in {"asked", "calling"} => left[r] # <<>>)

CallsTyped == \A k \in 1..Len(calls) : calls[k].step.val \in {"on", "off", "toggle", "none"}

MailTyped == \A e \in Entities : \A i \in 1..Len(mailbox[e]) : MessageTyped(mailbox[e][i])

WorldTyped ==
    /\ registered \subseteq Entities /\ reports \subseteq RunIds \X BOOLEAN
    /\ state \in [Entities -> Values]

MachineInv == Inv /\ Machines /\ Work /\ CallsTyped /\ MailTyped /\ WorldTyped

(* A nonempty set of numbers has a least one.                                                    *)
LEMMA LeastNumber ==
    ASSUME NEW T, T \subseteq Nat, T # {}
    PROVE  Min(T) \in T
<1>1. IsWellFoundedOn(OpToRel(<, Nat), Nat)
  BY NatLessThanWellFounded
<1>2. PICK m \in T : \A n \in T : ~(<<n, m>> \in OpToRel(<, Nat))
  BY <1>1, WFMin
<1>3. ASSUME NEW n \in T PROVE m <= n
  <2>1. n \in Nat /\ m \in Nat
    OBVIOUS
  <2>2. ~(n < m)
    BY <1>2, <2>1 DEF OpToRel
  <2> QED
    BY <2>1, <2>2
<1> QED
  BY <1>3 DEF Min

(* The transition that matches is one of the state's.                                            *)
LEMMA MatchingFacts ==
    ASSUME NEW s, NEW event, s.transitions \in Seq(Range(s.transitions)), Matching(s, event) # 0
    PROVE  s.transitions[Matching(s, event)] \in Range(s.transitions)
<1> DEFINE I == {i \in 1..Len(s.transitions) :
                    s.transitions[i].event = event /\ s.transitions[i].guard # "false"}
<1>1. Matching(s, event) = IF I # {} THEN Min(I) ELSE 0
  BY DEF Matching, SelectInSeq
<1>2. I \subseteq Nat /\ I \subseteq DOMAIN s.transitions
  OBVIOUS
<1> HIDE DEF I
<1>3. Matching(s, event) \in I
  BY <1>1, <1>2, LeastNumber
<1> QED
  BY <1>2, <1>3 DEF Range

(* Steps of a definition are typed.                                                              *)
LEMMA DefinedTyped == ASSUME NEW steps, StepsTyped(steps) PROVE Typed(steps)
BY DEF StepsTyped, Typed

(* So are steps one after the other, and what is left after the first.                           *)
LEMMA JoinedTyped ==
    ASSUME NEW p, NEW q, Typed(p), Typed(q)
    PROVE  Typed(p \o q)
<1>1. PICK S : p \in Seq(S) /\ \A s \in S : StepTyped(s)
  BY DEF Typed
<1>2. PICK T : q \in Seq(T) /\ \A s \in T : StepTyped(s)
  BY DEF Typed
<1>3. p \in Seq(S \cup T) /\ q \in Seq(S \cup T)
  BY <1>1, <1>2
<1>4. p \o q \in Seq(S \cup T)
  BY <1>3
<1> QED
  BY <1>1, <1>2, <1>4 DEF Typed

LEMMA TailTyped ==
    ASSUME NEW p, Typed(p), p # <<>>
    PROVE  Typed(Tail(p)) /\ StepTyped(Head(p))
<1>1. PICK S : p \in Seq(S) /\ \A s \in S : StepTyped(s)
  BY DEF Typed
<1>2. Tail(p) \in Seq(S) /\ Head(p) \in S
  BY <1>1
<1> QED
  BY <1>1, <1>2 DEF Typed

(* A workflow without a machine has a handle of the type.                                        *)
LEMMA NoHandleTyped == NoHandle \in [run : Nat, state : StateNames]
<1>1. NoHandle.state \in StateNames
  BY DEF StateNames
<1>2. NoHandle.state = ""
  BY DEF NoHandle
<1> QED
  BY <1>1, <1>2 DEF NoHandle, NoRun

(* A state of a machine, by its name.                                                            *)
LEMMA NamedFacts ==
    ASSUME NEW w \in Workflows, Modes[w] = "rtc", NEW name, NEW s \in StateNamed(w, name)
    PROVE  /\ name \in StateNames /\ StepsTyped(s.entry) /\ StepsTyped(s.exit)
           /\ s.transitions \in Seq(Range(s.transitions))
           /\ \A t \in Range(s.transitions) : StepsTyped(t.actions)
<1>1. s \in Range(Definition[w].states) /\ s \in Range(StatesOf(w)) /\ s.name = name
  BY DEF StateNamed, StatesOf, Range
<1>2. name \in StateNames
  BY <1>1 DEF StateNames
<1> QED
  BY <1>1, <1>2, DefinitionsAssumption

(* A machine with states has one of the name of the first.                                       *)
LEMMA FirstFacts ==
    ASSUME NEW w \in Workflows, Modes[w] = "rtc", StatesOf(w) # <<>>
    PROVE  StatesOf(w)[1] \in StateNamed(w, StatesOf(w)[1].name)
<1>1. 1 \in DOMAIN StatesOf(w)
  BY DefinitionsAssumption DEF StatesOf
<1>2. 1..(1 - 1) = {}
  OBVIOUS
<1> QED
  BY <1>1, <1>2 DEF StateNamed

(* What a step leaves alone of the machines.                                                     *)
LEMMA MachinesSame ==
    ASSUME Machines, UNCHANGED <<rtc_runs, op, target, busy>>, runs' = runs \/ busy = NoRun
    PROVE  Machines'
BY DEF Machines, MachinesPlaced

(* A machine that moved is kept in the state it entered.                                         *)
LEMMA EndsMachines ==
    ASSUME MachineInv, NEW r \in RunIds, NEW ok, Ends(r, ok)
    PROVE  Machines'
<1>1. Engine /\ Machines /\ EngineTypes /\ op' = op /\ target' = target
  BY DEF MachineInv, Inv, Engine, Ends
<1>2. CASE busy # r
  <2>1. UNCHANGED <<runs, rtc_runs, busy>>
    BY <1>2 DEF Ends
  <2> QED
    BY <1>1, <2>1, MachinesSame
<1>3. CASE busy = r
  <2>1. r # NoRun /\ r \in 1..Count /\ r \in Nat
    BY <1>1, <1>3 DEF Engine, Busy, RunIds, NoRun
  <2>2. PICK w : w = runs[r].wf
    OBVIOUS
  <2>3. w \in Workflows /\ StateNamed(w, target) # {}
    BY <1>1, <1>3, <2>1, <2>2, SortsHold DEF Sorts, WfOf, Machines, MachinesPlaced
  <2>4. busy' = NoRun /\ (rtc_runs' = rtc_runs
                            \/ rtc_runs' = [rtc_runs EXCEPT ![w] = [run |-> r, state |-> target]])
    BY <1>3, <2>2 DEF Ends, HandlerEnds
  <2>5. rtc_runs' \in [Workflows -> [run : Nat, state : StateNames]]
    BY <1>1, <2>1, <2>3, <2>4 DEF Machines
  <2>6. ASSUME NEW v \in Workflows, rtc_runs'[v] # NoHandle
        PROVE  StateNamed(v, rtc_runs'[v].state) # {}
    <3>1. \/ rtc_runs'[v] = rtc_runs[v]
          \/ v = w /\ rtc_runs'[v] = [run |-> r, state |-> target]
      BY <1>1, <2>3, <2>4 DEF Machines
    <3> QED
      BY <1>1, <2>3, <2>6, <3>1 DEF Machines, MachinesPlaced
  <2> QED
    BY <1>1, <2>4, <2>5, <2>6 DEF Machines, MachinesPlaced
<1> QED
  BY <1>2, <1>3

(* A machine starts in the first state of its definition.                                        *)
LEMMA RunMachines ==
    ASSUME MachineInv, NEW w \in Workflows, RunStateMachine(w)
    PROVE  Machines'
<1>1. Engine /\ Machines /\ EngineTypes /\ rtc_runs' = rtc_runs /\ busy = NoRun /\ Modes[w] = "rtc"
  BY DEF MachineInv, Inv, Engine, RunStateMachine, Ready
<1>2. CASE StatesOf(w) = <<>>
  BY <1>1, <1>2, MachinesSame DEF RunStateMachine
<1>3. CASE StatesOf(w) # <<>>
  <2>1. /\ runs' = Append(runs, [wf |-> w, status |-> "running"])
        /\ busy' = Len(runs) + 1 /\ op' = "run" /\ target' = StatesOf(w)[1].name
    BY <1>3 DEF RunStateMachine
  <2>2. runs'[busy'].wf = w
    BY <1>1, <2>1 DEF EngineTypes
  <2>3. StatesOf(w)[1] \in StateNamed(w, target') /\ target' \in StateNames
    BY <1>1, <1>3, <2>1, FirstFacts, NamedFacts
  <2> QED
    BY <1>1, <2>1, <2>2, <2>3 DEF Machines, MachinesPlaced
<1> QED
  BY <1>2, <1>3

(* The state a machine is in, the transition it takes and the state it enters.                   *)
LEMMA DispatchFacts ==
    ASSUME MachineInv, NEW w \in Workflows, NEW event, DispatchEvent(w, event)
    PROVE  /\ Machines'
           /\ \/ UNCHANGED execVars
              \/ \E r \in RunIds : \E steps : Typed(steps) /\ Starts(r, steps)
<1> DEFINE h == rtc_runs[w]
           s == CHOOSE x \in StateNamed(w, h.state) : TRUE
           i == Matching(s, event)
           t == s.transitions[i]
           next == StateNamed(w, t.target)
           e == CHOOSE x \in next : TRUE
<1>1. Engine /\ Machines /\ EngineTypes /\ busy = NoRun /\ h # NoHandle
  BY DEF MachineInv, Inv, Engine, DispatchEvent, Ready
<1>2. h.run \in 1..Count /\ runs[h.run].wf = w /\ Modes[w] = "rtc" /\ h.run \in RunIds
  <2>1. h.run # NoRun
    BY <1>1 DEF EngineTypes
  <2>2. h.run \in 1..Count /\ runs[h.run].wf = w /\ Modes[w] = "rtc"
    BY <1>1, <2>1 DEF Engine, Kept, KeptRun, WfOf
  <2> QED
    BY <1>1, <2>2, SortsHold DEF Sorts, RunIds
<1>3. s \in StateNamed(w, h.state)
  BY <1>1 DEF Machines, MachinesPlaced
<1>4. ASSUME NEW v \in Workflows, rtc_runs' = [rtc_runs EXCEPT ![w] = NoHandle],
             rtc_runs'[v] # NoHandle
      PROVE  rtc_runs'[v] = rtc_runs[v]
  BY <1>1, <1>4 DEF Machines
<1>5. ASSUME rtc_runs' = [rtc_runs EXCEPT ![w] = NoHandle]
      PROVE  /\ rtc_runs' \in [Workflows -> [run : Nat, state : StateNames]]
             /\ \A v \in Workflows :
                    rtc_runs'[v] # NoHandle => StateNamed(v, rtc_runs'[v].state) # {}
  <2>1. NoHandle \in [run : Nat, state : StateNames]
    BY NoHandleTyped
  <2>2. rtc_runs \in [Workflows -> [run : Nat, state : StateNames]]
    BY <1>1 DEF Machines
  <2> HIDE DEF h, s, i, t, next, e
  <2>3. rtc_runs' \in [Workflows -> [run : Nat, state : StateNames]]
    BY <1>5, <2>1, <2>2
  <2> QED
    BY <1>1, <1>4, <1>5, <2>3 DEF Machines, MachinesPlaced
<1>6. rtc_runs' = [rtc_runs EXCEPT ![w] = NoHandle]
  BY DEF DispatchEvent
<1>7. CASE UNCHANGED <<busy, op, target, execVars>>
  BY <1>1, <1>5, <1>6, <1>7 DEF Machines, MachinesPlaced
<1>8. CASE ~UNCHANGED <<busy, op, target, execVars>>
  <2>1. /\ i # 0 /\ next # {} /\ busy' = h.run /\ op' = "dispatch" /\ target' = t.target
        /\ Starts(h.run, s.exit \o t.actions \o e.entry) /\ UNCHANGED runs
    BY <1>8 DEF DispatchEvent
  <2>2. StepsTyped(s.exit) /\ t \in Range(s.transitions) /\ StepsTyped(t.actions)
    BY <1>2, <1>3, <2>1, NamedFacts, MatchingFacts
  <2>3. e \in StateNamed(w, t.target)
    BY <2>1
  <2>4. t.target \in StateNames /\ StepsTyped(e.entry)
    BY <1>2, <2>3, NamedFacts
  <2> HIDE DEF h, s, i, t, next, e
  <2>5. Typed(s.exit \o t.actions \o e.entry)
    <3>1. Typed(s.exit) /\ Typed(t.actions) /\ Typed(e.entry)
      BY <2>2, <2>4, DefinedTyped
    <3>2. Typed(s.exit \o t.actions)
      BY <3>1, JoinedTyped
    <3> QED
      BY <3>1, <3>2, JoinedTyped
  <2>6. StateNamed(runs'[busy'].wf, target') # {}
    BY <1>2, <2>1 DEF next
  <2>7. Machines'
    BY <1>5, <1>6, <2>1, <2>4, <2>6 DEF Machines, MachinesPlaced
  <2> QED
    BY <1>2, <2>1, <2>5, <2>7
<1> QED
  BY <1>7, <1>8

(* How an executor leaves its step: it goes on, fails, or waits for an answer.                   *)
LEMMA WorkSame ==
    ASSUME MachineInv, left' = left,
           \A r \in RunIds : at'[r] \in {"asked", "calling"} =>
                                 at[r] \in {"asked", "calling"} \/ left[r] # <<>>
    PROVE  Work'
BY DEF MachineInv, Work

LEMMA WorkStarts ==
    ASSUME MachineInv, NEW r \in RunIds, NEW steps, Typed(steps), Starts(r, steps)
    PROVE  Work'
<1>1. Work /\ at \in [RunIds -> AtStates]
  BY DEF MachineInv, Inv, Engine, EngineTypes
<1>2. ASSUME NEW q \in RunIds
      PROVE  /\ left'[q] = IF q = r THEN steps ELSE left[q]
             /\ at'[q] = IF q = r THEN "ready" ELSE at[q]
  BY <1>1 DEF Work, Starts
<1>3. left' = [q \in RunIds |-> left'[q]]
  BY <1>1 DEF Work, Starts
<1> QED
  BY <1>1, <1>2, <1>3 DEF Work

LEMMA WorkGoesOn ==
    ASSUME MachineInv, NEW r \in RunIds, left[r] # <<>>, GoesOn(r)
    PROVE  Work' /\ Machines' /\ reports' = reports
<1>1. Work /\ Machines
  BY DEF MachineInv
<1>2. Typed(Tail(left[r]))
  BY <1>1, TailTyped DEF Work
<1>3. left' = [left EXCEPT ![r] = Tail(left[r])] /\ at' = [at EXCEPT ![r] = "ready"]
  BY DEF GoesOn
<1>4. Work'
  BY <1>2, <1>3, WorkStarts DEF Starts
<1>5. UNCHANGED <<runs, rtc_runs, busy, op, target, reports>>
  BY DEF GoesOn, engineVars
<1> QED
  BY <1>1, <1>4, <1>5, MachinesSame

LEMMA WorkEnds ==
    ASSUME MachineInv, NEW r \in RunIds, NEW ok \in BOOLEAN, Ends(r, ok), left' = left
    PROVE  Work' /\ Machines' /\ reports' \subseteq RunIds \X BOOLEAN
<1>1. at \in [RunIds -> AtStates] /\ at' = [at EXCEPT ![r] = "done"]
  BY DEF MachineInv, Inv, Engine, EngineTypes, Ends
<1>2. Work'
  BY <1>1, WorkSame
<1>3. reports' = reports \/ reports' = reports \cup {<<r, ok>>}
  BY DEF Ends
<1> QED
  BY <1>2, <1>3, EndsMachines DEF MachineInv, WorldTyped

(* What a mailbox holds stays typed: untouched, longer, shorter, emptied.                        *)
LEMMA MailSame == ASSUME MachineInv, mailbox' = mailbox PROVE MailTyped'
BY DEF MachineInv, MailTyped

LEMMA MailLonger ==
    ASSUME NEW p, NEW m, Sequence(p), \A i \in 1..Len(p) : MessageTyped(p[i]), MessageTyped(m)
    PROVE  \A i \in 1..Len(Append(p, m)) : MessageTyped(Append(p, m)[i])
<1>1. PICK q : q = Append(p, m)
  OBVIOUS
<1>2. /\ Len(p) \in Nat /\ Len(q) = Len(p) + 1 /\ q[Len(p) + 1] = m
      /\ \A i \in 1..Len(p) : q[i] = p[i]
  BY <1>1, AppendFacts
<1>3. ASSUME NEW i \in 1..Len(q) PROVE MessageTyped(q[i])
  <2>1. i \in 1..Len(p) \/ i = Len(p) + 1
    BY <1>2
  <2> QED
    BY <1>2, <2>1
<1> QED
  BY <1>1, <1>3

LEMMA MailSet ==
    ASSUME MachineInv, NEW e \in Entities, NEW p, mailbox' = [mailbox EXCEPT ![e] = p],
           \A i \in 1..Len(p) : MessageTyped(p[i])
    PROVE  MailTyped'
<1>1. Boxes /\ MailTyped
  BY DEF MachineInv, Inv, Mail
<1>2. \A f \in Entities : mailbox'[f] = IF f = e THEN p ELSE mailbox[f]
  BY <1>1 DEF Boxes
<1>3. ASSUME NEW f \in Entities PROVE \A i \in 1..Len(mailbox'[f]) : MessageTyped(mailbox'[f][i])
  <2>1. CASE f = e
    BY <1>2, <2>1
  <2>2. CASE f # e
    <3>1. mailbox'[f] = mailbox[f]
      BY <1>2, <2>2
    <3> QED
      BY <1>1, <3>1 DEF MailTyped
  <2> QED
    BY <2>1, <2>2
<1> QED
  BY <1>3 DEF MailTyped, MessageTyped

LEMMA MailSent ==
    ASSUME MachineInv, NEW e \in Entities, NEW m, MessageTyped(m), Sent(e, m)
    PROVE  MailTyped'
<1>1. Sequence(mailbox[e]) /\ \A i \in 1..Len(mailbox[e]) : MessageTyped(mailbox[e][i])
  BY DEF MachineInv, Inv, Mail, Boxes, MailTyped
<1>2. PICK p : p = mailbox[e]
  OBVIOUS
<1>3. PICK q : q = Append(p, m)
  OBVIOUS
<1>4. \A i \in 1..Len(q) : MessageTyped(q[i])
  BY <1>1, <1>2, <1>3, MailLonger
<1>5. mailbox' = [mailbox EXCEPT ![e] = q]
  BY <1>2, <1>3 DEF Sent
<1> QED
  BY <1>4, <1>5, MailSet

LEMMA MailTaken ==
    ASSUME MachineInv, NEW e \in Entities, mailbox[e] # <<>>,
           mailbox' = [mailbox EXCEPT ![e] = Tail(@)]
    PROVE  MailTyped' /\ MessageTyped(Head(mailbox[e]))
<1>1. Sequence(mailbox[e]) /\ \A i \in 1..Len(mailbox[e]) : MessageTyped(mailbox[e][i])
  BY DEF MachineInv, Inv, Mail, Boxes, MailTyped
<1>2. PICK p : p = mailbox[e]
  OBVIOUS
<1>3. PICK q : q = Tail(p)
  OBVIOUS
<1>4. /\ Len(p) \in Nat \ {0} /\ Len(q) = Len(p) - 1 /\ Head(p) = p[1]
      /\ \A i \in 1..(Len(p) - 1) : q[i] = p[i + 1]
  BY <1>1, <1>2, <1>3, TailFacts
<1>5. ASSUME NEW i \in 1..Len(q) PROVE MessageTyped(q[i])
  <2>1. i + 1 \in 1..Len(p) /\ q[i] = p[i + 1]
    BY <1>4
  <2> QED
    BY <1>1, <1>2, <2>1
<1>6. mailbox' = [mailbox EXCEPT ![e] = q]
  BY <1>2, <1>3
<1>7. MessageTyped(Head(p))
  BY <1>1, <1>2, <1>4
<1> QED
  BY <1>2, <1>5, <1>6, <1>7, MailSet

(* What a step has to keep.                                                                      *)
Stays == Machines' /\ Work' /\ CallsTyped' /\ MailTyped' /\ WorldTyped'

(* A step that leaves the world alone.                                                           *)
LEMMA WorldSame ==
    ASSUME MachineInv, UNCHANGED <<calls, mailbox, registered, state>>,
           reports' \subseteq RunIds \X BOOLEAN, Machines', Work'
    PROVE  Stays
<1>1. CallsTyped' /\ MailTyped' /\ WorldTyped'
  BY MailSame DEF MachineInv, CallsTyped, WorldTyped
<1> QED
  BY <1>1 DEF Stays

(* The handlers of the engine.                                                                   *)
LEMMA HandlersStay == ASSUME MachineInv, NEW w \in Workflows, Handlers(w) PROVE Stays
<1>1. /\ Engine /\ Machines /\ Work /\ WorldTyped /\ EngineTypes
      /\ UNCHANGED <<calls, mailbox, registered, state, reports>>
  BY DEF MachineInv, Inv, Engine, Handlers, Create, Delete, RunPipeline, RunStateMachine,
         DispatchEvent, worldVars
<1>2. reports' \subseteq RunIds \X BOOLEAN
  BY <1>1 DEF WorldTyped
<1>3. CASE Create(w) \/ Delete(w)
  <2>1. UNCHANGED <<runs, rtc_runs, op, target, busy, at, left>>
    BY <1>3 DEF Create, Delete, execVars
  <2>2. Machines' /\ Work'
    BY <1>1, <2>1, MachinesSame, WorkSame
  <2> QED
    BY <1>1, <1>2, <2>2, WorldSame
<1>4. Len(runs) < MaxRuns => Len(runs) + 1 \in RunIds
  BY <1>1, ConstantsAssumption DEF EngineTypes, RunIds
<1>5. CASE RunPipeline(w)
  <2>1. UNCHANGED <<rtc_runs, op, target, busy>> /\ busy = NoRun /\ Modes[w] = "pipeline"
    BY <1>5 DEF RunPipeline, Ready
  <2>2. Typed(Definition[w].steps)
    BY <2>1, DefinitionsAssumption, DefinedTyped
  <2>3. Work'
    BY <1>4, <1>5, <2>2, WorkStarts DEF RunPipeline
  <2> QED
    BY <1>1, <1>2, <2>1, <2>3, MachinesSame, WorldSame
<1>6. CASE RunStateMachine(w)
  <2>1. Machines' /\ Modes[w] = "rtc"
    BY <1>6, RunMachines DEF RunStateMachine
  <2>2. CASE StatesOf(w) = <<>>
    <3>1. UNCHANGED <<at, left>>
      BY <1>6, <2>2 DEF RunStateMachine, execVars
    <3> QED
      BY <1>1, <1>2, <2>1, <3>1, WorkSame, WorldSame
  <2>3. CASE StatesOf(w) # <<>>
    <3>1. StepsTyped(StatesOf(w)[1].entry)
      BY <2>1, <2>3, FirstFacts, NamedFacts
    <3>2. Len(runs) + 1 \in RunIds /\ Starts(Len(runs) + 1, StatesOf(w)[1].entry)
      BY <1>4, <1>6, <2>3 DEF RunStateMachine
    <3>3. Work'
      BY <3>1, <3>2, DefinedTyped, WorkStarts
    <3> QED
      BY <1>1, <1>2, <2>1, <3>3, WorldSame
  <2> QED
    BY <2>2, <2>3
<1>7. ASSUME NEW event \in Events, DispatchEvent(w, event) PROVE Stays
  <2>1. /\ Machines'
        /\ \/ UNCHANGED execVars
           \/ \E r \in RunIds : \E steps : Typed(steps) /\ Starts(r, steps)
    BY <1>7, DispatchFacts
  <2>2. CASE UNCHANGED execVars
    <3>1. UNCHANGED <<at, left>>
      BY <2>2 DEF execVars
    <3> QED
      BY <1>1, <1>2, <2>1, <3>1, WorkSame, WorldSame
  <2>3. ASSUME NEW r \in RunIds, NEW steps, Typed(steps), Starts(r, steps) PROVE Stays
    <3>1. Work'
      BY <2>3, WorkStarts
    <3> QED
      BY <1>1, <1>2, <2>1, <3>1, WorldSame
  <2> QED
    BY <2>1, <2>2, <2>3
<1> QED
  BY <1>3, <1>5, <1>6, <1>7 DEF Handlers

(* The report of a pipeline, and the end of the engine.                                          *)
LEMMA ReportsStay ==
    ASSUME MachineInv, Stop \/ \E r \in RunIds, ok \in BOOLEAN : RunCompleted(r, ok)
    PROVE  Stays
<1>1. /\ UNCHANGED <<calls, mailbox, registered, state, rtc_runs, op, target, busy, at, left>>
      /\ busy = NoRun /\ reports' \subseteq reports
  BY DEF Stop, RunCompleted, Ready, execVars, worldVars
<1>2. Machines' /\ Work' /\ reports' \subseteq RunIds \X BOOLEAN
  BY <1>1, MachinesSame, WorkSame DEF MachineInv, WorldTyped
<1> QED
  BY <1>1, <1>2, WorldSame

(* An executor that goes on, fails or ends.                                                      *)
LEMMA MovesStay ==
    ASSUME MachineInv, NEW r \in RunIds,
           (left[r] # <<>> /\ GoesOn(r)) \/ Fails(r) \/ (Ends(r, TRUE) /\ left' = left)
    PROVE  Work' /\ Machines' /\ reports' \subseteq RunIds \X BOOLEAN
<1>1. CASE left[r] # <<>> /\ GoesOn(r)
  BY <1>1, WorkGoesOn DEF MachineInv, WorldTyped
<1>2. CASE Fails(r)
  <2>1. Ends(r, FALSE) /\ left' = left
    BY <1>2 DEF Fails
  <2> QED
    BY <2>1, WorkEnds
<1>3. CASE Ends(r, TRUE) /\ left' = left
  BY <1>3, WorkEnds
<1> QED
  BY <1>1, <1>2, <1>3

(* The steps of executors. What they send is typed as the step is.                               *)
LEMMA ExecutorsStay == ASSUME MachineInv, NEW r \in RunIds, Step(r) \/ Dropped(r) PROVE Stays
<1> DEFINE s == Head(left[r])
           Message(type) == [type |-> type, by |-> r, val |-> s.val]
<1>1. /\ Machines /\ Work /\ CallsTyped /\ WorldTyped /\ Mail /\ at \in [RunIds -> AtStates]
      /\ alive \subseteq Entities /\ Sequence(calls)
  BY DEF MachineInv, Inv, Engine, EngineTypes, Mail
<1>2. left[r] # <<>> => StepTyped(s)
  BY <1>1, TailTyped DEF Work
<1>3. CASE Finish(r) \/ Literal(r) \/ Dropped(r)
  <2>1. UNCHANGED <<calls, mailbox, registered, state>>
    BY <1>3 DEF Finish, Literal, Dropped, worldVars
  <2>2. (left[r] # <<>> /\ GoesOn(r)) \/ Fails(r) \/ (Ends(r, TRUE) /\ left' = left)
    BY <1>3 DEF Finish, Literal, Dropped, AtStep
  <2> QED
    BY <2>1, <2>2, MovesStay, WorldSame
<1>4. CASE SetEntityState(r)
  <2>1. left[r] # <<>> /\ s.op = "set" /\ UNCHANGED <<calls, registered, state>>
    BY <1>4 DEF SetEntityState, AtStep
  <2>2. CASE Fails(r) /\ mailbox' = mailbox
    BY <2>1, <2>2, MovesStay, WorldSame
  <2>3. CASE /\ Reachable(s.entity) /\ s.val # "invalid" /\ Sent(s.entity, Message("set"))
             /\ GoesOn(r)
    <3>1. s.val \in Values
      BY <1>2, <2>1, <2>3 DEF StepTyped
    <3>2. MessageTyped(Message("set"))
      BY <3>1 DEF MessageTyped
    <3>3. s.entity \in Entities
      BY <1>1, <2>3 DEF Reachable
    <3>4. MailTyped'
      <4> HIDE DEF Message, s
      <4> QED
        BY <2>3, <3>2, <3>3, MailSent
    <3>5. Work' /\ Machines' /\ reports' \subseteq RunIds \X BOOLEAN
      BY <2>1, <2>3, MovesStay
    <3> QED
      BY <1>1, <2>1, <3>4, <3>5 DEF Stays, CallsTyped, WorldTyped
  <2> QED
    BY <1>4, <2>2, <2>3 DEF SetEntityState
<1>5. CASE eval_condition(r)
  <2>1. left[r] # <<>> /\ UNCHANGED <<calls, registered, state>>
    BY <1>5 DEF eval_condition, AtStep
  <2>2. CASE Fails(r) /\ mailbox' = mailbox
    BY <2>1, <2>2, MovesStay, WorldSame
  <2>3. CASE /\ Reachable(s.entity) /\ Sent(s.entity, Message("get"))
             /\ at' = [at EXCEPT ![r] = "asked"] /\ UNCHANGED <<engineVars, left, reports>>
    <3>1. MessageTyped(Message("get"))
      BY DEF MessageTyped
    <3>2. s.entity \in Entities
      BY <1>1, <2>3 DEF Reachable
    <3>3. MailTyped'
      <4> HIDE DEF Message, s
      <4> QED
        BY <2>3, <3>1, <3>2, MailSent
    <3>4. UNCHANGED <<runs, rtc_runs, op, target, busy, left, reports>>
      BY <2>3 DEF engineVars
    <3>5. \A q \in RunIds : at'[q] = IF q = r THEN "asked" ELSE at[q]
      BY <1>1, <2>3
    <3>6. Machines' /\ Work'
      BY <1>1, <2>1, <3>4, <3>5, MachinesSame, WorkSame
    <3> QED
      BY <1>1, <2>1, <3>3, <3>4, <3>6 DEF Stays, CallsTyped, WorldTyped
  <2> QED
    BY <1>5, <2>2, <2>3 DEF eval_condition
<1>6. CASE ServiceCall(r)
  <2>1. /\ left[r] # <<>> /\ s.op = "call" /\ UNCHANGED <<mailbox, registered, state>>
        /\ UNCHANGED <<runs, rtc_runs, op, target, busy, left, reports>>
        /\ calls' = Append(calls, [by |-> r, step |-> s]) /\ at' = [at EXCEPT ![r] = "calling"]
    BY <1>6 DEF ServiceCall, AtStep, worldVars, engineVars
  <2>2. \A q \in RunIds : at'[q] = IF q = r THEN "calling" ELSE at[q]
    BY <1>1, <2>1
  <2>3. Machines' /\ Work'
    BY <1>1, <2>1, <2>2, MachinesSame, WorkSame
  <2>4. s.val \in {"on", "off", "toggle", "none"}
    BY <1>2, <2>1 DEF StepTyped
  <2>5. PICK c : c = [by |-> r, step |-> s]
    OBVIOUS
  <2>6. c.step.val \in {"on", "off", "toggle", "none"} /\ calls' = Append(calls, c)
    BY <2>1, <2>4, <2>5
  <2>7. CallsTyped'
    <3>1. /\ Len(calls) \in Nat /\ Len(calls') = Len(calls) + 1 /\ calls'[Len(calls) + 1] = c
          /\ \A k \in 1..Len(calls) : calls'[k] = calls[k]
      BY <1>1, <2>6, AppendFacts
    <3>2. ASSUME NEW k \in 1..Len(calls')
          PROVE  calls'[k].step.val \in {"on", "off", "toggle", "none"}
      <4>1. k \in 1..Len(calls) \/ k = Len(calls) + 1
        BY <3>1
      <4> QED
        BY <1>1, <2>6, <3>1, <4>1 DEF CallsTyped
    <3> QED
      BY <3>2 DEF CallsTyped
  <2> QED
    BY <1>1, <2>1, <2>3, <2>7, MailSame DEF Stays, WorldTyped
<1> QED
  BY <1>3, <1>4, <1>5, <1>6 DEF Step

(* The service registry: a command reaches the targets that run.                                 *)
LEMMA CallStays == ASSUME MachineInv, Call PROVE Stays
<1>1. /\ Work /\ CallsTyped /\ MailTyped /\ WorldTyped /\ Boxes /\ Calling /\ Sequence(calls)
  BY DEF MachineInv, Inv, Mail
<1>2. calls # <<>> /\ calls' = Tail(calls) /\ UNCHANGED <<registered, state>>
  BY DEF Call
<1>3. /\ Len(calls) \in Nat \ {0} /\ Len(calls') = Len(calls) - 1 /\ Head(calls) = calls[1]
      /\ \A k \in 1..(Len(calls) - 1) : calls'[k] = calls[k + 1]
  BY <1>1, <1>2, TailFacts
<1>4. PICK r \in RunIds : r = Head(calls).by /\ at[r] = "calling"
  BY <1>1, <1>3 DEF Calling, Callers, Caller
<1>5. PICK s : s = Head(calls).step
  OBVIOUS
<1>6. s.val \in {"on", "off", "toggle", "none"}
  BY <1>1, <1>3, <1>5 DEF CallsTyped
<1>7. Work' /\ Machines' /\ reports' \subseteq RunIds \X BOOLEAN
  <2>1. GoesOn(r) \/ Fails(r)
    BY <1>4 DEF Call
  <2>2. left[r] # <<>>
    BY <1>1, <1>4 DEF Work
  <2> QED
    BY <2>1, <2>2, MovesStay
<1>8. CallsTyped'
  <2>1. ASSUME NEW k \in 1..Len(calls')
        PROVE  calls'[k].step.val \in {"on", "off", "toggle", "none"}
    <3>1. k + 1 \in 1..Len(calls) /\ calls'[k] = calls[k + 1]
      BY <1>3
    <3> QED
      BY <1>1, <3>1 DEF CallsTyped
  <2> QED
    BY <2>1 DEF CallsTyped
<1>9. PICK m : m = [type |-> "command", by |-> r, val |-> s.val]
  OBVIOUS
<1>10. s.val # "none" => MessageTyped(m)
  BY <1>6, <1>9 DEF MessageTyped
<1>11. ASSUME NEW e \in Entities
       PROVE  mailbox'[e] = mailbox[e] \/ (s.val # "none" /\ mailbox'[e] = Append(mailbox[e], m))
  BY <1>4, <1>5, <1>9 DEF Call
<1>12. MailTyped'
  <2>1. ASSUME NEW e \in Entities
        PROVE  \A i \in 1..Len(mailbox'[e]) : MessageTyped(mailbox'[e][i])
    <3>1. Sequence(mailbox[e]) /\ \A i \in 1..Len(mailbox[e]) : MessageTyped(mailbox[e][i])
      BY <1>1 DEF Boxes, MailTyped
    <3>2. CASE mailbox'[e] = mailbox[e]
      BY <3>1, <3>2
    <3>3. CASE s.val # "none" /\ mailbox'[e] = Append(mailbox[e], m)
      BY <1>10, <3>1, <3>3, MailLonger
    <3> QED
      BY <1>11, <3>2, <3>3
  <2> QED
    BY <2>1 DEF MailTyped, MessageTyped
<1> QED
  BY <1>1, <1>2, <1>7, <1>8, <1>12 DEF Stays, WorldTyped

(* The end of an entity actor: nobody waits any more, or asks.                                   *)
LEMMA EndedStays ==
    ASSUME MachineInv, NEW e \in Entities, Ended(e),
           UNCHANGED <<engineVars, left, reports, calls, state>>, registered' \subseteq registered
    PROVE  Stays
<1>1. Machines /\ CallsTyped /\ WorldTyped
  BY DEF MachineInv
<1>2. UNCHANGED <<runs, rtc_runs, op, target, busy>>
  BY DEF engineVars
<1>3. \A q \in RunIds : at'[q] = "lost" \/ at'[q] = at[q]
  BY DEF Ended
<1>4. Machines' /\ Work'
  BY <1>1, <1>2, <1>3, MachinesSame, WorkSame
<1>5. mailbox' = [mailbox EXCEPT ![e] = <<>>] /\ Len(<<>>) = 0
  BY EmptyFacts DEF Ended
<1>6. \A i \in 1..Len(<<>>) : MessageTyped(<<>>[i])
  BY <1>5
<1>7. MailTyped'
  BY <1>5, <1>6, MailSet
<1> QED
  BY <1>1, <1>4, <1>7 DEF Stays, CallsTyped, WorldTyped

(* The entity actors: what they are sent is a state they may have or a command they know.        *)
LEMMA EntitiesStay ==
    ASSUME MachineInv, NEW e \in Entities, EntityHandles(e) \/ EntityEnds(e) \/ RemoveEntity(e)
    PROVE  Stays
<1>1. /\ Machines /\ Work /\ CallsTyped /\ MailTyped /\ WorldTyped /\ Boxes /\ Asking
      /\ calls' = calls
  BY DEF MachineInv, Inv, Mail, EntityHandles, EntityEnds, RemoveEntity
<1>2. CASE EntityEnds(e)
  BY <1>2, EndedStays DEF EntityEnds
<1>3. CASE RemoveEntity(e)
  <2>1. /\ UNCHANGED <<runs, rtc_runs, op, target, busy, at, left, reports, state>>
        /\ registered' \subseteq registered
    BY <1>3 DEF RemoveEntity, engineVars, execVars
  <2>2. Machines' /\ Work'
    BY <1>1, <2>1, MachinesSame, WorkSame
  <2>3. PICK m : m = [type |-> "stop", by |-> NoRun, val |-> "none"]
    OBVIOUS
  <2>4. MessageTyped(m)
    BY <2>3 DEF MessageTyped
  <2>5. mailbox' = mailbox \/ Sent(e, m)
    BY <1>3, <2>3 DEF RemoveEntity
  <2>6. MailTyped'
    BY <2>4, <2>5, MailSame, MailSent
  <2> QED
    BY <1>1, <2>1, <2>2, <2>6 DEF Stays, CallsTyped, WorldTyped
<1>4. CASE EntityHandles(e)
  <2>1. mailbox[e] # <<>> /\ registered' = registered
    BY <1>4 DEF EntityHandles
  <2>2. PICK m : m = Head(mailbox[e])
    OBVIOUS
  <2>3. CASE m.type = "stop" /\ Ended(e) /\ UNCHANGED <<state, engineVars, left, reports>>
    BY <1>1, <2>1, <2>3, EndedStays
  <2>4. CASE /\ m.type \in {"set", "command"}
             /\ state' = [state EXCEPT ![e] =
                              IF m.type = "set" THEN m.val ELSE apply_command(@, m.val)]
             /\ mailbox' = [mailbox EXCEPT ![e] = Tail(@)]
             /\ UNCHANGED <<engineVars, execVars, reports>>
    <3>1. MailTyped' /\ MessageTyped(m)
      BY <2>1, <2>2, <2>4, MailTaken
    <3>2. PICK v : v = IF m.type = "set" THEN m.val ELSE apply_command(state[e], m.val)
      OBVIOUS
    <3>3. v \in Values
      BY <1>1, <2>4, <3>1, <3>2 DEF MessageTyped, apply_command, Values, WorldTyped
    <3>4. state' = [state EXCEPT ![e] = v]
      BY <2>4, <3>2
    <3>5. state' \in [Entities -> Values]
      BY <1>1, <3>3, <3>4 DEF WorldTyped
    <3>6. UNCHANGED <<runs, rtc_runs, op, target, busy, at, left, reports>>
      BY <2>4 DEF engineVars, execVars
    <3>7. Machines' /\ Work'
      BY <1>1, <3>6, MachinesSame, WorkSame
    <3> QED
      BY <1>1, <2>1, <3>1, <3>5, <3>6, <3>7 DEF Stays, CallsTyped, WorldTyped
  <2>5. CASE /\ m.type = "get" /\ (GoesOn(m.by) \/ Fails(m.by))
             /\ mailbox' = [mailbox EXCEPT ![e] = Tail(@)] /\ state' = state
    <3>1. MailTyped'
      BY <2>1, <2>5, MailTaken
    <3>2. m = mailbox[e][1] /\ 1 \in 1..Size(e)
      <4>1. Sequence(mailbox[e])
        BY <1>1 DEF Boxes
      <4> QED
        BY <2>1, <2>2, <4>1, TailFacts DEF Size
    <3>3. m.by \in RunIds /\ at[m.by] = "asked"
      BY <1>1, <2>5, <3>2 DEF Asking, Question, Sender
    <3>4. left[m.by] # <<>>
      BY <1>1, <3>3 DEF Work
    <3>5. Work' /\ Machines' /\ reports' \subseteq RunIds \X BOOLEAN
      BY <2>5, <3>3, <3>4, MovesStay
    <3> QED
      BY <1>1, <2>1, <2>5, <3>1, <3>5 DEF Stays, CallsTyped, WorldTyped
  <2> QED
    BY <1>4, <2>2, <2>3, <2>4, <2>5 DEF EntityHandles
<1> QED
  BY <1>2, <1>3, <1>4

(* The machines and values at the start.                                                         *)
LEMMA InitMachines == ASSUME Init PROVE MachineInv
<1>1. Inv
  BY InitInv
<1>2. Machines
  <2>1. /\ rtc_runs = [w \in Workflows |-> NoHandle]
        /\ op = "run" /\ target = NoHandle.state /\ busy = NoRun
    BY DEF Init, NoHandle
  <2>2. NoHandle \in [run : Nat, state : StateNames] /\ NoHandle.state \in StateNames
    BY NoHandleTyped DEF StateNames
  <2>3. \A w \in Workflows : rtc_runs[w] = NoHandle
    BY <2>1
  <2> HIDE DEF NoHandle
  <2> QED
    BY <2>1, <2>2, <2>3 DEF Machines, MachinesPlaced
<1>3. Typed(<<>>)
  <2> DEFINE none == <<>>
             S == {}
  <2>1. none \in Seq(S) /\ \A s \in S : StepTyped(s)
    OBVIOUS
  <2> HIDE DEF none, S
  <2>2. Typed(none)
    BY <2>1 DEF Typed
  <2> QED
    BY <2>2 DEF none
<1>4. Work
  <2>1. left = [r \in RunIds |-> <<>>] /\ at = [r \in RunIds |-> "idle"]
    BY DEF Init
  <2> QED
    BY <1>3, <2>1 DEF Work
<1>5. CallsTyped
  <2>1. Len(calls) = 0
    BY EmptyFacts DEF Init
  <2> QED
    BY <2>1 DEF CallsTyped
<1>6. MailTyped
  <2>1. \A e \in Entities : Len(mailbox[e]) = 0
    BY EmptyFacts DEF Init
  <2> QED
    BY <2>1 DEF MailTyped
<1>7. WorldTyped
  BY DEF Init, WorldTyped, Values
<1> QED
  BY <1>1, <1>2, <1>4, <1>5, <1>6, <1>7 DEF MachineInv

(* Every step keeps machines placed and values typed.                                            *)
LEMMA NextMachines == ASSUME MachineInv, [Next]_vars PROVE MachineInv'
<1>1. Inv'
  BY NextInv DEF MachineInv
<1>2. Stays
  <2>1. CASE UNCHANGED vars
    <3>1. UNCHANGED <<runs, rtc_runs, op, target, busy, at, left, reports, calls, mailbox,
                      registered, state>>
      BY <2>1 DEF vars, engineVars, execVars, worldVars
    <3>2. Machines' /\ Work' /\ reports' \subseteq RunIds \X BOOLEAN
      BY <3>1, MachinesSame, WorkSame DEF MachineInv, WorldTyped
    <3> QED
      BY <3>1, <3>2, WorldSame
  <2>2. CASE Next
    BY <2>2, HandlersStay, ReportsStay, ExecutorsStay, CallStays, EntitiesStay DEF Next, Handlers
  <2> QED
    BY <2>1, <2>2
<1> QED
  BY <1>1, <1>2 DEF Stays, MachineInv

(* Machines, steps, messages and values are what the definitions make them.                      *)
THEOREM MachineInvariant == Spec => []MachineInv
BY InitMachines, NextMachines, PTL DEF Spec

(* A machine that waits for an event, or that the handler is moving, is in a state of its        *)
(* definition, whatever names its transitions give: RtcExecutor::dispatch never fails because it *)
(* does not find the current state.                                                              *)
THEOREM MachinesPlacedInvariant == Spec => []MachinesPlaced
<1>1. MachineInv => MachinesPlaced
  BY DEF MachineInv, Machines
<1> QED
  BY <1>1, MachineInvariant, PTL

(* Every variable of the engine and of the entities has its type: a run is of a workflow that    *)
(* was created, a handle names a run the engine has and a state of a definition, and an entity   *)
(* holds a state that was parsed or that a command makes of one.                                 *)
THEOREM TypeCorrect == Spec => []TypeOK
<1>1. ASSUME MachineInv PROVE TypeOK
  <2>1. /\ EngineTypes /\ Kept /\ Busy /\ Deleted /\ Machines /\ WorldTyped /\ Sorts
        /\ alive \subseteq Entities
    BY <1>1, SortsHold DEF MachineInv, Inv, Engine, Mail
  <2>2. runs \in Seq([wf : created, status : Statuses])
    <3>1. runs \in Seq(Runs) /\ Len(runs) \in Nat
      BY <2>1 DEF EngineTypes
    <3>2. ASSUME NEW k \in 1..Len(runs) PROVE runs[k] \in [wf : created, status : Statuses]
      <4>1. runs[k] \in Runs
        BY <3>1
      <4>2. runs[k].wf \in created
        BY <2>1 DEF Deleted, Count, WfOf
      <4> QED
        BY <4>1, <4>2 DEF Runs
    <3>3. runs = [k \in 1..Len(runs) |-> runs[k]]
      BY <3>1
    <3>4. [k \in 1..Len(runs) |-> runs[k]] \in Seq([wf : created, status : Statuses])
      BY <3>1, <3>2
    <3> QED
      BY <3>3, <3>4
  <2>3. rtc_runs \in [Workflows -> [run : 0..Len(runs), state : StateNames]]
    <3>1. rtc_runs \in [Workflows -> [run : Nat, state : StateNames]] /\ Len(runs) \in Nat
      BY <2>1 DEF Machines, Sorts, Count
    <3>2. ASSUME NEW w \in Workflows
          PROVE  rtc_runs[w] \in [run : 0..Len(runs), state : StateNames]
      <4>1. rtc_runs[w] \in [run : Nat, state : StateNames]
        BY <3>1
      <4>2. rtc_runs[w].run \in 0..Len(runs)
        BY <2>1, <3>1 DEF Kept, KeptRun, Count, NoRun
      <4> QED
        BY <4>1, <4>2
    <3> QED
      BY <3>1, <3>2
  <2>4. busy \in 0..Len(runs)
    BY <2>1 DEF Busy, Sorts, Count
  <2> QED
    BY <2>1, <2>2, <2>3, <2>4 DEF TypeOK, EngineTypes, Deleted, Machines, WorldTyped, AtStates
<1> QED
  BY <1>1, MachineInvariant, PTL

=============================================================================
