--------------------------------- MODULE RunLedger ----------------------------------
(* What a client of the workflow engine may rely on when it polls: the ledger of its runs. A run *)
(* is entered for a workflow that is defined, is settled once while its workflow is defined, and *)
(* keeps that status for good; a workflow is forgotten only when none of its runs is open, and   *)
(* its identifier is never drawn again; an engine that stopped changes nothing any more, though  *)
(* tasks it started may still be at work. WorkflowEngine implements it.                          *)
EXTENDS Naturals, Sequences

CONSTANT Workflows

VARIABLES
    drawn,    \* identifiers of workflows ever handed out
    defined,  \* workflows that exist
    entries,  \* Seq of [wf, status], one entry per run
    serving   \* the engine has not stopped

vars == <<drawn, defined, entries, serving>>

Over == {"completed", "failed"}

Init == drawn = {} /\ defined = {} /\ entries = <<>> /\ serving = TRUE

Define(w) ==
    /\ w \notin drawn
    /\ drawn' = drawn \cup {w} /\ defined' = defined \cup {w}
    /\ UNCHANGED entries

Forget(w) ==
    /\ w \in defined
    /\ \A r \in DOMAIN entries : entries[r].wf = w => entries[r].status \in Over
    /\ defined' = defined \ {w}
    /\ UNCHANGED <<drawn, entries>>

\* A run that cannot start is entered as failed.
Enter(w) ==
    /\ w \in defined
    /\ \E s \in {"running", "failed"} : entries' = Append(entries, [wf |-> w, status |-> s])
    /\ UNCHANGED <<drawn, defined>>

Settle(r) ==
    /\ entries[r].status = "running" /\ entries[r].wf \in defined
    /\ \E s \in Over : entries' = [entries EXCEPT ![r].status = s]
    /\ UNCHANGED <<drawn, defined>>

Close == serving' = FALSE /\ UNCHANGED <<drawn, defined, entries>>

Next ==
    /\ serving
    /\ \/ Close
       \/ /\ UNCHANGED serving
          /\ \/ \E w \in Workflows : Define(w) \/ Forget(w) \/ Enter(w)
             \/ \E r \in DOMAIN entries : Settle(r)

Spec == Init /\ [][Next]_vars
=============================================================================
