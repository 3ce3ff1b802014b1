------------------------------ MODULE MCWorkflowEngine ------------------------------
(* A pipeline that writes, calls a service and checks, and a machine with two states of work.    *)
EXTENDS WorkflowEngine

CONSTANTS e1, pipeline, machine, empty

OneEntity == {e1}

WfIds == {pipeline, machine, empty}

Pass == [op |-> "literal", ok |-> TRUE]

Moves(event, guard, to, actions) ==
    [event |-> event, guard |-> guard, target |-> to, actions |-> actions]

Machine ==
    << [name |-> "idle", entry |-> <<>>, exit |-> <<[op |-> "set", entity |-> e1, val |-> "off"]>>,
        transitions |->
            << Moves("go", "false", "nowhere", <<>>),
               Moves("go", "none", "armed", <<>>),
               Moves("err", "none", "nowhere", <<>>),
               Moves("bad", "other", "armed", <<>>) >>],
       [name |-> "armed", entry |-> <<[op |-> "cond", entity |-> e1, val |-> "off"]>>,
        exit |-> <<>>, transitions |-> << Moves("go", "true", "final", <<Pass>>) >>],
       [name |-> "final", entry |-> <<>>, exit |-> <<>>, transitions |-> <<>>] >>

Pipeline ==
    << [op |-> "set", entity |-> e1, val |-> "on"],
       [op |-> "call", target |-> {e1}, val |-> "toggle", ok |-> TRUE],
       [op |-> "cond", entity |-> e1, val |-> "off"] >>

Defs ==
    [w \in WfIds |->
        IF w = pipeline THEN [mode |-> "pipeline", steps |-> Pipeline]
        ELSE IF w = machine THEN [mode |-> "rtc", states |-> Machine]
        ELSE [mode |-> "rtc", states |-> <<>>]]

EventTypes == {"go", "err", "bad"}
=============================================================================
