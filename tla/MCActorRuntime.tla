------------------------------- MODULE MCActorRuntime -------------------------------
(* Two children: one that is restarted beside one whose panic stops the other.                 *)
EXTENDS ActorRuntime

CONSTANTS c1, c2

TwoChildren == {c1, c2}

RestartBesideAll == {[c \in TwoChildren |-> IF c = c1 THEN "restart" ELSE "all"]}
=============================================================================
