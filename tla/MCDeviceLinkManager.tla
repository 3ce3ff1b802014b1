------------------------- MODULE MCDeviceLinkManager -------------------------
(***************************************************************************)
(* Instances of DeviceLinkManager for TLC: hosts h1, h2, h3 and boards     *)
(* with the hardware addresses m1 and m2.                                  *)
(***************************************************************************)
EXTENDS DeviceLinkManager, TLC

CONSTANTS h1, h2, h3, m1, m2

TwoHosts == {h1, h2}
ThreeHosts == {h1, h2, h3}
AllIds == {h1, h2, h3, m1, m2}

\* Three records of the board m1.
SameBoard == [p \in ThreeHosts |-> {m1}]
\* Two boards.
TwoBoards == (h1 :> {m1}) @@ (h2 :> {m2})
\* A removal is announced under the name of the service instance: that of h3 does not give the id
\* its record has, as with every record that is named by a mac in its TXT record.
RemovedAs == [p \in Prov |-> IF p = h3 THEN m2 ELSE p]

IncSymmetry == Permutations(Incs)
\* Host names of records that a removal reaches are interchangeable as well.
HostSymmetry == IncSymmetry \cup Permutations(TwoHosts)
=============================================================================
