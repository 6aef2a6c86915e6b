---- MODULE MCRoutingZone ----
(* A small table for TLC: five nodes whose ids are close to ours, so that   *)
(* the zone around us splits twice.  The first one tells of itself, from    *)
(* its own address or from that of the second one, with or without a Kad    *)
(* version that has sender keys.                                            *)
EXTENDS RoutingZone

Nodes == 1..5
Places == {"a1", "a2", "a3", "a4", "a5"}
Own == <<"a1", "a2", "a3", "a4", "a5">>
Kind == <<"legacy", "new", "new", "new", "new">>
Told(i, a, k) == [id |-> i, addr |-> a, kind |-> k]

FewHellos == {Told(1, "a2", "new"), Told(1, "a1", "settled")}
FewTold == {Told(i, Own[i], Kind[i]) : i \in Nodes} \cup FewHellos
NodesDat == {[i \in 1..4 |-> Told(i, Own[i], Kind[i])]}
====
