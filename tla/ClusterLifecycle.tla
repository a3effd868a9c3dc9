-------------------------- MODULE ClusterLifecycle --------------------------
(***************************************************************************)
(* What the rest of the system may rely on about the clusters of one       *)
(* namespace: there is at most one at a time, a cluster that is gone stays *)
(* gone, and the outcome of its provisioning, once recorded, is not        *)
(* exchanged for the other one.                                            *)
(***************************************************************************)
CONSTANT Clusters

VARIABLE life

Live == {c \in Clusters : life[c] \notin {"new", "gone"}}

Init == life = [c \in Clusters |-> "new"]

Create(c) ==
    /\ life[c] = "new"
    /\ Live = {}
    /\ life' = [life EXCEPT ![c] = "provisioning"]

Settle(c, outcome) ==
    /\ life[c] \in {"provisioning", "deprovisioning"}
    /\ life' = [life EXCEPT ![c] = outcome]

TearDown(c) ==
    /\ c \in Live
    /\ life' = [life EXCEPT ![c] = "deprovisioning"]

Remove(c) ==
    /\ c \in Live
    /\ life' = [life EXCEPT ![c] = "gone"]

Next == \E c \in Clusters :
    \/ Create(c)
    \/ \E outcome \in {"ready", "failed"} : Settle(c, outcome)
    \/ TearDown(c)
    \/ Remove(c)

Spec == Init /\ [][Next]_life
=============================================================================
