-------------------------- MODULE ClusterRecovery --------------------------
(***************************************************************************)
(* The replacement of dead nodes in a namespace cluster: HandleDeadNode,   *)
(* ReplaceClusterNode, RepairCluster and addNodeToCluster of               *)
(* core/pkg/namespace/cluster_recovery.go, statement by statement.         *)
(*                                                                         *)
(* Every process with a health monitor may be the one that recovers from a *)
(* death, several may (see HealthMonitor), and RepairCluster is called by  *)
(* the reconciliation of the RQLite leader, by the return of a node and by *)
(* an operator.  The locks "recovery:ID" and "repair:ID" are two keys in   *)
(* the memory of one process; everything else is shared through the        *)
(* database.                                                               *)
(*                                                                         *)
(* One cluster is modelled: the loop of HandleDeadNode handles its         *)
(* clusters one after the other.  The ports of the other clusters are      *)
(* PortAllocator's business (here AllocatePortBlock gives the cluster a    *)
(* block on the node, the one it has if it has one), is_active of the      *)
(* records SuspectDNS's.  The scores of the candidates are arbitrary.  The *)
(* removal from the Raft group, the cluster-state.json files and the       *)
(* deployment replicas, none of which these tables depend on, are left out.*)
(***************************************************************************)
EXTENDS Integers, FiniteSets

CONSTANTS
    Nodes,          \* nodes of the network
    NoNode,         \* not a node
    Procs,          \* processes with a health monitor
    Members,        \* the nodes the cluster was provisioned on
    MaxFailures,    \* bound on the database calls and service starts that fail
    MaxCrashes      \* bound on all crashes

ASSUME RecoveryAssumption ==
    /\ NoNode \notin Nodes
    /\ IsFiniteSet(Nodes)
    /\ Members \subseteq Nodes
    /\ MaxFailures \in Nat
    /\ MaxCrashes \in Nat

\* <<p, n>>: HandleDeadNode of n in p; <<p, NoNode>>: RepairCluster in p.
Tasks == Procs \X (Nodes \cup {NoNode})
IsRepair(t) == t[2] = NoNode
Dead(t) == t[2]

\* Each member runs all of them; leader and follower are one role here.
Roles == {"rqlite", "olric", "gateway"}

\* Where a task stands: the statement it is about to execute.
Locking == {"offline", "find", "lock"}
Working == {"mark", "degrade", "read", "count", "ports", "select", "alloc",
            "survivors", "rollback", "dns", "release", "unassign", "finish"}
              \cup Roles
Running == Locking \cup Working

VARIABLES
    up,        \* whether the node is up
    crashes,   \* crashes so far
    everDown,  \* nodes that have been down
    dns,       \* dns_nodes.status
    rows,      \* namespace_cluster_nodes: the status of each node's roles
    blocks,    \* nodes with a row of the cluster in namespace_port_allocations
    records,   \* nodes whose address the namespace's DNS records have
    status,    \* namespace_clusters.status
    pc,        \* where a task stands
    exclude,   \* the nodes a task does not consider as replacement
    repl,      \* the replacement it has selected
    roles,     \* the roles it has to start on the replacement
    errs,      \* spawnErrors > 0
    left,      \* nodes a repair has yet to add
    added,     \* addedCount > 0
    disturbed, \* two tasks have overlapped, or a statement was lost
    failures   \* database calls and service starts that have failed

clusterVars == <<rows, blocks, records, status>>
nodeVars == <<up, crashes, everDown>>
localVars == <<exclude, repl, roles, errs, left, added>>
ghosts == <<disturbed, failures>>
vars == <<up, crashes, everDown, dns, rows, blocks, records, status, pc,
          exclude, repl, roles, errs, left, added, disturbed, failures>>

TypeOK ==
    /\ up \in [Nodes -> BOOLEAN]
    /\ crashes \in 0 .. MaxCrashes
    /\ everDown \subseteq Nodes
    /\ dns \in [Nodes -> {"active", "offline"}]
    /\ rows \in [Nodes -> [Roles -> {"none", "running", "failed"}]]
    /\ blocks \subseteq Nodes
    /\ records \subseteq Nodes
    /\ status \in {"ready", "degraded"}
    /\ pc \in [Tasks -> {"idle", "done"} \cup Running]
    /\ exclude \in [Tasks -> SUBSET Nodes]
    /\ repl \in [Tasks -> Nodes \cup {NoNode}]
    /\ roles \in [Tasks -> SUBSET Roles]
    /\ errs \in [Tasks -> BOOLEAN]
    /\ left \in [Tasks -> Int]
    /\ added \in [Tasks -> BOOLEAN]
    /\ disturbed \in BOOLEAN
    /\ failures \in 0 .. MaxFailures

Init ==
    /\ up = [n \in Nodes |-> TRUE]
    /\ crashes = 0
    /\ everDown = {}
    /\ dns = [n \in Nodes |-> "active"]
    /\ rows = [n \in Nodes |-> [r \in Roles |->
                  IF n \in Members THEN "running" ELSE "none"]]
    /\ blocks = Members
    /\ records = Members
    /\ status = "ready"
    /\ pc = [t \in Tasks |-> "idle"]
    /\ exclude = [t \in Tasks |-> {}]
    /\ repl = [t \in Tasks |-> NoNode]
    /\ roles = [t \in Tasks |-> {}]
    /\ errs = [t \in Tasks |-> FALSE]
    /\ left = [t \in Tasks |-> 0]
    /\ added = [t \in Tasks |-> FALSE]
    /\ disturbed = FALSE
    /\ failures = 0

----------------------------------------------------------------------------
(* Nodes and calls *)

Crash(n) ==
    /\ up[n] /\ crashes < MaxCrashes
    /\ up' = [up EXCEPT ![n] = FALSE]
    /\ crashes' = crashes + 1
    /\ everDown' = everDown \cup {n}
    /\ UNCHANGED <<dns, clusterVars, pc, localVars, ghosts>>

\* registerDNSNode at the start of a node, or HandleRecoveredNode.
Restart(n) ==
    /\ ~up[n]
    /\ up' = [up EXCEPT ![n] = TRUE]
    /\ dns' = [dns EXCEPT ![n] = "active"]
    /\ pc' = [t \in Tasks |-> IF pc[t] = "done" /\ Dead(t) = n THEN "idle"
                              ELSE pc[t]]
    /\ UNCHANGED <<crashes, everDown, clusterVars, localVars, ghosts>>

\* Whether a task other than t is under way.
Overlaps(t) == \E u \in Tasks \ {t} : pc[u] \in Running

\* A quorum confirms the death of n and p calls HandleDeadNode, once in an
\* outage.  (HealthMonitor: a node that is up is not confirmed dead.)
NodeDead(p, n) ==
    /\ ~up[n] /\ pc[<<p, n>>] = "idle"
    /\ pc' = [pc EXCEPT ![<<p, n>>] = "offline"]
    /\ disturbed' = (disturbed \/ Overlaps(<<p, n>>))
    /\ UNCHANGED <<nodeVars, dns, clusterVars, localVars, failures>>

\* RepairCluster is called in p; a call while another one runs in p returns
\* ErrRecoveryInProgress.
RepairCluster(p) ==
    /\ pc[<<p, NoNode>>] = "idle"
    /\ status \in {"ready", "degraded"}
    /\ pc' = [pc EXCEPT ![<<p, NoNode>>] = "count"]
    /\ disturbed' = (disturbed \/ Overlaps(<<p, NoNode>>))
    /\ UNCHANGED <<nodeVars, dns, clusterVars, localVars, failures>>

----------------------------------------------------------------------------
(* HandleDeadNode *)

\* A database call, or the start of a service on a node that is up, fails.
Failure == failures < MaxFailures /\ failures' = failures + 1

\* It fails and the task goes on: what it should have written is missing.
Lost == Failure /\ disturbed' = TRUE

\* It fails and the task knows.
GivesUp == Failure /\ UNCHANGED disturbed

\* markNodeOffline
MarkOffline(t) ==
    /\ pc[t] = "offline"
    /\ pc' = [pc EXCEPT ![t] = "find"]
    /\ \/ dns' = [dns EXCEPT ![Dead(t)] = "offline"] /\ UNCHANGED ghosts
       \/ Lost /\ UNCHANGED dns
    /\ UNCHANGED <<nodeVars, clusterVars, localVars>>

HasRows(n) == \E r \in Roles : rows[n][r] # "none"

\* getClustersByNodeID: the cluster is affected if the node has a row.
FindCluster(t) ==
    /\ pc[t] = "find"
    /\ \/ /\ pc' = [pc EXCEPT ![t] = IF HasRows(Dead(t)) THEN "lock" ELSE "done"]
          /\ UNCHANGED ghosts
       \/ GivesUp /\ pc' = [pc EXCEPT ![t] = "done"]
    /\ UNCHANGED <<nodeVars, dns, clusterVars, localVars>>

\* Whether a recovery of the cluster is in progress in the process.
Locked(t) == \E u \in Tasks \ {t} : /\ u[1] = t[1] /\ ~IsRepair(u)
                                    /\ pc[u] \in Working

\* The lock "recovery:ID"; when it is taken the cluster is skipped.
TakeLock(t) ==
    /\ pc[t] = "lock"
    /\ pc' = [pc EXCEPT ![t] = IF Locked(t) THEN "done" ELSE "mark"]
    /\ UNCHANGED <<nodeVars, dns, clusterVars, localVars, ghosts>>

----------------------------------------------------------------------------
(* ReplaceClusterNode *)

\* updateClusterNodeStatus(deadNodeID, failed)
MarkFailed(t) ==
    /\ pc[t] = "mark"
    /\ pc' = [pc EXCEPT ![t] = "degrade"]
    /\ \/ /\ rows' = [rows EXCEPT ![Dead(t)] = [r \in Roles |->
                         IF rows[Dead(t)][r] = "none" THEN "none" ELSE "failed"]]
          /\ UNCHANGED ghosts
       \/ Lost /\ UNCHANGED rows
    /\ UNCHANGED <<nodeVars, dns, blocks, records, status, localVars>>

Degrade(t) ==
    /\ pc[t] = "degrade"
    /\ pc' = [pc EXCEPT ![t] = "read"]
    /\ \/ status' = "degraded" /\ UNCHANGED ghosts
       \/ Lost /\ UNCHANGED status
    /\ UNCHANGED <<nodeVars, dns, rows, blocks, records, localVars>>

\* The task returns; its locals are gone.
Return(t, to) ==
    /\ pc' = [pc EXCEPT ![t] = to]
    /\ exclude' = [exclude EXCEPT ![t] = {}]
    /\ repl' = [repl EXCEPT ![t] = NoNode]
    /\ roles' = [roles EXCEPT ![t] = {}]
    /\ errs' = [errs EXCEPT ![t] = FALSE]
    /\ left' = [left EXCEPT ![t] = 0]
    /\ added' = [added EXCEPT ![t] = FALSE]

\* getClusterNodes: the members are no candidates, and the dead node's roles
\* are the ones to start.
ReadMembers(t) ==
    /\ pc[t] = "read"
    /\ pc' = [pc EXCEPT ![t] = "select"]
    /\ exclude' = [exclude EXCEPT ![t] = {n \in Nodes : HasRows(n)}]
    /\ roles' = [roles EXCEPT ![t] = {r \in Roles : rows[Dead(t)][r] # "none"}]
    /\ UNCHANGED <<nodeVars, dns, clusterVars, repl, errs, left, added, ghosts>>

\* The query fails: the replacement is given up.
ReadFails(t) ==
    /\ pc[t] \in {"read", "count", "ports"} /\ GivesUp
    /\ Return(t, IF IsRepair(t) THEN "idle" ELSE "done")
    /\ UNCHANGED <<nodeVars, dns, clusterVars>>

\* SelectReplacementNode takes an active node that is not excluded; a node
\* that has just gone down may still be listed as active.
Candidates(t) == {n \in Nodes \ exclude[t] : dns[n] = "active"}

Select(t) ==
    /\ pc[t] = "select"
    /\ \E n \in Candidates(t) : repl' = [repl EXCEPT ![t] = n]
    /\ pc' = [pc EXCEPT ![t] = "alloc"]
    /\ UNCHANGED <<nodeVars, dns, clusterVars, exclude, roles, errs, left, added,
                   ghosts>>

\* The end of RepairCluster's loop: "finish" if a node has been added.
EndLoop(t) ==
    IF added[t] THEN pc' = [pc EXCEPT ![t] = "finish"] /\ UNCHANGED localVars
                ELSE Return(t, "idle")

\* There is no candidate, none has been seen lately or has room for another
\* namespace, or a query fails.
SelectFails(t) ==
    /\ pc[t] = "select"
    /\ IF IsRepair(t) THEN EndLoop(t) ELSE Return(t, "done")
    /\ UNCHANGED <<nodeVars, dns, clusterVars, ghosts>>

\* AllocatePortBlock on the replacement.
Allocate(t) ==
    /\ pc[t] = "alloc"
    /\ blocks' = blocks \cup {repl[t]}
    /\ pc' = [pc EXCEPT ![t] = IF IsRepair(t) THEN "rqlite" ELSE "survivors"]
    /\ UNCHANGED <<nodeVars, dns, rows, records, status, localVars, ghosts>>

AllocateFails(t) ==
    /\ pc[t] = "alloc" /\ GivesUp
    /\ IF IsRepair(t) THEN EndLoop(t) ELSE Return(t, "done")
    /\ UNCHANGED <<nodeVars, dns, clusterVars>>

\* The query for the ports of the surviving nodes.
ReadSurvivors(t) ==
    /\ pc[t] = "survivors"
    /\ \/ pc' = [pc EXCEPT ![t] = "rqlite"] /\ UNCHANGED ghosts
       \/ pc' = [pc EXCEPT ![t] = "rollback"] /\ GivesUp
    /\ UNCHANGED <<nodeVars, dns, clusterVars, localVars>>

\* DeallocatePortBlock on the replacement, by a task that gives it up.
Rollback(t) ==
    /\ pc[t] = "rollback"
    /\ \/ blocks' = blocks \ {repl[t]} /\ UNCHANGED ghosts
       \/ GivesUp /\ UNCHANGED blocks
    /\ IF IsRepair(t) THEN EndLoop(t) ELSE Return(t, "done")
    /\ UNCHANGED <<nodeVars, dns, rows, records, status>>

AfterRole(r) == CASE r = "rqlite" -> "olric" [] r = "olric" -> "gateway"
                  [] r = "gateway" -> "dns"

\* insertClusterNode; an existing row (UNIQUE) stays as it is.
InsertRow(n, r) ==
    rows' = [rows EXCEPT ![n][r] = IF @ = "none" THEN "running" ELSE @]

\* A role is started on the replacement and its row inserted; the error of
\* the insert is dropped.
Spawn(t, r) ==
    /\ pc[t] = r /\ r \in roles[t] /\ up[repl[t]]
    /\ pc' = [pc EXCEPT ![t] = AfterRole(r)]
    /\ \/ InsertRow(repl[t], r) /\ UNCHANGED ghosts
       \/ Lost /\ UNCHANGED rows
    /\ UNCHANGED <<nodeVars, dns, blocks, records, status, localVars>>

\* It cannot be started.  A replacement goes on with its other roles; a
\* repair gives the node up if it was RQLite.
SpawnFails(t, r) ==
    /\ pc[t] = r /\ r \in roles[t]
    /\ \/ GivesUp
       \/ ~up[repl[t]] /\ UNCHANGED ghosts
    /\ pc' = [pc EXCEPT ![t] = IF IsRepair(t) /\ r = "rqlite" THEN "rollback"
                               ELSE AfterRole(r)]
    /\ errs' = [errs EXCEPT ![t] = ~IsRepair(t)]
    /\ UNCHANGED <<nodeVars, dns, clusterVars, exclude, repl, roles, left, added>>

\* The dead node did not have the role.
SkipRole(t, r) ==
    /\ pc[t] = r /\ r \notin roles[t]
    /\ pc' = [pc EXCEPT ![t] = AfterRole(r)]
    /\ UNCHANGED <<nodeVars, dns, clusterVars, localVars, ghosts>>

\* Mutant: the record of the dead node is removed and none is added.
UpdateNamespaceRecordDrops(old, new) == records' = records \ {old}

\* UpdateNamespaceRecord: nothing happens when there is no record of the old
\* address, or one of the new address already (UNIQUE).
UpdateNamespaceRecord(old, new) ==
    records' = IF old \in records /\ new \notin records
               THEN (records \ {old}) \cup {new} ELSE records

SwapRecord(t) ==
    /\ pc[t] = "dns" /\ ~IsRepair(t)
    /\ pc' = [pc EXCEPT ![t] = "release"]
    /\ \/ UpdateNamespaceRecord(Dead(t), repl[t]) /\ UNCHANGED ghosts
       \/ Lost /\ UNCHANGED records
    /\ UNCHANGED <<nodeVars, dns, rows, blocks, status, localVars>>

\* Mutant: the block of the replacement is released.
ReleasePortsOfReplacement(t) ==
    /\ pc[t] = "release"
    /\ pc' = [pc EXCEPT ![t] = "unassign"]
    /\ blocks' = blocks \ {repl[t]}
    /\ UNCHANGED <<nodeVars, dns, rows, records, status, localVars, ghosts>>

\* DeallocatePortBlock(cluster, deadNodeID)
ReleasePorts(t) ==
    /\ pc[t] = "release"
    /\ pc' = [pc EXCEPT ![t] = "unassign"]
    /\ \/ blocks' = blocks \ {Dead(t)} /\ UNCHANGED ghosts
       \/ Lost /\ UNCHANGED blocks
    /\ UNCHANGED <<nodeVars, dns, rows, records, status, localVars>>

\* Mutant: the DELETE lacks its condition on the node.
UnassignAll(t) ==
    /\ pc[t] = "unassign"
    /\ pc' = [pc EXCEPT ![t] = "finish"]
    /\ rows' = [n \in Nodes |-> [r \in Roles |-> "none"]]
    /\ UNCHANGED <<nodeVars, dns, blocks, records, status, localVars, ghosts>>

\* removeClusterNodeAssignment
Unassign(t) ==
    /\ pc[t] = "unassign"
    /\ pc' = [pc EXCEPT ![t] = "finish"]
    /\ \/ /\ rows' = [rows EXCEPT ![Dead(t)] = [r \in Roles |-> "none"]]
          /\ UNCHANGED ghosts
       \/ Lost /\ UNCHANGED rows
    /\ UNCHANGED <<nodeVars, dns, blocks, records, status, localVars>>

\* The cluster is ready again, unless a recovery could not start a service.
Finish(t) ==
    /\ pc[t] = "finish"
    /\ \/ /\ status' = (IF errs[t] THEN status ELSE "ready")
          /\ UNCHANGED ghosts
       \/ ~errs[t] /\ GivesUp /\ UNCHANGED status
    /\ Return(t, IF IsRepair(t) THEN "idle" ELSE "done")
    /\ UNCHANGED <<nodeVars, dns, rows, blocks, records>>

----------------------------------------------------------------------------
(* RepairCluster *)

\* The nodes with a service that counts as active.
ActiveNodes == {n \in Nodes : \E r \in Roles : rows[n][r] = "running"}

Missing == Cardinality(Members) - Cardinality(ActiveNodes)

CountMissing(t) ==
    /\ pc[t] = "count"
    /\ IF Missing <= 0
       THEN Return(t, "idle")
       ELSE /\ pc' = [pc EXCEPT ![t] = "ports"]
            /\ exclude' = [exclude EXCEPT ![t] = {n \in Nodes : HasRows(n)}]
            /\ left' = [left EXCEPT ![t] = Missing]
            /\ roles' = [roles EXCEPT ![t] = Roles]
            /\ UNCHANGED <<repl, errs, added>>
    /\ UNCHANGED <<nodeVars, dns, clusterVars, ghosts>>

\* The query for the ports to join at; without any the repair fails.
ReadPorts(t) ==
    /\ pc[t] = "ports"
    /\ IF blocks = {} THEN Return(t, "idle")
       ELSE pc' = [pc EXCEPT ![t] = "select"] /\ UNCHANGED localVars
    /\ UNCHANGED <<nodeVars, dns, clusterVars, ghosts>>

\* AddNamespaceRecord, and on to the next missing node.
AddRecord(t) ==
    /\ pc[t] = "dns" /\ IsRepair(t)
    /\ \/ records' = records \cup {repl[t]} /\ UNCHANGED ghosts
       \/ Lost /\ UNCHANGED records
    /\ pc' = [pc EXCEPT ![t] = IF left[t] > 1 THEN "select" ELSE "finish"]
    /\ left' = [left EXCEPT ![t] = @ - 1]
    /\ added' = [added EXCEPT ![t] = TRUE]
    /\ exclude' = [exclude EXCEPT ![t] = @ \cup {repl[t]}]
    /\ UNCHANGED <<nodeVars, dns, rows, blocks, status, repl, roles, errs>>

----------------------------------------------------------------------------

Step(t) ==
    \/ MarkOffline(t) \/ FindCluster(t) \/ TakeLock(t) \/ MarkFailed(t)
    \/ Degrade(t) \/ ReadMembers(t) \/ CountMissing(t) \/ ReadPorts(t)
    \/ ReadFails(t) \/ Select(t) \/ SelectFails(t) \/ Allocate(t)
    \/ AllocateFails(t) \/ ReadSurvivors(t) \/ Rollback(t)
    \/ \E r \in Roles : Spawn(t, r) \/ SpawnFails(t, r) \/ SkipRole(t, r)
    \/ SwapRecord(t) \/ AddRecord(t) \/ ReleasePorts(t) \/ Unassign(t)
    \/ Finish(t)

Next ==
    \/ \E n \in Nodes : Crash(n) \/ Restart(n)
    \/ \E p \in Procs, n \in Nodes : NodeDead(p, n)
    \/ \E p \in Procs : RepairCluster(p)
    \/ \E t \in Tasks : Step(t)

Spec == Init /\ [][Next]_vars

----------------------------------------------------------------------------
(* Properties *)

\* "without touching surviving nodes": a member that has never been down
\* keeps its services, its ports and its DNS record, however many recoveries
\* and repairs of whatever processes run at once and fail half way.
SurvivorsKept ==
    \A n \in Members \ everDown :
        /\ \A r \in Roles : rows[n][r] = "running"
        /\ n \in blocks
        /\ n \in records

\* As long as recoveries and repairs do not overlap, a node that counts as
\* running a service of the cluster holds the cluster's ports: nobody else
\* is given them.
PortsHeld == ~disturbed => ActiveNodes \subseteq blocks

\* A replacement nothing disturbed and whose services all started has, when
\* the cluster is about to become ready, moved everything: the dead node has
\* no row and no ports left, the replacement has its roles, its ports and a
\* DNS record.
ReplacementComplete ==
    \A t \in Tasks :
        /\ pc[t] = "finish" /\ ~IsRepair(t) /\ ~errs[t] /\ ~disturbed
        => /\ ~HasRows(Dead(t)) /\ Dead(t) \notin blocks
           /\ \A r \in roles[t] : rows[repl[t]][r] = "running"
           /\ repl[t] \in blocks \cap records

\* HandleDeadNode is for "recovering all affected namespace clusters": when
\* no task is under way and nothing has failed, a cluster that is ready
\* counts no node that was handled as dead, and is still down, as running.
ReadyMeansReplaced ==
    /\ status = "ready"
    /\ \A t \in Tasks : pc[t] \notin Running
    => \A t \in Tasks : pc[t] = "done" /\ ~up[Dead(t)] => Dead(t) \notin ActiveNodes
=============================================================================
