------------------------ MODULE ClusterProvisioning ------------------------
(***************************************************************************)
(* The life of a namespace's clusters: the request that starts one         *)
(* (CheckNamespaceCluster, ProvisionNamespaceCluster), the goroutine that  *)
(* builds it or rolls it back (provisionClusterAsync), its removal         *)
(* (DeprovisionCluster) and what a restarted node brings back              *)
(* (RestoreLocalClustersFromDisk, RestoreLocalClusters).                   *)
(*                                                                         *)
(* One namespace. Every node runs a cluster manager; the statements of     *)
(* their tasks interleave. Systemd units and state files are named after   *)
(* the namespace, not after the cluster: a service remembers the cluster   *)
(* whose configuration it was started with.                                *)
(*                                                                         *)
(* Left out: events, TURN and SFU units (module WebRTC), wildcard records  *)
(* (module SuspectDNS), deployments, and the branch for a missing gateway  *)
(* binary, which systemd units never report.                               *)
(***************************************************************************)
EXTENDS Integers, FiniteSets, Sequences

CONSTANTS Nodes,        \* nodes, each with its cluster manager
          NodeCount,    \* nodes per cluster (3 in the code)
          MaxClusters,  \* bound: clusters created
          MaxRemovals,  \* bound: requests to delete the namespace
          MaxFailures,  \* bound: failing statements, timeouts, panics
          MaxCrashes    \* bound: crashes of nodes

ASSUME ProvisioningAssumption ==
    /\ IsFiniteSet(Nodes)
    /\ NodeCount \in 1 .. Cardinality(Nodes)
    /\ MaxClusters \in Nat
    /\ MaxRemovals \in Nat
    /\ MaxFailures \in Nat
    /\ MaxCrashes \in Nat

None == 0                       \* no cluster
Clusters == 1 .. MaxClusters
Kinds == {"rqlite", "olric", "gateway"}
Statuses == {"none", "provisioning", "ready", "failed", "deprovisioning"}

VARIABLES
    cluster, status, next,  \* namespace_clusters: the record, and the next id
    ports,                  \* namespace_port_allocations
    rows,                   \* namespace_cluster_nodes
    dns,                    \* dns_records of the namespace
    svc,                    \* per node and kind, the cluster whose unit runs
    file,                   \* per node, cluster-state.json
    up,                     \* nodes that run
    lock,                   \* managers whose map `provisioning` has the namespace
    req, job, dep, restore, \* tasks: requests, goroutines, removals, restores
    failures, crashes, removals,
    calm,                   \* history: no statement lost, no tasks overlapped
    astray                  \* history: per node, the kinds of unit that run although
                            \* their start was reported to have failed, or that
                            \* were passed over when the node came back

tables == <<cluster, status, next, ports, rows, dns>>
disks == <<svc, file>>
vars == <<tables, disks, up, lock, req, job, dep, restore, failures, crashes, removals, calm,
          astray>>
units == <<svc, astray>>

NoFile == [c |-> None, gw |-> FALSE]
NoJob == [pc |-> "none", at |-> None, sel |-> <<>>, i |-> 0, todo |-> {},
          bad |-> {}, kind |-> "rqlite", expired |-> FALSE]
NoDep == [pc |-> "idle", c |-> None, on |-> {}, todo |-> {}, cut |-> FALSE]
NoRestore == [pc |-> "idle", c |-> None, gw |-> FALSE, disk |-> FALSE]
NoReq == [pc |-> "idle", c |-> None]

Selections == {s \in [1 .. NodeCount -> Nodes] :
                  \A i, j \in 1 .. NodeCount : i # j => s[i] # s[j]}

Init ==
    /\ cluster = None /\ status = "none" /\ next = 1
    /\ ports = {} /\ rows = {} /\ dns = {}
    /\ svc = [n \in Nodes |-> [k \in Kinds |-> None]]
    /\ file = [n \in Nodes |-> NoFile]
    /\ up = Nodes
    /\ lock = {}
    /\ req = [n \in Nodes |-> NoReq]
    /\ job = [c \in Clusters |-> NoJob]
    /\ dep = [n \in Nodes |-> NoDep]
    /\ restore = [n \in Nodes |-> NoRestore]
    /\ failures = 0 /\ crashes = 0 /\ removals = 0
    /\ calm = TRUE
    /\ astray = [n \in Nodes |-> {}]

-----------------------------------------------------------------------------
(* Common to all tasks. *)

JobsLive == {c \in Clusters : job[c].pc \notin {"none", "done"}}
Quiet == /\ JobsLive = {}
         /\ \A n \in Nodes : dep[n].pc = "idle" /\ restore[n].pc = "idle"

\* A statement or request that fails: because it must, or for any reason.
Refused(must) ==
    IF must THEN UNCHANGED failures
            ELSE failures < MaxFailures /\ failures' = failures + 1

Works == UNCHANGED failures
Note(fine) == calm' = (calm /\ fine)

\* systemctl start: a unit that runs already keeps its configuration.
StartService(n, k, c) ==
    /\ svc' = [svc EXCEPT ![n][k] = IF @ = None THEN c ELSE @]
    /\ astray' = [astray EXCEPT ![n] = IF svc[n][k] = None THEN @ \ {k} ELSE @]

\* The unit is started and the caller told that it is not: it did not become
\* active in time, or the answer was lost.
StartUnconfirmed(n, k, c) ==
    /\ svc' = [svc EXCEPT ![n][k] = IF @ = None THEN c ELSE @]
    /\ astray' = [astray EXCEPT ![n] = @ \cup {k}]

StopService(n, k) ==
    /\ svc' = [svc EXCEPT ![n][k] = None]
    /\ astray' = [astray EXCEPT ![n] = @ \ {k}]

StopAll(n) ==
    /\ svc' = [svc EXCEPT ![n] = [k \in Kinds |-> None]]
    /\ astray' = [astray EXCEPT ![n] = {}]

PortsOf(c) == {p \in ports : p[1] = c}
RowsOf(c) == {r \in rows : r[1] = c}

SetStatus(c, s) ==
    /\ status' = IF cluster = c THEN s ELSE status
    /\ UNCHANGED <<cluster, next, ports, rows, dns>>

SetPorts(p) == ports' = p /\ UNCHANGED <<cluster, status, next, rows, dns>>
SetRows(r) == rows' = r /\ UNCHANGED <<cluster, status, next, ports, dns>>
SetDNS(d) == dns' = d /\ UNCHANGED <<cluster, status, next, ports, rows>>

\* Mutant: as if records were only marked.
DeleteRecordSoftly(c) ==
    /\ status' = IF cluster = c THEN "deprovisioned" ELSE status
    /\ UNCHANGED <<cluster, next, ports, rows, dns>>

DeleteRecord(c) ==
    /\ cluster' = IF cluster = c THEN None ELSE cluster
    /\ status' = IF cluster = c THEN "none" ELSE status
    /\ UNCHANGED <<next, ports, rows, dns>>

-----------------------------------------------------------------------------
(* A request of the authentication handlers at manager p: check, then      *)
(* provision. Nothing is done about a cluster that exists and has not      *)
(* failed, and nothing when the check's query fails.                       *)

ReqVars == <<disks, astray, up, dep, restore, crashes, removals>>

CheckNamespaceCluster(p) ==
    /\ p \in up /\ req[p].pc = "idle"
    /\ \/ cluster = None /\ next \in Clusters
          /\ req' = [req EXCEPT ![p].pc = "provision"]
       \/ cluster # None /\ status = "failed"
          /\ req' = [req EXCEPT ![p] = [pc |-> "drop", c |-> cluster]]
    /\ UNCHANGED <<ReqVars, tables, lock, job, failures, calm>>

DropFailed(p) ==
    /\ req[p].pc = "drop"
    /\ \/ Works /\ DeleteRecord(req[p].c) /\ UNCHANGED calm
       \/ Refused(FALSE) /\ UNCHANGED tables /\ Note(FALSE)
    /\ req' = [req EXCEPT ![p].pc = "free"]
    /\ UNCHANGED <<ReqVars, lock, job>>

FreeFailed(p) ==
    /\ req[p].pc = "free"
    /\ \/ Works /\ SetPorts(ports \ PortsOf(req[p].c)) /\ UNCHANGED calm
       \/ Refused(FALSE) /\ UNCHANGED tables /\ Note(FALSE)
    /\ req' = [req EXCEPT ![p] = [pc |-> "provision", c |-> None]]
    /\ UNCHANGED <<ReqVars, lock, job>>

\* Mutant: as if the map were not consulted.
ProvisionUnlocked(p) ==
    /\ req[p].pc = "provision"
    /\ req' = [req EXCEPT ![p].pc = "insert"] /\ lock' = lock \cup {p}
    /\ UNCHANGED <<ReqVars, tables, job, failures, calm>>

\* The map `provisioning` admits one goroutine per manager.
ProvisionNamespaceCluster(p) ==
    /\ req[p].pc = "provision"
    /\ IF p \in lock
       THEN req' = [req EXCEPT ![p] = NoReq] /\ UNCHANGED lock
       ELSE req' = [req EXCEPT ![p].pc = "insert"] /\ lock' = lock \cup {p}
    /\ UNCHANGED <<ReqVars, tables, job, failures, calm>>

\* Mutant: as if the key were missing.
NoKey == TRUE

\* The UNIQUE key on namespace_id.
KeyFree == cluster = None

CreateRecord ==
    /\ cluster' = next /\ status' = "provisioning" /\ next' = next + 1
    /\ UNCHANGED <<ports, rows, dns>>

InsertCluster(p) ==
    /\ req[p].pc = "insert"
    /\ KeyFree /\ next \in Clusters
    /\ CreateRecord
    /\ job' = [job EXCEPT ![next] = [NoJob EXCEPT !.pc = "select", !.at = p]]
    /\ req' = [req EXCEPT ![p] = NoReq]
    /\ Note(Quiet)
    /\ UNCHANGED <<ReqVars, lock, failures>>

\* The key is taken, or the insert fails, perhaps after it was applied.
InsertFails(p) ==
    /\ req[p].pc = "insert"
    /\ Refused(~(KeyFree /\ next \in Clusters))
    /\ \/ UNCHANGED tables /\ UNCHANGED calm
       \/ KeyFree /\ next \in Clusters /\ CreateRecord /\ Note(FALSE)
    /\ req' = [req EXCEPT ![p] = NoReq]
    /\ lock' = lock \ {p}
    /\ UNCHANGED <<ReqVars, job>>

Request(p) ==
    \/ CheckNamespaceCluster(p)
    \/ DropFailed(p)
    \/ FreeFailed(p)
    \/ ProvisionNamespaceCluster(p)
    \/ InsertCluster(p)
    \/ InsertFails(p)

-----------------------------------------------------------------------------
(* provisionClusterAsync. The context of five minutes covers everything    *)
(* the goroutine does, its rollback too; once it has expired only the      *)
(* local systemctl calls still work.                                       *)

JobVars == <<file, up, req, dep, restore, crashes, removals>>

At(c, pc) == job[c].pc = pc
Node(c) == job[c].sel[job[c].i]
Members(c) == {job[c].sel[i] : i \in 1 .. NodeCount}
Before(c) == {job[c].sel[i] : i \in 1 .. job[c].i - 1}
Reaches(c, n) == n = job[c].at \/ (n \in up /\ ~job[c].expired)

\* The next node of a loop, or the next phase.
Advance(c, pc, done) ==
    job' = [job EXCEPT ![c] = IF @.i < NodeCount
                              THEN [@ EXCEPT !.pc = pc, !.i = job[c].i + 1]
                              ELSE [@ EXCEPT !.pc = done, !.i = 1, !.todo = Members(c)]]

Go(c, pc, todo) ==
    job' = [job EXCEPT ![c].pc = pc, ![c].todo = todo]

SelectNodesForCluster(c) ==
    /\ At(c, "select")
    /\ \/ /\ ~job[c].expired /\ Works
          /\ \E s \in Selections :
                job' = [job EXCEPT ![c].pc = "allocate", ![c].sel = s, ![c].i = 1]
       \/ Refused(job[c].expired) /\ Go(c, "failed", {})
    /\ UNCHANGED <<JobVars, tables, units, lock, calm>>

AllocatePortBlock(c) ==
    /\ At(c, "allocate")
    /\ ~job[c].expired
    /\ SetPorts(ports \cup {<<c, Node(c)>>})
    /\ Advance(c, "allocate", "rqlite")
    /\ UNCHANGED <<JobVars, units, lock, failures, calm>>

\* Only the blocks of the nodes before this one are given back.
AllocationFails(c) ==
    /\ At(c, "allocate")
    /\ Refused(job[c].expired)
    /\ \/ UNCHANGED tables /\ UNCHANGED calm
       \/ SetPorts(ports \cup {<<c, Node(c)>>}) /\ Note(FALSE)
    /\ IF job[c].i = 1 THEN Go(c, "failed", {}) ELSE Go(c, "release", Before(c))
    /\ UNCHANGED <<JobVars, units, lock>>

\* The phase that records a started instance of a kind.
Recording == [rqlite |-> "record_rqlite", olric |-> "record_olric",
              gateway |-> "record_gateway"]

\* RQLite and the gateways are started node by node, each recorded at once.
Spawn(c, kind) ==
    /\ At(c, kind)
    /\ Reaches(c, Node(c))
    /\ StartService(Node(c), kind, c)
    /\ Go(c, Recording[kind], {})
    /\ UNCHANGED <<JobVars, tables, lock, failures, calm>>

\* The unit may have been started all the same; the nodes before this one
\* are stopped, this one is not.
SpawnFails(c, kind) ==
    /\ At(c, kind)
    /\ Refused(~Reaches(c, Node(c)))
    /\ \/ UNCHANGED units
       \/ Reaches(c, Node(c)) /\ StartUnconfirmed(Node(c), kind, c)
    /\ job' = [job EXCEPT ![c].kind = kind, ![c].todo = Before(c),
                          ![c].pc = IF Before(c) = {} THEN "stop_all" ELSE "stop_started"]
    /\ UNCHANGED <<JobVars, tables, lock, calm>>

\* insertClusterNode: an error is logged.
RecordNode(c, kind, done) ==
    /\ At(c, Recording[kind])
    /\ \/ ~job[c].expired /\ Works /\ UNCHANGED calm
          /\ SetRows(rows \cup {<<c, Node(c), kind>>})
       \/ Refused(job[c].expired) /\ Note(FALSE) /\ UNCHANGED tables
    /\ Advance(c, IF kind = "olric" THEN "record_olric" ELSE kind, done)
    /\ UNCHANGED <<JobVars, units, lock>>

\* Mutant: as if the errors of the goroutines were not looked at.
OlricErrorsIgnored(c, n, failed) ==
    LET left == job[c].todo \ {n} IN
    job' = [job EXCEPT ![c].todo = left,
                       ![c].pc = IF left = {} THEN "record_olric" ELSE @]

\* Olric is started on all nodes at once: todo holds the nodes that have not
\* answered yet, bad the ones that failed. If one did, the others are stopped.
OlricAnswers(c, n, failed) ==
    LET left == job[c].todo \ {n}
        bad == IF failed THEN job[c].bad \cup {n} ELSE job[c].bad
        started == Members(c) \ bad
    IN  job' = [job EXCEPT ![c] =
          IF left # {} THEN [@ EXCEPT !.todo = left, !.bad = bad]
          ELSE IF bad = {} THEN [@ EXCEPT !.todo = {}, !.pc = "record_olric"]
          ELSE [@ EXCEPT !.todo = started, !.bad = {}, !.kind = "olric",
                         !.pc = IF started = {} THEN "stop_all" ELSE "stop_started"]]

SpawnOlric(c) == \E n \in job[c].todo :
    /\ At(c, "olric")
    /\ \/ /\ Reaches(c, n) /\ Works
          /\ StartService(n, "olric", c)
          /\ OlricAnswers(c, n, FALSE)
       \/ /\ Refused(~Reaches(c, n))
          /\ \/ UNCHANGED units
             \/ Reaches(c, n) /\ StartUnconfirmed(n, "olric", c)
          /\ OlricAnswers(c, n, TRUE)
    /\ UNCHANGED <<JobVars, tables, lock, calm>>

\* CreateNamespaceRecords: delete what is there, then one insert per node;
\* the first failing insert ends it, which provisioning only logs.
ClearDNS(c) ==
    /\ At(c, "dns")
    /\ \/ ~job[c].expired /\ Works /\ SetDNS({}) /\ UNCHANGED calm
       \/ Refused(job[c].expired) /\ UNCHANGED tables /\ Note(FALSE)
    /\ Go(c, "dns_insert", {})
    /\ UNCHANGED <<JobVars, units, lock>>

InsertDNS(c) ==
    /\ At(c, "dns_insert")
    /\ \/ /\ ~job[c].expired /\ Works /\ UNCHANGED calm
          /\ Node(c) \notin dns
          /\ SetDNS(dns \cup {Node(c)})
          /\ Advance(c, "dns_insert", "ready")
       \/ /\ Refused(job[c].expired \/ Node(c) \in dns)
          /\ UNCHANGED tables /\ Note(FALSE)
          /\ Go(c, "ready", {})
    /\ UNCHANGED <<JobVars, units, lock>>

-----------------------------------------------------------------------------
(* The ways back: what a failed step undoes itself, then                   *)
(* rollbackProvisioning. What is passed to it depends on the kind of       *)
(* service that did not start.                                             *)

\* Mutant: as if rollbackProvisioning were told of no RQLite instance.
RollbackForgetsRQLite == [rqlite |-> "free_ports", olric |-> "free_ports", gateway |-> "stop_olric"]

RollbackFrom == [rqlite |-> "free_ports", olric |-> "stop_rqlite", gateway |-> "stop_olric"]

AfterPhase(c) ==
    CASE At(c, "stop_started") -> "stop_all"
      [] At(c, "stop_all") -> RollbackFrom[job[c].kind]
      [] At(c, "stop_olric") -> "stop_rqlite"
      [] At(c, "stop_rqlite") -> "free_ports"
      [] job[c].pc \in {"release", "free_ports"} -> "failed"

\* One node of the phase is dealt with.
Undone(c, n) ==
    LET left == job[c].todo \ {n} IN
    IF left # {} THEN Go(c, job[c].pc, left)
                 ELSE Go(c, AfterPhase(c), Members(c))

Release(c) == \E n \in job[c].todo :
    /\ At(c, "release")
    /\ \/ ~job[c].expired /\ Works /\ SetPorts(ports \ {<<c, n>>}) /\ UNCHANGED calm
       \/ Refused(job[c].expired) /\ UNCHANGED tables /\ Note(FALSE)
    /\ Undone(c, n)
    /\ UNCHANGED <<JobVars, units, lock>>

StopPhase == [stop_olric |-> "olric", stop_rqlite |-> "rqlite"]

StopOnNode(c) == \E n \in job[c].todo :
    /\ job[c].pc \in {"stop_started", "stop_olric", "stop_rqlite"}
    /\ \/ /\ Reaches(c, n) /\ Works /\ UNCHANGED calm
          /\ StopService(n, IF At(c, "stop_started") THEN job[c].kind
                            ELSE StopPhase[job[c].pc])
       \/ Refused(~Reaches(c, n)) /\ UNCHANGED units /\ Note(n \notin up)
    /\ Undone(c, n)
    /\ UNCHANGED <<JobVars, tables, lock>>

\* SystemdSpawner.StopAll, on the manager's own node only.
StopLocal(c) ==
    /\ At(c, "stop_all")
    /\ StopAll(job[c].at)
    /\ Go(c, AfterPhase(c), Members(c))
    /\ UNCHANGED <<JobVars, tables, lock, failures, calm>>

FreePorts(c) ==
    /\ At(c, "free_ports")
    /\ \/ ~job[c].expired /\ Works /\ SetPorts(ports \ PortsOf(c)) /\ UNCHANGED calm
       \/ Refused(job[c].expired) /\ UNCHANGED tables /\ Note(FALSE)
    /\ Go(c, AfterPhase(c), {})
    /\ UNCHANGED <<JobVars, units, lock>>

\* Mutant: as if a failed provisioning returned without a word.
SettleReadyOnly(c) ==
    /\ job[c].pc \in {"ready", "failed"}
    /\ IF job[c].pc = "ready" THEN SetStatus(c, "ready") ELSE UNCHANGED tables
    /\ job' = [job EXCEPT ![c] = [NoJob EXCEPT !.pc = "done"]]
    /\ lock' = lock \ {job[c].at}
    /\ UNCHANGED <<JobVars, units, failures, calm>>

\* The last statement, whose error nobody reads; then the deferred unlock.
Settle(c) ==
    /\ job[c].pc \in {"ready", "failed"}
    /\ \/ ~job[c].expired /\ Works /\ SetStatus(c, job[c].pc) /\ UNCHANGED calm
       \/ Refused(job[c].expired) /\ UNCHANGED tables /\ Note(FALSE)
    /\ job' = [job EXCEPT ![c] = [NoJob EXCEPT !.pc = "done"]]
    /\ lock' = lock \ {job[c].at}
    /\ UNCHANGED <<JobVars, units>>

\* A panic skips the rollback; the status is then set with a fresh context.
Panic(c) ==
    /\ c \in JobsLive
    /\ job[c].pc # "failed"
    /\ Refused(FALSE) /\ Note(FALSE)
    /\ job' = [job EXCEPT ![c].pc = "failed", ![c].todo = {}, ![c].expired = FALSE]
    /\ UNCHANGED <<JobVars, tables, units, lock>>

Expire(c) ==
    /\ c \in JobsLive
    /\ ~job[c].expired
    /\ Refused(FALSE) /\ Note(FALSE)
    /\ job' = [job EXCEPT ![c].expired = TRUE]
    /\ UNCHANGED <<JobVars, tables, units, lock>>

Job(c) ==
    \/ SelectNodesForCluster(c)
    \/ AllocatePortBlock(c)
    \/ AllocationFails(c)
    \/ \E kind \in {"rqlite", "gateway"} : Spawn(c, kind) \/ SpawnFails(c, kind)
    \/ RecordNode(c, "rqlite", "olric")
    \/ RecordNode(c, "olric", "gateway")
    \/ RecordNode(c, "gateway", "dns")
    \/ SpawnOlric(c)
    \/ ClearDNS(c)
    \/ InsertDNS(c)
    \/ Release(c)
    \/ StopOnNode(c)
    \/ StopLocal(c)
    \/ FreePorts(c)
    \/ Settle(c)

-----------------------------------------------------------------------------
(* DeprovisionCluster at manager p, under the context of a request. Its    *)
(* errors are dropped. It takes no lock.                                   *)

DepVars == <<up, lock, req, job, restore, crashes>>
DepAt(p, pc) == dep[p].pc = pc
DepReaches(p, n) == n = p \/ (n \in up /\ ~dep[p].cut)
DepGo(p, pc) == dep' = [dep EXCEPT ![p].pc = pc, ![p].todo = dep[p].on]

Deprovision(p) ==
    /\ p \in up /\ DepAt(p, "idle")
    /\ cluster # None
    /\ removals < MaxRemovals /\ removals' = removals + 1
    /\ dep' = [dep EXCEPT ![p] = [NoDep EXCEPT !.pc = "mark", !.c = cluster]]
    /\ Note(Quiet)
    /\ UNCHANGED <<DepVars, tables, disks, astray, failures>>

DepMark(p) ==
    /\ DepAt(p, "mark")
    /\ \/ ~dep[p].cut /\ Works /\ SetStatus(dep[p].c, "deprovisioning") /\ UNCHANGED calm
       \/ Refused(dep[p].cut) /\ UNCHANGED tables /\ Note(FALSE)
    /\ DepGo(p, "nodes")
    /\ UNCHANGED <<DepVars, removals, disks, astray>>

\* When the query fails, only this node is cleaned up.
DepNodes(p) ==
    /\ DepAt(p, "nodes")
    /\ \E on \in SUBSET Nodes :
          /\ \/ /\ ~dep[p].cut /\ Works /\ UNCHANGED calm
                /\ on = {n \in Nodes : \E r \in RowsOf(dep[p].c) : r[2] = n}
             \/ Refused(dep[p].cut) /\ on = {p} /\ Note(FALSE)
          /\ dep' = [dep EXCEPT ![p].on = on, ![p].todo = on,
                                ![p].pc = IF on = {} THEN "ports" ELSE "gateway"]
    /\ UNCHANGED <<DepVars, removals, tables, disks, astray>>

DepNext == [gateway |-> "olric", olric |-> "rqlite", rqlite |-> "file", file |-> "ports"]

\* A node that cannot be reached keeps its units and its state file.
DepStop(p) == \E n \in dep[p].todo :
    /\ dep[p].pc \in DOMAIN DepNext
    /\ \/ /\ DepReaches(p, n) /\ Works /\ UNCHANGED calm
          /\ IF DepAt(p, "file")
             THEN file' = [file EXCEPT ![n] = NoFile] /\ UNCHANGED units
             ELSE StopService(n, dep[p].pc) /\ UNCHANGED file
       \/ Refused(~DepReaches(p, n)) /\ UNCHANGED <<disks, astray>> /\ Note(n \notin up)
    /\ IF dep[p].todo = {n} THEN DepGo(p, DepNext[dep[p].pc])
                            ELSE dep' = [dep EXCEPT ![p].todo = @ \ {n}]
    /\ UNCHANGED <<DepVars, removals, tables>>

\* The ports are deleted twice, so that losing the first statement is harmless.
DepDelete(p) ==
    /\ \/ DepAt(p, "ports") /\ DepGo(p, "dns")
       \/ DepAt(p, "dns") /\ DepGo(p, "rows")
       \/ DepAt(p, "rows") /\ DepGo(p, "ports2")
       \/ DepAt(p, "ports2") /\ DepGo(p, "delete")
       \/ DepAt(p, "delete") /\ dep' = [dep EXCEPT ![p] = NoDep]
    /\ \/ /\ ~dep[p].cut /\ Works /\ UNCHANGED calm
          /\ \/ dep[p].pc \in {"ports", "ports2"} /\ SetPorts(ports \ PortsOf(dep[p].c))
             \/ DepAt(p, "dns") /\ SetDNS({})
             \/ DepAt(p, "rows") /\ SetRows(rows \ RowsOf(dep[p].c))
             \/ DepAt(p, "delete") /\ DeleteRecord(dep[p].c)
       \/ Refused(dep[p].cut) /\ UNCHANGED tables /\ Note(DepAt(p, "ports"))
    /\ UNCHANGED <<DepVars, removals, disks, astray>>

\* The client goes away: the request's context is cancelled.
Disconnect(p) ==
    /\ ~DepAt(p, "idle") /\ ~dep[p].cut
    /\ Refused(FALSE) /\ Note(FALSE)
    /\ dep' = [dep EXCEPT ![p].cut = TRUE]
    /\ UNCHANGED <<DepVars, removals, tables, disks, astray>>

Removal(p) == DepMark(p) \/ DepNodes(p) \/ DepStop(p) \/ DepDelete(p)

-----------------------------------------------------------------------------
(* A node goes down with its units and tasks; its disk stays. When it is   *)
(* back it restores what its state file says, or else what the tables say. *)

Crash(n) ==
    /\ n \in up /\ crashes < MaxCrashes
    /\ up' = up \ {n} /\ crashes' = crashes + 1
    /\ StopAll(n)
    /\ lock' = lock \ {n}
    /\ req' = [req EXCEPT ![n] = NoReq]
    /\ dep' = [dep EXCEPT ![n] = NoDep]
    /\ restore' = [restore EXCEPT ![n] = NoRestore]
    /\ job' = [c \in Clusters |-> IF c \in JobsLive /\ job[c].at = n
                                  THEN [NoJob EXCEPT !.pc = "done"] ELSE job[c]]
    /\ Note(JobsLive = {} /\ DepAt(n, "idle") /\ req[n].pc = "idle")
    /\ UNCHANGED <<tables, file, failures, removals>>

RestoreVars == <<lock, req, job, dep, crashes, removals, tables>>
RestoreAt(n, pc) == restore[n].pc = pc

Restart(n) ==
    /\ n \notin up
    /\ up' = up \cup {n}
    /\ restore' = [restore EXCEPT ![n].pc = "disk"]
    /\ Note(Quiet)
    /\ UNCHANGED <<RestoreVars, disks, astray, failures>>

\* Mutant: as if the state file were believed without the self-check.
AssignedByFile(n, c) == c # None

Assigned(n, c) == \E r \in rows : r[1] = c /\ r[2] = n

\* restoreClusterFromState: the self-check, then the services. If the check
\* cannot be made the file is believed. Without a file of this namespace the
\* tables are asked, unless some other namespace was restored from its file:
\* then the restore of the node is over.
RestoreFromDisk(n) ==
    /\ RestoreAt(n, "disk")
    /\ LET f == file[n] IN
       \/ /\ f = NoFile /\ Works
          /\ \/ /\ restore' = [restore EXCEPT ![n].pc = "query"]
                /\ UNCHANGED astray
             \/ /\ restore' = [restore EXCEPT ![n] = NoRestore]
                /\ astray' = [astray EXCEPT ![n] = Kinds]
          /\ UNCHANGED <<disks, calm>>
       \/ /\ f # NoFile /\ Works /\ ~Assigned(n, f.c)
          /\ StopAll(n)
          /\ file' = [file EXCEPT ![n] = NoFile]
          /\ restore' = [restore EXCEPT ![n] = NoRestore]
          /\ UNCHANGED calm
       \/ /\ f # NoFile
          /\ \/ Assigned(n, f.c) /\ Works /\ UNCHANGED calm
             \/ Refused(FALSE) /\ Note(FALSE)
          /\ restore' = [restore EXCEPT ![n] =
                [pc |-> "rqlite", c |-> f.c, gw |-> f.gw, disk |-> TRUE]]
          /\ UNCHANGED <<disks, astray>>
    /\ UNCHANGED <<RestoreVars, up>>

\* RestoreLocalClusters: ready clusters only. A failing query is retried eleven
\* times: the failure below is the one of the last attempt.
RestoreQuery(n) ==
    /\ RestoreAt(n, "query")
    /\ \/ /\ Works /\ UNCHANGED calm
          /\ restore' = [restore EXCEPT ![n] =
                IF status = "ready" /\ Assigned(n, cluster)
                THEN [NoRestore EXCEPT !.pc = "ports", !.c = cluster]
                ELSE NoRestore]
       \/ /\ Refused(FALSE) /\ Note(FALSE)
          /\ restore' = [restore EXCEPT ![n] = NoRestore]
    /\ UNCHANGED <<RestoreVars, disks, astray, up>>

RestorePorts(n) ==
    /\ RestoreAt(n, "ports")
    /\ LET c == restore[n].c IN
       \/ /\ <<c, n>> \in ports /\ Works /\ UNCHANGED calm
          /\ restore' = [restore EXCEPT ![n].pc = "rqlite",
                ![n].gw = \E r \in RowsOf(c) : r[3] = "gateway"]
       \/ /\ Refused(<<c, n>> \notin ports) /\ Note(FALSE)
          /\ restore' = [restore EXCEPT ![n] = NoRestore]
    /\ UNCHANGED <<RestoreVars, disks, astray, up>>

\* RQLite, Olric and, if the cluster has gateways, the gateway; a unit that
\* does not start is logged. Only the restore from the tables saves a file.
RestoreService(n) ==
    /\ restore[n].pc \in Kinds
    /\ \/ Works /\ StartService(n, restore[n].pc, restore[n].c) /\ UNCHANGED calm
       \/ Refused(FALSE) /\ UNCHANGED units /\ Note(FALSE)
    /\ restore' = [restore EXCEPT ![n] =
          CASE @.pc = "rqlite" -> [@ EXCEPT !.pc = "olric"]
            [] @.pc = "olric" /\ @.gw -> [@ EXCEPT !.pc = "gateway"]
            [] OTHER -> IF @.disk THEN NoRestore ELSE [@ EXCEPT !.pc = "save"]]
    /\ UNCHANGED <<RestoreVars, file, up>>

RestoreSave(n) ==
    /\ RestoreAt(n, "save")
    /\ \/ /\ Works /\ UNCHANGED calm
          /\ file' = [file EXCEPT ![n] = [c |-> restore[n].c, gw |-> restore[n].gw]]
       \/ Refused(FALSE) /\ UNCHANGED file /\ Note(FALSE)
    /\ restore' = [restore EXCEPT ![n] = NoRestore]
    /\ UNCHANGED <<RestoreVars, units, up>>

Restore(n) ==
    \/ RestoreFromDisk(n) \/ RestoreQuery(n) \/ RestorePorts(n)
    \/ RestoreService(n) \/ RestoreSave(n)

-----------------------------------------------------------------------------
Next ==
    \/ \E n \in Nodes : Request(n) \/ Deprovision(n) \/ Removal(n) \/ Disconnect(n)
                        \/ Crash(n) \/ Restart(n) \/ Restore(n)
    \/ \E c \in Clusters : Job(c) \/ Panic(c) \/ Expire(c)

Spec == Init /\ [][Next]_vars

\* Goroutines that can run do; every call returns, if only with an error.
FairSpec == Spec /\ \A c \in Clusters : WF_vars(Job(c))

-----------------------------------------------------------------------------
(* Properties. *)

JobPhases == {"none", "done", "select", "allocate", "rqlite", "record_rqlite", "olric",
    "record_olric", "gateway", "record_gateway", "dns", "dns_insert", "ready", "release",
    "stop_started", "stop_all", "stop_olric", "stop_rqlite", "free_ports", "failed"}

\* Every variable has its type (namespace_clusters, namespace_cluster_nodes,
\* namespace_port_allocations and the tasks of the cluster managers).
TypeOK ==
    /\ cluster \in Clusters \cup {None} /\ status \in Statuses
    /\ next \in 1 .. MaxClusters + 1
    /\ ports \subseteq Clusters \X Nodes
    /\ rows \subseteq Clusters \X Nodes \X Kinds
    /\ dns \subseteq Nodes /\ up \subseteq Nodes /\ lock \subseteq Nodes
    /\ svc \in [Nodes -> [Kinds -> Clusters \cup {None}]]
    /\ file \in [Nodes -> [c : Clusters \cup {None}, gw : BOOLEAN]]
    /\ req \in [Nodes -> [pc : {"idle", "drop", "free", "provision", "insert"},
                          c : Clusters \cup {None}]]
    /\ \A c \in Clusters :
          /\ job[c].pc \in JobPhases
          /\ job[c].at \in Nodes \cup {None}
          /\ job[c].todo \subseteq Nodes /\ job[c].bad \subseteq Nodes
          /\ job[c].sel \in Selections \cup {<<>>}
    /\ failures \in 0 .. MaxFailures /\ crashes \in 0 .. MaxCrashes
    /\ removals \in 0 .. MaxRemovals
    /\ calm \in BOOLEAN
    /\ astray \in [Nodes -> SUBSET Kinds]

\* Nothing runs on n but what a failed start left there.
Deserted(n) == \A k \in Kinds : svc[n][k] = None \/ k \in astray[n]
Removing == \E n \in Nodes : dep[n].pc # "idle"

\* A cluster that is declared ready, undisturbed, has its number of nodes, each
\* with its ports, its rows, its record and, if it runs, all its units started
\* for this cluster, also after a crash and a restart of a member: all but the
\* units that an earlier failed start had left there, whose configuration stays
\* the old one, and those of a node whose restart found other namespaces'
\* state files and not this one's (provisionClusterAsync, RestoreLocalClusters).
ReadyIsServed ==
    calm /\ status = "ready" /\ ~Removing =>
        LET members == {n \in Nodes : <<cluster, n>> \in ports} IN
        /\ Cardinality(members) = NodeCount
        /\ dns = members
        /\ \A n \in members, k \in Kinds :
              /\ <<cluster, n, k>> \in rows
              /\ n \in up /\ restore[n].pc = "idle" =>
                    svc[n][k] = cluster \/ k \in astray[n]

\* A provisioning that failed at any of its steps, with whatever nodes down,
\* leaves no ports and no records, and no units but the ones whose own start
\* failed after systemd had started them. It is assumed that the goroutine got
\* to the end of its rollback: its context did not expire, it did not panic,
\* and its statements were not lost (rollbackProvisioning).
FailedIsRolledBack ==
    calm /\ status = "failed" /\ ~Removing =>
        /\ PortsOf(cluster) = {} /\ dns = {}
        /\ \A n \in Nodes : Deserted(n)

\* A cluster that was removed leaves nothing that runs or is reserved, units of
\* failed starts excepted; a node that was down meanwhile finds out when it is
\* back and does not bring the cluster back (DeprovisionCluster,
\* restoreClusterFromState).
GoneIsGone ==
    calm /\ cluster = None /\ Quiet =>
        /\ ports = {} /\ dns = {}
        /\ \A n \in Nodes : Deserted(n) /\ (n \in up => file[n] = NoFile)

\* A manager never runs two provisionings of the namespace, whatever is deleted
\* or fails meanwhile (the map `provisioning`).
OneGoroutine ==
    \A c, d \in JobsLive : job[c].at = job[d].at => c = d

\* The clusters of the namespace live as ClusterLifecycle says.
Life == [c \in Clusters |-> IF c >= next THEN "new"
                            ELSE IF c = cluster THEN status ELSE "gone"]
Lifecycle == INSTANCE ClusterLifecycle WITH life <- Life
LifecycleSpec == Lifecycle!Spec

\* 'provisioning' does not last: only a crash, a lost statement, an expired
\* context or an overlapping task can leave it behind (provisionClusterAsync).
ProvisioningEnds ==
    (status = "provisioning" /\ calm) ~> (status # "provisioning" \/ ~calm)
=============================================================================
