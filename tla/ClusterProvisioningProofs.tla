---------------------- MODULE ClusterProvisioningProofs ----------------------
(***************************************************************************)
(* Proofs about ClusterProvisioning, for every set of nodes, size of a     *)
(* cluster and bound. The inductive invariant has two layers. The first    *)
(* holds whatever fails: types, who runs which task, and what the record   *)
(* says while a goroutine lives. The second holds as long as the history   *)
(* is calm: it says, for every phase of the task that runs, exactly what   *)
(* exists of the cluster, so that each task hands over to the next one.    *)
(***************************************************************************)
EXTENDS ClusterProvisioning, FiniteSetTheorems, TLAPS

-----------------------------------------------------------------------------
(* The first layer. *)

ReqPhases == {"idle", "drop", "free", "provision", "insert"}
DepPhases == {"idle", "mark", "nodes", "gateway", "olric", "rqlite", "file",
              "ports", "dns", "rows", "ports2", "delete"}
RestorePhases == {"idle", "disk", "query", "ports", "rqlite", "olric", "gateway", "save"}

SomeSelection == Selections \cup {<<>>}

JobTypes == [pc : JobPhases, at : Nodes \cup {None}, sel : SomeSelection,
             i : 0 .. NodeCount, todo : SUBSET Nodes, bad : SUBSET Nodes,
             kind : Kinds, expired : BOOLEAN]

TableTypes ==
    /\ cluster \in Clusters \cup {None} /\ status \in Statuses
    /\ next \in 1 .. MaxClusters + 1
    /\ ports \subseteq Clusters \X Nodes
    /\ rows \subseteq Clusters \X Nodes \X Kinds
    /\ dns \subseteq Nodes

DiskTypes ==
    /\ svc \in [Nodes -> [Kinds -> Clusters \cup {None}]]
    /\ file \in [Nodes -> [c : Clusters \cup {None}, gw : BOOLEAN]]

TaskTypes ==
    /\ up \subseteq Nodes /\ lock \subseteq Nodes
    /\ req \in [Nodes -> [pc : ReqPhases, c : Clusters \cup {None}]]
    /\ job \in [Clusters -> JobTypes]
    /\ dep \in [Nodes -> [pc : DepPhases, c : Clusters \cup {None}, on : SUBSET Nodes,
                          todo : SUBSET Nodes, cut : BOOLEAN]]
    /\ restore \in [Nodes -> [pc : RestorePhases, c : Clusters \cup {None},
                              gw : BOOLEAN, disk : BOOLEAN]]

CountTypes ==
    /\ failures \in 0 .. MaxFailures /\ crashes \in 0 .. MaxCrashes
    /\ removals \in 0 .. MaxRemovals
    /\ calm \in BOOLEAN

\* Units gone astray are on nodes that run.
Strayed ==
    /\ astray \in [Nodes -> SUBSET Kinds]
    /\ \A n \in Nodes : astray[n] # {} => n \in up

\* A goroutine past the selection has its nodes and works on one of them.
Chosen == \A c \in Clusters :
    job[c].pc \notin {"none", "done", "select", "failed"} =>
        job[c].sel \in Selections /\ job[c].i \in 1 .. NodeCount

Types == TableTypes /\ DiskTypes /\ TaskTypes /\ CountTypes /\ Chosen

\* Tasks and units are on nodes that run.
Places ==
    /\ \A n \in Nodes : req[n].pc # "idle" => n \in up
    /\ \A n \in Nodes : dep[n].pc # "idle" => n \in up /\ dep[n].c \in Clusters
    /\ \A n \in Nodes : restore[n].pc # "idle" => n \in up
    /\ \A n \in Nodes, k \in Kinds : svc[n][k] # None => n \in up

\* The map admits one goroutine per manager.
Locks ==
    /\ \A c \in JobsLive : job[c].at \in Nodes /\ job[c].at \in lock /\ job[c].at \in up
                           /\ c < next
    /\ \A n \in Nodes : req[n].pc = "insert" =>
          n \in lock /\ \A c \in JobsLive : job[c].at # n
    /\ OneGoroutine

\* Names of clusters are used once.
Used ==
    /\ cluster # None => cluster < next
    /\ \A n \in Nodes : req[n].c < next /\ dep[n].c < next /\ file[n].c < next
                        /\ restore[n].c < next
    /\ \A n \in Nodes : req[n].pc \in {"drop", "free"} => req[n].c \in Clusters

\* A goroutine that lives has not settled the record yet.
Open ==
    /\ status = "none" <=> cluster = None
    /\ \A c \in JobsLive : cluster = c => status \in {"provisioning", "deprovisioning"}

Record == Used /\ Open

\* The first layer as a whole.
Firm == Types /\ Places /\ Locks /\ Record /\ Strayed

-----------------------------------------------------------------------------
(* The second layer: one task at a time, and what it has done so far. *)

Upto(s, i) == {s[j] : j \in 1 .. i - 1}
All(s) == Upto(s, NodeCount + 1)
Done(c) == Upto(job[c].sel, job[c].i)
Team(c) == All(job[c].sel)
Current(c) == job[c].sel[job[c].i]

Alone ==
    /\ \A c \in JobsLive : c = cluster /\ status = "provisioning" /\ ~job[c].expired
    /\ \A c \in JobsLive, n \in Nodes : dep[n].pc = "idle" /\ restore[n].pc = "idle"
    /\ \A n \in Nodes : dep[n].pc # "idle" =>
          /\ ~dep[n].cut /\ cluster \in {None, dep[n].c}
          /\ \A m \in Nodes : restore[m].pc = "idle" /\ (dep[m].pc # "idle" => m = n)
    /\ \A m, n \in Nodes : restore[m].pc # "idle" /\ restore[n].pc # "idle" => m = n
    /\ status = "provisioning" => cluster \in JobsLive
    /\ status = "deprovisioning" => Removing

\* A request replaces failed clusters only.
Replacing == \A n \in Nodes : req[n].pc \in {"drop", "free"} =>
    /\ cluster = req[n].c => status \in {"failed", "deprovisioning"}
    /\ \A m \in Nodes : file[m].c # req[n].c

HasRow(n, c) == \E k \in Kinds : <<c, n, k>> \in rows

\* A state file is of the cluster that is ready, or of an earlier one whose rows
\* are gone.
Files == \A n \in Nodes : file[n] # NoFile =>
    /\ file[n].c # None /\ file[n].gw
    /\ \/ file[n].c = cluster /\ status \in {"ready", "deprovisioning"}
       \/ file[n].c # cluster /\ \A m \in Nodes : ~HasRow(m, file[n].c)

Idle(n) == n \in up /\ restore[n].pc = "idle"

\* Units gone astray are left out of account.
NoUnits == \A n \in Nodes, k \in Kinds : svc[n][k] = None \/ k \in astray[n]

\* No cluster, or one that failed.
Clean ==
    /\ ports = {} /\ dns = {} /\ NoUnits
    /\ \A n \in Nodes : Idle(n) => file[n] = NoFile

Team0 == {n \in Nodes : <<cluster, n>> \in ports}

\* A cluster that is ready.
Served ==
    /\ \A p \in ports : p[1] = cluster
    /\ Cardinality(Team0) = NodeCount
    /\ dns = Team0
    /\ \A n \in Team0, k \in Kinds : <<cluster, n, k>> \in rows
    /\ \A n \in Nodes, k \in Kinds :
          /\ svc[n][k] = None \/ k \in astray[n] \/ n \in Team0
          /\ n \in Team0 /\ Idle(n) => svc[n][k] = cluster \/ k \in astray[n]
    /\ \A n \in Nodes :
          /\ n \in Team0 \/ Idle(n) => file[n] = NoFile \/ file[n].c = cluster
          /\ file[n].c = cluster => n \in Team0

Standing ==
    /\ status \in {"none", "failed"} /\ ~Removing => Clean
    /\ status = "ready" /\ ~Removing => Served

\* What a restore has found and started.
RestoreHas(n) ==
    /\ restore[n].pc # "idle" => astray[n] = {}
    /\ restore[n].pc \in {"disk", "query", "ports", "rqlite"} =>
          \A k \in Kinds : svc[n][k] = None
    /\ restore[n].pc \in {"query", "ports"} => file[n] = NoFile
    /\ restore[n].pc = "ports" => ~restore[n].disk
    /\ restore[n].pc \notin {"idle", "disk", "query"} =>
          status = "ready" /\ restore[n].c = cluster
    /\ restore[n].pc \in {"rqlite", "olric", "gateway", "save"} =>
          /\ <<cluster, n>> \in ports /\ restore[n].gw
          /\ IF restore[n].disk THEN file[n].c = cluster ELSE file[n] = NoFile
    /\ restore[n].pc \in {"olric", "gateway", "save"} => svc[n]["rqlite"] = cluster
    /\ restore[n].pc = "olric" => svc[n]["olric"] = None
    /\ restore[n].pc \in {"olric", "gateway"} => svc[n]["gateway"] = None
    /\ restore[n].pc \in {"gateway", "save"} => svc[n]["olric"] = cluster
    /\ restore[n].pc = "save" => svc[n]["gateway"] = cluster /\ ~restore[n].disk

Restoring == \A n \in Nodes : RestoreHas(n)

-----------------------------------------------------------------------------
(* What a goroutine has built. *)

PortsAre(c, team) == ports = {c} \X team
Recorded(c, k, team) == \A n \in team : <<c, n, k>> \in rows
UnitsAre(c, k, team) ==
    \A n \in Nodes : k \in astray[n] \/ svc[n][k] = IF n \in team THEN c ELSE None
UnitsWithin(k, team) ==
    \A n \in Nodes : k \in astray[n] \/ svc[n][k] = None \/ n \in team

PortsBuilt(c) ==
    /\ job[c].pc \in {"select", "failed"} => ports = {}
    /\ job[c].pc = "allocate" => PortsAre(c, Done(c))
    /\ job[c].pc = "release" => PortsAre(c, job[c].todo)
    /\ job[c].pc \notin {"select", "failed", "allocate", "release"} => PortsAre(c, Team(c))

DNSBuilt(c) ==
    /\ job[c].pc = "dns_insert" => dns = Done(c)
    /\ job[c].pc = "ready" => dns = Team(c)
    /\ job[c].pc \notin {"dns_insert", "ready"} => dns = {}
    /\ job[c].pc = "dns" => Done(c) = {}

RowsBuilt(c) ==
    /\ job[c].pc \in {"rqlite", "record_rqlite"} => Recorded(c, "rqlite", Done(c))
    /\ job[c].pc \in {"olric", "record_olric", "gateway", "record_gateway",
                      "dns", "dns_insert", "ready"} => Recorded(c, "rqlite", Team(c))
    /\ job[c].pc = "record_olric" => Recorded(c, "olric", Done(c))
    /\ job[c].pc \in {"gateway", "record_gateway", "dns", "dns_insert", "ready"} =>
          Recorded(c, "olric", Team(c))
    /\ job[c].pc \in {"gateway", "record_gateway"} => Recorded(c, "gateway", Done(c))
    /\ job[c].pc \in {"dns", "dns_insert", "ready"} => Recorded(c, "gateway", Team(c))

\* On the way forward the units are known exactly.
UnitsBuilt(c) ==
    /\ job[c].pc \in {"select", "allocate", "rqlite"} => job[c].bad = {}
    /\ job[c].pc = "record_rqlite" => job[c].bad = {}
    /\ job[c].pc \in {"select", "allocate", "release", "free_ports", "failed"} => NoUnits
    /\ job[c].pc = "rqlite" => UnitsAre(c, "rqlite", Done(c))
    /\ job[c].pc = "record_rqlite" => UnitsAre(c, "rqlite", Done(c) \cup {Current(c)})
    /\ job[c].pc \in {"olric", "record_olric", "gateway", "record_gateway",
                      "dns", "dns_insert", "ready"} => UnitsAre(c, "rqlite", Team(c))
    /\ job[c].pc \in {"rqlite", "record_rqlite"} => UnitsAre(c, "olric", {})
    /\ job[c].pc = "olric" =>
          /\ Done(c) = {} /\ job[c].todo \subseteq Team(c) \ job[c].bad
          /\ UnitsAre(c, "olric", Team(c) \ (job[c].todo \cup job[c].bad))
    /\ job[c].pc \in {"record_olric", "gateway", "record_gateway",
                      "dns", "dns_insert", "ready"} => UnitsAre(c, "olric", Team(c))
    /\ job[c].pc \in {"rqlite", "record_rqlite", "olric", "record_olric"} =>
          UnitsAre(c, "gateway", {})
    /\ job[c].pc = "gateway" => UnitsAre(c, "gateway", Done(c))
    /\ job[c].pc = "record_gateway" => UnitsAre(c, "gateway", Done(c) \cup {Current(c)})
    /\ job[c].pc \in {"dns", "dns_insert", "ready"} => UnitsAre(c, "gateway", Team(c))

\* On the way back no unit is left that the phases to come do not stop.
UnitsUndone(c) ==
    /\ job[c].pc = "stop_started" => UnitsWithin(job[c].kind, job[c].todo)
    /\ job[c].pc = "stop_all" => UnitsWithin(job[c].kind, {})
    /\ job[c].pc \in {"stop_started", "stop_all"} =>
          /\ job[c].kind = "rqlite" => UnitsWithin("olric", {})
          /\ job[c].kind # "gateway" => UnitsWithin("gateway", {})
    /\ job[c].pc \in {"stop_started", "stop_all", "stop_olric", "stop_rqlite"} =>
          UnitsWithin("rqlite", Team(c)) /\ UnitsWithin("olric", Team(c))
    /\ job[c].pc = "stop_olric" => UnitsWithin("olric", job[c].todo)
    /\ job[c].pc = "stop_rqlite" =>
          UnitsWithin("rqlite", job[c].todo) /\ UnitsWithin("olric", {})
    /\ job[c].pc \in {"stop_olric", "stop_rqlite"} => UnitsWithin("gateway", {})

Built(c) == PortsBuilt(c) /\ DNSBuilt(c) /\ RowsBuilt(c) /\ UnitsBuilt(c) /\ UnitsUndone(c)

Building == \A c \in JobsLive :
    /\ Built(c)
    /\ \A n \in Nodes : file[n].c # c /\ (n \in up => file[n] = NoFile)

-----------------------------------------------------------------------------
(* What a removal has left. *)

Leaves(p) ==
    LET c == dep[p].c
        left == IF dep[p].pc \in {"mark", "nodes"} THEN {n \in Nodes : HasRow(n, c)}
                ELSE dep[p].on
    IN  /\ \A x \in ports : x[1] = c
        /\ \A n \in Nodes, k \in Kinds : svc[n][k] = None \/ k \in astray[n] \/ n \in left
        /\ \A n \in up : file[n] # NoFile => n \in left
        /\ dep[p].pc = "gateway" => UnitsWithin("gateway", dep[p].todo)
        /\ dep[p].pc \notin {"mark", "nodes", "gateway"} => UnitsWithin("gateway", {})
        /\ dep[p].pc = "olric" => UnitsWithin("olric", dep[p].todo)
        /\ dep[p].pc \notin {"mark", "nodes", "gateway", "olric"} => UnitsWithin("olric", {})
        /\ dep[p].pc = "rqlite" => UnitsWithin("rqlite", dep[p].todo)
        /\ dep[p].pc \notin {"mark", "nodes", "gateway", "olric", "rqlite"} =>
              UnitsWithin("rqlite", {})
        /\ dep[p].pc = "file" => \A n \in up : file[n] # NoFile => n \in dep[p].todo
        /\ dep[p].pc \in {"ports", "dns", "rows", "ports2", "delete"} =>
              \A n \in up : file[n] = NoFile
        /\ dep[p].pc \in {"rows", "ports2", "delete"} => dns = {}
        /\ dep[p].pc \in {"ports2", "delete"} => \A n \in Nodes : ~HasRow(n, c)
        /\ dep[p].pc = "delete" => ports = {}

Leaving == \A p \in Nodes : dep[p].pc # "idle" => Leaves(p)

\* The second layer as a whole, and both.
Undisturbed ==
    Alone /\ Replacing /\ Files /\ Standing /\ Restoring /\ Building /\ Leaving

CalmInv == calm => Undisturbed

IInv == Firm /\ CalmInv
-----------------------------------------------------------------------------
(* Constants, and the nodes of a selection. *)

\* What the proofs use of the assumption on the constants.
LEMMA Constants ==
    /\ IsFiniteSet(Nodes)
    /\ NodeCount \in Nat /\ NodeCount >= 1
    /\ MaxClusters \in Nat /\ MaxRemovals \in Nat /\ MaxFailures \in Nat /\ MaxCrashes \in Nat
    /\ None = 0 /\ None \notin Clusters /\ Clusters \subseteq Nat
BY ProvisioningAssumption, FS_CardinalityType DEF None, Clusters

\* A loop over the selected nodes deals with them one at a time, and with all.
LEMMA UptoFacts ==
    ASSUME NEW s \in Selections, NEW i \in 1 .. NodeCount
    PROVE  /\ s[i] \in Nodes /\ s[i] \in All(s) /\ s[i] \notin Upto(s, i)
           /\ Upto(s, 1) = {}
           /\ Upto(s, i) \subseteq All(s) /\ All(s) \subseteq Nodes
           /\ Upto(s, i + 1) = Upto(s, i) \cup {s[i]}
           /\ i = NodeCount => All(s) = Upto(s, i) \cup {s[i]}
           /\ i = 1 => Upto(s, i) = {}
<1> s \in [1 .. NodeCount -> Nodes] /\ \A j, k \in 1 .. NodeCount : j # k => s[j] # s[k]
  BY DEF Selections
<1> NodeCount \in Nat /\ i \in Nat
  BY Constants
<1> QED
  BY DEF Upto, All

\* Every node of a selection counts.
LEMMA AllCounted ==
    ASSUME NEW s \in Selections
    PROVE  Cardinality(All(s)) = NodeCount
<1> DEFINE I == 1 .. NodeCount
<1>1. NodeCount \in Nat /\ IsFiniteSet(I) /\ Cardinality(I) = NodeCount
  BY Constants, FS_Interval
<1>2. s \in Bijection(I, All(s))
  <2>1. s \in [I -> Nodes] /\ \A j, k \in I : j # k => s[j] # s[k]
    BY DEF Selections
  <2>2. All(s) = {s[j] : j \in I}
    BY <1>1 DEF All, Upto
  <2> QED
    BY <2>1, <2>2 DEF Bijection, Injection, Surjection, IsInjective
<1> QED
  BY <1>1, <1>2, FS_Bijection DEF ExistsBijection

\* The names used here and the names of the model.
LEMMA Names ==
    ASSUME NEW c \in Clusters
    PROVE  Members(c) = Team(c) /\ Before(c) = Done(c) /\ Node(c) = Current(c)
BY Constants DEF Members, Before, Node, Team, Done, Current, All, Upto

\* The nodes of a goroutine that has selected them.
LEMMA TeamFacts ==
    ASSUME Types, NEW c \in Clusters,
           job[c].pc \notin {"none", "done", "select", "failed"}
    PROVE  /\ Current(c) \in Nodes /\ Current(c) \in Team(c) /\ Current(c) \notin Done(c)
           /\ Done(c) \subseteq Team(c) /\ Team(c) \subseteq Nodes
           /\ job[c].sel \in Selections /\ job[c].i \in 1 .. NodeCount
           /\ job[c].i = 1 => Done(c) = {}
<1>1. job[c].sel \in Selections /\ job[c].i \in 1 .. NodeCount
  BY DEF Types, Chosen
<1> QED
  BY <1>1, UptoFacts DEF Current, Team, Done

\* Goroutines stay typed.
LEMMA JobTyped ==
    ASSUME NEW j \in JobTypes, NEW p \in JobPhases
    PROVE  /\ \A i \in 0 .. NodeCount : [j EXCEPT !.pc = p, !.i = i] \in JobTypes
           /\ \A i \in 0 .. NodeCount, t \in SUBSET Nodes :
                 [j EXCEPT !.pc = p, !.i = i, !.todo = t] \in JobTypes
           /\ \A t \in SUBSET Nodes :
                 [j EXCEPT !.pc = p, !.todo = t, !.expired = FALSE] \in JobTypes
           /\ \A i \in 0 .. NodeCount, s \in SomeSelection :
                 [j EXCEPT !.pc = p, !.sel = s, !.i = i] \in JobTypes
           /\ \A t \in SUBSET Nodes, k \in Kinds :
                 /\ [j EXCEPT !.kind = k, !.todo = t, !.pc = p] \in JobTypes
                 /\ [j EXCEPT !.todo = t, !.bad = {}, !.kind = k, !.pc = p] \in JobTypes
           /\ \A t, b \in SUBSET Nodes : [j EXCEPT !.todo = t, !.bad = b] \in JobTypes
           /\ \A t \in SUBSET Nodes : /\ [j EXCEPT !.todo = t, !.pc = p] \in JobTypes
                                     /\ [j EXCEPT !.pc = p, !.todo = t] \in JobTypes
           /\ [j EXCEPT !.expired = TRUE] \in JobTypes
BY DEF JobTypes

\* What the ways a goroutine moves on come to.
Moves(c) ==
    /\ job' \in [Clusters -> JobTypes]
    /\ \A d \in Clusters \ {c} : job'[d] = job[d]
    /\ job'[c].at = job[c].at

\* The same selection is at work, at the same node.
SamePlace(c) ==
    /\ job'[c].sel = job[c].sel /\ job'[c].i = job[c].i
    /\ Team(c)' = Team(c) /\ Done(c)' = Done(c) /\ Current(c)' = Current(c)

Advanced(c, pc, done) ==
    /\ Moves(c)
    /\ job'[c].sel = job[c].sel /\ job'[c].i \in 1 .. NodeCount
    /\ job'[c].bad = job[c].bad /\ job'[c].expired = job[c].expired
    /\ Team(c)' = Team(c)
    /\ \/ /\ job'[c].pc = pc /\ job'[c].todo = job[c].todo
          /\ Done(c)' = Done(c) \cup {Current(c)}
       \/ /\ job'[c].pc = done /\ job'[c].todo = Team(c) /\ Done(c)' = {}
          /\ Team(c) = Done(c) \cup {Current(c)}

Went(c, pc, todo) ==
    /\ Moves(c) /\ SamePlace(c)
    /\ job'[c].pc = pc /\ job'[c].todo = todo
    /\ job'[c].bad = job[c].bad /\ job'[c].kind = job[c].kind
    /\ job'[c].expired = job[c].expired

Answered(c, n, bad) ==
    /\ Moves(c) /\ SamePlace(c)
    /\ job'[c].expired = job[c].expired
    /\ \/ /\ job'[c].pc = "olric" /\ job'[c].todo = job[c].todo \ {n} /\ job'[c].bad = bad
       \/ /\ job'[c].pc = "record_olric" /\ job[c].todo \subseteq {n} /\ bad = {}
          /\ job'[c].bad = job[c].bad
       \/ /\ job'[c].pc = "stop_started" /\ job'[c].todo = Team(c) \ bad
          /\ job[c].todo \subseteq {n} /\ job'[c].kind = "olric"
       \/ /\ job'[c].pc = "stop_all" /\ Team(c) \subseteq bad
          /\ job[c].todo \subseteq {n} /\ job'[c].kind = "olric"

\* A goroutine that is done with a node comes to the next one, or to the next phase.
LEMMA AdvanceFacts ==
    ASSUME Types, NEW c \in Clusters,
           job[c].pc \notin {"none", "done", "select", "failed"},
           NEW pc \in JobPhases, NEW done \in JobPhases, Advance(c, pc, done)
    PROVE  Advanced(c, pc, done)
<1> DEFINE s == job[c].sel
           i == job[c].i
           more == [job[c] EXCEPT !.pc = pc, !.i = i + 1]
           last == [job[c] EXCEPT !.pc = done, !.i = 1, !.todo = Members(c)]
<1>1. s \in Selections /\ i \in 1 .. NodeCount /\ Team(c) \subseteq Nodes
      /\ job[c] \in JobTypes /\ job \in [Clusters -> JobTypes] /\ NodeCount \in Nat
      /\ Members(c) = Team(c)
  BY TeamFacts, Constants, Names DEF Types, TaskTypes
<1>2. job' = [job EXCEPT ![c] = IF i < NodeCount THEN more ELSE last]
  BY DEF Advance
<1>3. CASE i < NodeCount
  <2>1. job' = [job EXCEPT ![c] = more] /\ more \in JobTypes /\ i + 1 \in 1 .. NodeCount
    <3>1. job' = [job EXCEPT ![c] = more] /\ i + 1 \in 1 .. NodeCount
      BY <1>1, <1>2, <1>3
    <3>2. job[c] \in JobTypes /\ i + 1 \in 0 .. NodeCount
      BY <1>1, <3>1
    <3>3. more \in JobTypes
      BY <3>2, JobTyped
    <3> QED
      BY <3>1, <3>3
  <2>2. job'[c] = more /\ more.sel = s /\ more.i = i + 1
    BY <1>1, <2>1 DEF JobTypes
  <2>3. Done(c)' = Done(c) \cup {Current(c)} /\ Team(c)' = Team(c)
    BY <1>1, <2>2, UptoFacts DEF Done, Current, Team
  <2> QED
    BY <1>1, <2>1, <2>2, <2>3 DEF JobTypes, Advanced, Moves
<1>4. CASE ~(i < NodeCount)
  <2>1. job' = [job EXCEPT ![c] = last] /\ last \in JobTypes /\ i = NodeCount
    <3>1. job' = [job EXCEPT ![c] = last] /\ i = NodeCount
      BY <1>1, <1>2, <1>4
    <3>2. job[c] \in JobTypes /\ Members(c) \in SUBSET Nodes /\ 1 \in 0 .. NodeCount
      BY <1>1, Constants
    <3>3. last \in JobTypes
      BY <3>2, JobTyped
    <3> QED
      BY <3>1, <3>3
  <2>2. job'[c] = last /\ last.sel = s /\ last.i = 1
    BY <1>1, <2>1 DEF JobTypes
  <2>3. /\ Done(c)' = {} /\ Team(c)' = Team(c)
        /\ Team(c) = Done(c) \cup {Current(c)}
    BY <1>1, <2>1, <2>2, UptoFacts DEF Done, Current, Team
  <2> QED
    BY <1>1, <2>1, <2>2, <2>3, Constants DEF JobTypes, Advanced, Moves
<1> QED
  BY <1>3, <1>4

\* A goroutine that goes to another phase keeps its selection.
LEMMA GoFacts ==
    ASSUME Types, NEW c \in Clusters, NEW pc \in JobPhases, NEW todo \in SUBSET Nodes,
           Go(c, pc, todo)
    PROVE  Went(c, pc, todo)
<1> DEFINE new == [job[c] EXCEPT !.pc = pc, !.todo = todo]
<1>1. job[c] \in JobTypes /\ job \in [Clusters -> JobTypes]
  BY DEF Types, TaskTypes
<1>2. new \in JobTypes
  <2>1. job[c] \in JobTypes
    BY <1>1
  <2> QED
    BY <2>1, JobTyped
<1>3. job' = [job EXCEPT ![c] = new]
  BY <1>1 DEF Go
<1>4. job' \in [Clusters -> JobTypes] /\ job'[c] = new /\ \A d \in Clusters \ {c} : job'[d] = job[d]
  BY <1>1, <1>2, <1>3
<1>5. /\ new.pc = pc /\ new.todo = todo /\ new.sel = job[c].sel /\ new.i = job[c].i
      /\ new.at = job[c].at /\ new.bad = job[c].bad /\ new.kind = job[c].kind
      /\ new.expired = job[c].expired
  BY <1>1 DEF JobTypes
<1> QED
  BY <1>4, <1>5 DEF Went, Moves, SamePlace, Team, Done, Current

\* An answer of Olric's start ticks off its node.
LEMMA AnswerFacts ==
    ASSUME Types, NEW c \in Clusters, job[c].pc = "olric",
           NEW n \in job[c].todo, NEW failed \in BOOLEAN, OlricAnswers(c, n, failed)
    PROVE  Answered(c, n, IF failed THEN job[c].bad \cup {n} ELSE job[c].bad)
<1> DEFINE left == job[c].todo \ {n}
           bad == IF failed THEN job[c].bad \cup {n} ELSE job[c].bad
           started == Members(c) \ bad
           waits == [job[c] EXCEPT !.todo = left, !.bad = bad]
           fine == [job[c] EXCEPT !.todo = {}, !.pc = "record_olric"]
           back(pc) == [job[c] EXCEPT !.todo = started, !.bad = {}, !.kind = "olric",
                                      !.pc = pc]
           new == IF left # {} THEN waits ELSE IF bad = {} THEN fine
                  ELSE back(IF started = {} THEN "stop_all" ELSE "stop_started")
<1>1. job[c] \in JobTypes /\ job \in [Clusters -> JobTypes] /\ Members(c) = Team(c)
      /\ Team(c) \subseteq Nodes
  BY Names, TeamFacts DEF Types, TaskTypes
<1>2. /\ left \in SUBSET Nodes /\ bad \in SUBSET Nodes /\ started \in SUBSET Nodes
      /\ {"record_olric", "stop_all", "stop_started"} \subseteq JobPhases
      /\ "olric" \in Kinds /\ {} \in SUBSET Nodes
  BY <1>1 DEF JobTypes, JobPhases, Kinds
<1>3. job[c] \in JobTypes
  BY <1>1
<1>4. waits \in JobTypes /\ fine \in JobTypes /\ back("stop_all") \in JobTypes
      /\ back("stop_started") \in JobTypes
  BY <1>2, <1>3, JobTyped
<1>5. new \in {waits, fine, back("stop_all"), back("stop_started")}
  OBVIOUS
<1>6. job' = [job EXCEPT ![c] = new]
  BY <1>1 DEF OlricAnswers
<1>7. job' \in [Clusters -> JobTypes] /\ job'[c] = new /\ \A d \in Clusters \ {c} : job'[d] = job[d]
  BY <1>1, <1>4, <1>5, <1>6
<1>8. /\ new.sel = job[c].sel /\ new.i = job[c].i /\ new.at = job[c].at
      /\ new.expired = job[c].expired
  BY <1>3, <1>5 DEF JobTypes
<1>9. Moves(c) /\ SamePlace(c) /\ job'[c].expired = job[c].expired
  BY <1>7, <1>8 DEF Moves, SamePlace, Team, Done, Current
<1>10. CASE left # {}
  <2>1. job'[c].pc = "olric" /\ job'[c].todo = left /\ job'[c].bad = bad
    BY <1>3, <1>7, <1>10 DEF JobTypes
  <2> QED
    BY <1>9, <2>1 DEF Answered
<1>11. CASE left = {} /\ bad = {}
  <2>1. job'[c].pc = "record_olric" /\ job'[c].bad = job[c].bad
    BY <1>3, <1>7, <1>11 DEF JobTypes
  <2> QED
    BY <1>9, <1>11, <2>1 DEF Answered
<1>12. CASE left = {} /\ bad # {} /\ started = {}
  <2>1. job'[c].pc = "stop_all" /\ job'[c].kind = "olric"
    BY <1>3, <1>7, <1>12 DEF JobTypes
  <2> QED
    BY <1>1, <1>9, <1>12, <2>1 DEF Answered
<1>13. CASE left = {} /\ bad # {} /\ started # {}
  <2>1. job'[c].pc = "stop_started" /\ job'[c].kind = "olric" /\ job'[c].todo = started
    BY <1>3, <1>7, <1>13 DEF JobTypes
  <2> QED
    BY <1>1, <1>9, <1>13, <2>1 DEF Answered
<1> QED
  BY <1>10, <1>11, <1>12, <1>13

\* Starting and stopping units keeps them typed.
LEMMA UnitsTyped ==
    ASSUME DiskTypes, NEW n \in Nodes, NEW k \in Kinds, NEW c \in Clusters \cup {None},
           \/ StartService(n, k, c) \/ StartUnconfirmed(n, k, c)
           \/ StopService(n, k) \/ StopAll(n) \/ UNCHANGED svc
    PROVE  svc' \in [Nodes -> [Kinds -> Clusters \cup {None}]]
<1>1. svc \in [Nodes -> [Kinds -> Clusters \cup {None}]]
  BY DEF DiskTypes
<1>2. svc[n] \in [Kinds -> Clusters \cup {None}]
  BY <1>1
<1> QED
  BY <1>1, <1>2 DEF StartService, StartUnconfirmed, StopService, StopAll

\* The phases of a rollback.
LEMMA AfterFacts ==
    ASSUME Types, NEW c \in Clusters
    PROVE  /\ job[c].pc = "stop_started" => AfterPhase(c) = "stop_all"
           /\ job[c].pc = "stop_all" =>
                 /\ job[c].kind = "rqlite" => AfterPhase(c) = "free_ports"
                 /\ job[c].kind = "olric" => AfterPhase(c) = "stop_rqlite"
                 /\ job[c].kind = "gateway" => AfterPhase(c) = "stop_olric"
           /\ job[c].pc = "stop_olric" => AfterPhase(c) = "stop_rqlite"
           /\ job[c].pc = "stop_rqlite" => AfterPhase(c) = "free_ports"
           /\ job[c].pc \in {"release", "free_ports"} => AfterPhase(c) = "failed"
           /\ job[c].kind \in {"rqlite", "olric", "gateway"}
BY DEF Types, TaskTypes, JobTypes, Kinds, AfterPhase, RollbackFrom, At

\* A node that is undone is ticked off, and after the last one the next phase comes.
LEMMA UndoneFacts ==
    ASSUME Types, NEW c \in Clusters, NEW n,
           job[c].pc \in {"stop_started", "stop_olric", "stop_rqlite", "release"},
           Undone(c, n)
    PROVE  \/ Went(c, job[c].pc, job[c].todo \ {n})
           \/ job[c].todo \subseteq {n} /\ Went(c, AfterPhase(c), Team(c))
<1>1. job[c].todo \ {n} \in SUBSET Nodes /\ job[c].pc \in JobPhases
  BY DEF Types, TaskTypes, JobTypes
<1>2. AfterPhase(c) \in JobPhases
  BY AfterFacts DEF JobPhases
<1>3. Members(c) = Team(c) /\ Team(c) \in SUBSET Nodes
  BY Names, TeamFacts
<1>4. CASE job[c].todo \ {n} # {}
  BY <1>1, <1>4, GoFacts DEF Undone
<1>5. CASE job[c].todo \ {n} = {}
  <2>1. Go(c, AfterPhase(c), Team(c))
    BY <1>3, <1>5 DEF Undone
  <2> QED
    BY <1>2, <1>3, <1>5, <2>1, GoFacts
<1> QED
  BY <1>4, <1>5

\* A selection starts the allocation at its first node.
LEMMA SelectFacts ==
    ASSUME Types, NEW c \in Clusters, NEW s \in Selections,
           job' = [job EXCEPT ![c].pc = "allocate", ![c].sel = s, ![c].i = 1]
    PROVE  /\ Moves(c)
           /\ job'[c].pc = "allocate" /\ job'[c].sel \in Selections
           /\ job'[c].i \in 1 .. NodeCount
           /\ job'[c].bad = job[c].bad /\ job'[c].expired = job[c].expired
           /\ Done(c)' = {}
<1> DEFINE new == [job[c] EXCEPT !.pc = "allocate", !.sel = s, !.i = 1]
<1>1. job[c] \in JobTypes /\ job \in [Clusters -> JobTypes]
  BY DEF Types, TaskTypes
<1>2. new \in JobTypes
  <2>1. /\ job[c] \in JobTypes /\ 1 \in 0 .. NodeCount /\ s \in SomeSelection
        /\ "allocate" \in JobPhases
    BY <1>1, Constants DEF SomeSelection, JobPhases
  <2> QED
    BY <2>1, JobTyped
<1>3. job' = [job EXCEPT ![c] = new]
  BY <1>1
<1>4. job' \in [Clusters -> JobTypes] /\ job'[c] = new /\ \A d \in Clusters \ {c} : job'[d] = job[d]
  BY <1>1, <1>2, <1>3
<1>5. /\ new.pc = "allocate" /\ new.sel = s /\ new.i = 1 /\ new.at = job[c].at
      /\ new.bad = job[c].bad /\ new.expired = job[c].expired
  BY <1>1 DEF JobTypes
<1>6. 1 \in 1 .. NodeCount /\ Upto(s, 1) = {}
  BY Constants, UptoFacts
<1> QED
  BY <1>4, <1>5, <1>6 DEF Moves, Done

\* A spawn that fails has the nodes started so far stopped, or all of them.
LEMMA SpawnFailsFacts ==
    ASSUME Types, NEW c \in Clusters, NEW kind \in Kinds, SpawnFails(c, kind),
           job[c].pc \in Kinds
    PROVE  /\ Moves(c) /\ SamePlace(c)
           /\ job'[c].kind = kind /\ job'[c].todo = Done(c)
           /\ job'[c].expired = job[c].expired
           /\ \/ job'[c].pc = "stop_all" /\ Done(c) = {}
              \/ job'[c].pc = "stop_started"
<1> DEFINE pc == IF Before(c) = {} THEN "stop_all" ELSE "stop_started"
           new == [job[c] EXCEPT !.kind = kind, !.todo = Before(c), !.pc = pc]
<1>1. job[c] \in JobTypes /\ job \in [Clusters -> JobTypes]
      /\ Before(c) = Done(c) /\ Done(c) \subseteq Nodes
  BY Names, TeamFacts DEF Types, TaskTypes, Kinds
<1>2. new \in JobTypes
  <2>1. job[c] \in JobTypes /\ Before(c) \in SUBSET Nodes /\ pc \in JobPhases
    BY <1>1 DEF JobPhases
  <2> QED
    BY <2>1, JobTyped
<1>3. job' = [job EXCEPT ![c] = new]
  BY <1>1 DEF SpawnFails
<1>4. job' \in [Clusters -> JobTypes] /\ job'[c] = new /\ \A d \in Clusters \ {c} : job'[d] = job[d]
  BY <1>1, <1>2, <1>3
<1>5. /\ new.pc = pc /\ new.todo = Before(c) /\ new.kind = kind /\ new.at = job[c].at
      /\ new.sel = job[c].sel /\ new.i = job[c].i /\ new.expired = job[c].expired
  BY <1>1 DEF JobTypes
<1> QED
  BY <1>1, <1>4, <1>5 DEF Moves, SamePlace, Done, Team, Current

\* A goroutine that is over.
Over(c) ==
    /\ job' \in [Clusters -> JobTypes]
    /\ job'[c].pc = "done"
    /\ \A d \in Clusters \ {c} : job'[d] = job[d]

\* A goroutine that has not started, or is over, is well typed.
LEMMA NoJobTyped == NoJob \in JobTypes /\ [NoJob EXCEPT !.pc = "done"] \in JobTypes
<1>1. /\ <<>> \in SomeSelection /\ 0 \in 0 .. NodeCount /\ {} \in SUBSET Nodes
      /\ "none" \in JobPhases /\ "done" \in JobPhases /\ "rqlite" \in Kinds
      /\ None \in Nodes \cup {None}
  BY Constants DEF SomeSelection, JobPhases, Kinds
<1> HIDE DEF None
<1>2. NoJob \in JobTypes
  BY <1>1 DEF NoJob, JobTypes
<1> QED
  BY <1>1, <1>2 DEF JobTypes

\* A goroutine that settles is over.
LEMMA SettleFacts ==
    ASSUME Types, NEW c \in Clusters,
           job' = [job EXCEPT ![c] = [NoJob EXCEPT !.pc = "done"]]
    PROVE  Over(c)
BY NoJobTyped DEF Types, TaskTypes, Over, NoJob

\* A goroutine that panics comes to the handling of a failure.
LEMMA PanicFacts ==
    ASSUME Types, NEW c \in Clusters, Panic(c)
    PROVE  Moves(c) /\ job'[c].pc = "failed"
<1> DEFINE new == [job[c] EXCEPT !.pc = "failed", !.todo = {}, !.expired = FALSE]
<1>1. job[c] \in JobTypes /\ job \in [Clusters -> JobTypes]
  BY DEF Types, TaskTypes
<1>2. new \in JobTypes
  <2>1. job[c] \in JobTypes /\ {} \in SUBSET Nodes /\ "failed" \in JobPhases
    BY <1>1 DEF JobPhases
  <2> QED
    BY <2>1, JobTyped
<1>3. job' = [job EXCEPT ![c] = new]
  BY <1>1 DEF Panic
<1>4. job' \in [Clusters -> JobTypes] /\ job'[c] = new /\ \A d \in Clusters \ {c} : job'[d] = job[d]
  BY <1>1, <1>2, <1>3
<1> QED
  BY <1>1, <1>4 DEF Moves, JobTypes

\* A deadline that expires leaves the goroutine where it is.
LEMMA ExpireFacts ==
    ASSUME Types, NEW c \in Clusters, Expire(c)
    PROVE  Moves(c) /\ SamePlace(c) /\ job'[c].pc = job[c].pc
<1> DEFINE new == [job[c] EXCEPT !.expired = TRUE]
<1>1. job[c] \in JobTypes /\ job \in [Clusters -> JobTypes]
  BY DEF Types, TaskTypes
<1>2. new \in JobTypes
  <2>1. job[c] \in JobTypes /\ job[c].pc \in JobPhases
    BY <1>1 DEF JobTypes
  <2> QED
    BY <2>1, JobTyped
<1>3. job' = [job EXCEPT ![c] = new]
  BY <1>1 DEF Expire
<1>4. job' \in [Clusters -> JobTypes] /\ job'[c] = new /\ \A d \in Clusters \ {c} : job'[d] = job[d]
  BY <1>1, <1>2, <1>3
<1>5. new.pc = job[c].pc /\ new.at = job[c].at /\ new.sel = job[c].sel /\ new.i = job[c].i
  BY <1>1 DEF JobTypes
<1> QED
  BY <1>4, <1>5 DEF Moves, SamePlace, Done, Team, Current

\* A goroutine that begins.
LEMMA InsertFacts ==
    ASSUME Types, NEW n \in Nodes, InsertCluster(n)
    PROVE  /\ next \in Clusters /\ job' \in [Clusters -> JobTypes]
           /\ \A d \in Clusters \ {next} : job'[d] = job[d]
           /\ job'[next].pc = "select" /\ job'[next].at = n
           /\ ~job'[next].expired /\ job'[next].bad = {}
<1> DEFINE new == [NoJob EXCEPT !.pc = "select", !.at = n]
<1>1. new \in JobTypes
  BY NoJobTyped DEF JobTypes, JobPhases
<1>2. job \in [Clusters -> JobTypes]
  BY DEF Types, TaskTypes
<1>3. next \in Clusters /\ job' = [job EXCEPT ![next] = new]
  BY DEF InsertCluster
<1>4. new.pc = "select" /\ new.at = n /\ ~new.expired /\ new.bad = {}
  BY DEF NoJob
<1> QED
  BY <1>1, <1>2, <1>3, <1>4

\* The tables stay typed.
LEMMA TablesStep ==
    ASSUME Types, [Next]_vars
    PROVE  TableTypes'
<1>0. TableTypes /\ TaskTypes
  BY DEF Types
<1> USE Constants DEF TableTypes, TaskTypes, Statuses, Kinds, JobTypes, Clusters
<1>1. ASSUME NEW n \in Nodes, CheckNamespaceCluster(n) PROVE TableTypes'
  BY <1>1, <1>0 DEF CheckNamespaceCluster, ReqVars, tables, disks
<1>2. ASSUME NEW n \in Nodes, DropFailed(n) PROVE TableTypes'
  BY <1>2, <1>0 DEF DropFailed, Refused, Works, Note, DeleteRecord, ReqVars, tables, disks
<1>3. ASSUME NEW n \in Nodes, FreeFailed(n) PROVE TableTypes'
  BY <1>3, <1>0 DEF FreeFailed, Refused, Works, Note, PortsOf, SetPorts, ReqVars, tables,
      disks
<1>4. ASSUME NEW n \in Nodes, ProvisionNamespaceCluster(n) PROVE TableTypes'
  BY <1>4, <1>0 DEF ProvisionNamespaceCluster, ReqVars, tables, NoReq, disks
<1>5. ASSUME NEW n \in Nodes, InsertCluster(n) PROVE TableTypes'
  BY <1>5, <1>0, SMTT(20) DEF InsertCluster, Note, ReqVars, KeyFree, CreateRecord, Quiet, NoJob,
      NoReq, disks, JobsLive
<1>6. ASSUME NEW n \in Nodes, InsertFails(n) PROVE TableTypes'
  BY <1>6, <1>0, SMTT(20) DEF InsertFails, Refused, Note, ReqVars, KeyFree, CreateRecord, tables,
      NoReq, disks
<1>7. ASSUME NEW n \in Nodes, Deprovision(n) PROVE TableTypes'
  BY <1>7, <1>0 DEF Deprovision, Note, DepVars, DepAt, tables, disks, Quiet, NoDep, JobsLive
<1>8. ASSUME NEW n \in Nodes, DepMark(n) PROVE TableTypes'
  BY <1>8, <1>0 DEF DepMark, Refused, Works, Note, SetStatus, DepVars, DepAt, DepGo,
      tables, disks
<1>9. ASSUME NEW n \in Nodes, DepNodes(n) PROVE TableTypes'
  BY <1>9, <1>0 DEF DepNodes, Refused, Works, Note, RowsOf, DepVars, DepAt, tables, disks
<1>10. ASSUME NEW n \in Nodes, DepStop(n) PROVE TableTypes'
  BY <1>10, <1>0 DEF DepStop, Refused, Works, Note, StopService, DepVars, DepAt,
      DepReaches, DepGo, DepNext, tables, disks, NoFile
<1>11. ASSUME NEW n \in Nodes, DepDelete(n) PROVE TableTypes'
  BY <1>11, <1>0 DEF DepDelete, Refused, Works, Note, PortsOf, RowsOf, SetPorts, SetRows,
      SetDNS, DeleteRecord, DepVars, DepAt, DepGo, tables, disks, NoDep
<1>12. ASSUME NEW n \in Nodes, Disconnect(n) PROVE TableTypes'
  BY <1>12, <1>0 DEF Disconnect, Refused, Note, DepVars, DepAt, tables, disks
<1>13. ASSUME NEW n \in Nodes, Crash(n) PROVE TableTypes'
  BY <1>13, <1>0 DEF Crash, Note, DepAt, tables, NoJob, NoReq, NoDep, NoRestore,
      JobsLive, Kinds
<1>14. ASSUME NEW n \in Nodes, Restart(n) PROVE TableTypes'
  BY <1>14, <1>0 DEF Restart, Note, RestoreVars, disks, Quiet, tables, JobsLive
<1>15. ASSUME NEW n \in Nodes, RestoreFromDisk(n) PROVE TableTypes'
  BY <1>15, <1>0 DEF RestoreFromDisk, Refused, Works, Note, StopAll, RestoreVars,
      RestoreAt, Assigned, disks, NoRestore, NoFile, Kinds, tables
<1>16. ASSUME NEW n \in Nodes, RestoreQuery(n) PROVE TableTypes'
  BY <1>16, <1>0 DEF RestoreQuery, Refused, Works, Note, RestoreVars, RestoreAt,
      Assigned, disks, NoRestore, tables
<1>17. ASSUME NEW n \in Nodes, RestorePorts(n) PROVE TableTypes'
  BY <1>17, <1>0 DEF RestorePorts, Refused, Works, Note, RowsOf, RestoreVars, RestoreAt,
      disks, NoRestore, tables
<1>18. ASSUME NEW n \in Nodes, RestoreService(n) PROVE TableTypes'
  BY <1>18, <1>0 DEF RestoreService, Refused, Works, Note, StartService, RestoreVars,
      NoRestore, Kinds, tables
<1>19. ASSUME NEW n \in Nodes, RestoreSave(n) PROVE TableTypes'
  BY <1>19, <1>0 DEF RestoreSave, Refused, Works, Note, RestoreVars, RestoreAt,
      NoRestore, tables
<1>20. ASSUME NEW c \in Clusters, SelectNodesForCluster(c) PROVE TableTypes'
  BY <1>20, <1>0 DEF SelectNodesForCluster, Refused, Works, JobVars, At, tables
<1>21. ASSUME NEW c \in Clusters, AllocatePortBlock(c) PROVE TableTypes'
  <2>1. Node(c) \in Nodes
    BY <1>21, Names, TeamFacts DEF AllocatePortBlock, At
  <2> QED
    BY <1>21, <1>0, <2>1 DEF AllocatePortBlock, SetPorts, JobVars, At
<1>22. ASSUME NEW c \in Clusters, AllocationFails(c) PROVE TableTypes'
  <2>1. Node(c) \in Nodes
    BY <1>22, Names, TeamFacts DEF AllocationFails, At
  <2>2. /\ ports' = ports \/ ports' = ports \cup {<<c, Node(c)>>}
        /\ UNCHANGED <<cluster, status, next, rows, dns>>
    BY <1>22 DEF AllocationFails, SetPorts, tables
  <2>3. ports' \subseteq Clusters \X Nodes
    BY <1>0, <2>1, <2>2
  <2> QED
    BY <1>0, <2>2, <2>3
<1>23. ASSUME NEW c \in Clusters, NEW kind \in {"rqlite", "gateway"}, Spawn(c, kind)
      PROVE TableTypes'
  <2>1. Node(c) \in Nodes
    BY <1>23, Names, TeamFacts DEF Spawn, At
  <2> QED
    BY <1>23, <1>0, <2>1 DEF Spawn, StartService, JobVars, At, Reaches, tables
<1>24. ASSUME NEW c \in Clusters, NEW kind \in {"rqlite", "gateway"}, SpawnFails(c, kind)
      PROVE TableTypes'
  <2>1. Node(c) \in Nodes
    BY <1>24, Names, TeamFacts DEF SpawnFails, At
  <2> QED
    BY <1>24, <1>0, <2>1 DEF SpawnFails, Refused, Note, StartService, JobVars, At,
        Reaches, tables
<1>25. ASSUME NEW c \in Clusters, RecordNode(c, "rqlite", "olric") PROVE TableTypes'
  <2>1. Node(c) \in Nodes
    BY <1>25, Names, TeamFacts DEF RecordNode, At, Recording
  <2> QED
    BY <1>25, <1>0, <2>1, SMTT(20) DEF RecordNode, Refused, Works, Note, SetRows, JobVars,
       At, tables
<1>26. ASSUME NEW c \in Clusters, RecordNode(c, "olric", "gateway") PROVE TableTypes'
  <2>1. Node(c) \in Nodes
    BY <1>26, Names, TeamFacts DEF RecordNode, At, Recording
  <2> QED
    BY <1>26, <1>0, <2>1, SMTT(20) DEF RecordNode, Refused, Works, Note, SetRows, JobVars,
       At, tables
<1>27. ASSUME NEW c \in Clusters, RecordNode(c, "gateway", "dns") PROVE TableTypes'
  <2>1. Node(c) \in Nodes
    BY <1>27, Names, TeamFacts DEF RecordNode, At, Recording
  <2> QED
    BY <1>27, <1>0, <2>1, SMTT(20) DEF RecordNode, Refused, Works, Note, SetRows, JobVars,
       At, tables
<1>28. ASSUME NEW c \in Clusters, SpawnOlric(c) PROVE TableTypes'
  BY <1>28, <1>0 DEF SpawnOlric, Refused, Works, Note, StartService, JobVars, At,
      Reaches, tables
<1>29. ASSUME NEW c \in Clusters, ClearDNS(c) PROVE TableTypes'
  BY <1>29, <1>0 DEF ClearDNS, Refused, Works, Note, SetDNS, JobVars, At, tables
<1>30. ASSUME NEW c \in Clusters, InsertDNS(c) PROVE TableTypes'
  <2>1. Node(c) \in Nodes
    BY <1>30, Names, TeamFacts DEF InsertDNS, At
  <2> QED
    BY <1>30, <1>0, <2>1 DEF InsertDNS, Refused, Works, Note, SetDNS, JobVars, At, tables
<1>31. ASSUME NEW c \in Clusters, Release(c) PROVE TableTypes'
  BY <1>31, <1>0 DEF Release, Refused, Works, Note, SetPorts, JobVars, At, tables
<1>32. ASSUME NEW c \in Clusters, StopOnNode(c) PROVE TableTypes'
  BY <1>32, <1>0 DEF StopOnNode, Refused, Works, Note, StopService, JobVars, At, Reaches,
      StopPhase, tables
<1>33. ASSUME NEW c \in Clusters, StopLocal(c) PROVE TableTypes'
  BY <1>33, <1>0 DEF StopLocal, StopAll, JobVars, At, tables, Kinds
<1>34. ASSUME NEW c \in Clusters, FreePorts(c) PROVE TableTypes'
  BY <1>34, <1>0 DEF FreePorts, Refused, Works, Note, PortsOf, SetPorts, JobVars, At, tables
<1>35. ASSUME NEW c \in Clusters, Settle(c) PROVE TableTypes'
  BY <1>35, <1>0 DEF Settle, Refused, Works, Note, SetStatus, JobVars, tables, NoJob
<1>36. ASSUME NEW c \in Clusters, Panic(c) PROVE TableTypes'
  BY <1>36, <1>0 DEF Panic, Refused, Note, JobVars, tables, JobsLive
<1>37. ASSUME NEW c \in Clusters, Expire(c) PROVE TableTypes'
  BY <1>37, <1>0 DEF Expire, Refused, Note, JobVars, tables, JobsLive
<1>38. CASE UNCHANGED vars
  BY <1>38, <1>0 DEF vars, tables, disks
<1> QED
  BY <1>1, <1>2, <1>3, <1>4, <1>5, <1>6, <1>7, <1>8, <1>9, <1>10, <1>11, <1>12, <1>13,
      <1>14, <1>15, <1>16, <1>17, <1>18, <1>19, <1>20, <1>21, <1>22, <1>23, <1>24, <1>25,
      <1>26, <1>27, <1>28, <1>29, <1>30, <1>31, <1>32, <1>33, <1>34, <1>35, <1>36, <1>37,
      <1>38 DEF Next, Request, Removal, Restore, Job

\* Units and state files stay typed.
LEMMA DisksStep ==
    ASSUME Types, [Next]_vars
    PROVE  DiskTypes'
<1>0. DiskTypes /\ TaskTypes /\ CountTypes
  BY DEF Types
<1>1. ASSUME NEW n \in Nodes, CheckNamespaceCluster(n) PROVE DiskTypes'
  BY <1>1, <1>0 DEF DiskTypes, CheckNamespaceCluster, ReqVars, tables, disks
<1>2. ASSUME NEW n \in Nodes, DropFailed(n) PROVE DiskTypes'
  BY <1>2, <1>0 DEF DiskTypes, DropFailed, ReqVars, tables, disks
<1>3. ASSUME NEW n \in Nodes, FreeFailed(n) PROVE DiskTypes'
  BY <1>3, <1>0 DEF DiskTypes, FreeFailed, ReqVars, tables, disks
<1>4. ASSUME NEW n \in Nodes, ProvisionNamespaceCluster(n) PROVE DiskTypes'
  BY <1>4, <1>0 DEF DiskTypes, ProvisionNamespaceCluster, ReqVars, tables, disks
<1>5. ASSUME NEW n \in Nodes, InsertCluster(n) PROVE DiskTypes'
  BY <1>5, <1>0 DEF DiskTypes, InsertCluster, ReqVars, disks
<1>6. ASSUME NEW n \in Nodes, InsertFails(n) PROVE DiskTypes'
  BY <1>6, <1>0 DEF DiskTypes, InsertFails, ReqVars, tables, disks
<1>7. ASSUME NEW n \in Nodes, Deprovision(n) PROVE DiskTypes'
  BY <1>7, <1>0 DEF DiskTypes, Deprovision, DepVars, tables, disks
<1>8. ASSUME NEW n \in Nodes, DepMark(n) PROVE DiskTypes'
  BY <1>8, <1>0 DEF DiskTypes, DepMark, DepVars, tables, disks
<1>9. ASSUME NEW n \in Nodes, DepNodes(n) PROVE DiskTypes'
  BY <1>9, <1>0 DEF DiskTypes, DepNodes, DepVars, tables, disks
<1>10. ASSUME NEW n \in Nodes, DepStop(n) PROVE DiskTypes'
  <2>1. PICK m \in dep[n].todo :
           \/ DepAt(n, "file") /\ file' = [file EXCEPT ![m] = NoFile] /\ UNCHANGED units
           \/ /\ dep[n].pc \in DOMAIN DepNext /\ ~DepAt(n, "file")
              /\ StopService(m, dep[n].pc) /\ UNCHANGED file
           \/ UNCHANGED disks
    BY <1>10 DEF DepStop, units, disks
  <2>2. m \in Nodes /\ DiskTypes /\ None \in Clusters \cup {None}
    BY <1>0 DEF TaskTypes
  <2>3. dep[n].pc \in DOMAIN DepNext /\ ~DepAt(n, "file") => dep[n].pc \in Kinds
    BY DEF DepNext, DepAt, Kinds
  <2>4. StopService(m, dep[n].pc) /\ dep[n].pc \in Kinds =>
           svc' \in [Nodes -> [Kinds -> Clusters \cup {None}]]
    BY <2>2, UnitsTyped
  <2>5. NoFile \in [c : Clusters \cup {None}, gw : BOOLEAN]
    BY DEF NoFile
  <2> QED
    BY <1>0, <2>1, <2>2, <2>3, <2>4, <2>5 DEF disks, units, DiskTypes
<1>11. ASSUME NEW n \in Nodes, DepDelete(n) PROVE DiskTypes'
  BY <1>11, <1>0 DEF DiskTypes, DepDelete, DepVars, tables, disks
<1>12. ASSUME NEW n \in Nodes, Disconnect(n) PROVE DiskTypes'
  BY <1>12, <1>0 DEF DiskTypes, Disconnect, DepVars, tables, disks
<1>13. ASSUME NEW n \in Nodes, Crash(n) PROVE DiskTypes'
  BY <1>13, <1>0 DEF Crash, StopAll, DiskTypes
<1>14. ASSUME NEW n \in Nodes, Restart(n) PROVE DiskTypes'
  BY <1>14, <1>0 DEF DiskTypes, Restart, RestoreVars, disks, tables
<1>15. ASSUME NEW n \in Nodes, RestoreFromDisk(n) PROVE DiskTypes'
  <2>1. \/ UNCHANGED disks
        \/ StopAll(n) /\ file' = [file EXCEPT ![n] = NoFile]
    BY <1>15, Zenon DEF RestoreFromDisk
  <2>2. StopAll(n) => svc' \in [Nodes -> [Kinds -> Clusters \cup {None}]]
    BY <1>0 DEF StopAll, DiskTypes
  <2>3. NoFile \in [c : Clusters \cup {None}, gw : BOOLEAN]
    BY DEF NoFile
  <2> QED
    BY <1>0, <2>1, <2>2, <2>3 DEF disks, DiskTypes
<1>16. ASSUME NEW n \in Nodes, RestoreQuery(n) PROVE DiskTypes'
  BY <1>16, <1>0 DEF DiskTypes, RestoreQuery, RestoreVars, disks, tables
<1>17. ASSUME NEW n \in Nodes, RestorePorts(n) PROVE DiskTypes'
  BY <1>17, <1>0 DEF DiskTypes, RestorePorts, RestoreVars, disks, tables
<1>18. ASSUME NEW n \in Nodes, RestoreService(n) PROVE DiskTypes'
  <2>1. restore[n].pc \in Kinds /\ restore[n].c \in Clusters \cup {None} /\ DiskTypes
    BY <1>18, <1>0 DEF RestoreService, TaskTypes
  <2>2. StartService(n, restore[n].pc, restore[n].c) \/ UNCHANGED svc
    BY <1>18 DEF RestoreService, units
  <2>3. svc' \in [Nodes -> [Kinds -> Clusters \cup {None}]]
    BY <2>1, <2>2, UnitsTyped
  <2> QED
    BY <1>18, <1>0, <2>3 DEF RestoreService, DiskTypes
<1>19. ASSUME NEW n \in Nodes, RestoreSave(n) PROVE DiskTypes'
  <2>1. [c |-> restore[n].c, gw |-> restore[n].gw] \in [c : Clusters \cup {None}, gw : BOOLEAN]
    BY <1>0 DEF TaskTypes
  <2> QED
    BY <1>19, <1>0, <2>1 DEF RestoreSave, units, DiskTypes
<1>20. ASSUME NEW c \in Clusters, SelectNodesForCluster(c) PROVE DiskTypes'
  BY <1>20, <1>0 DEF DiskTypes, SelectNodesForCluster, JobVars, units, tables
<1>21. ASSUME NEW c \in Clusters, AllocatePortBlock(c) PROVE DiskTypes'
  BY <1>21, <1>0 DEF DiskTypes, AllocatePortBlock, JobVars, units
<1>22. ASSUME NEW c \in Clusters, AllocationFails(c) PROVE DiskTypes'
  BY <1>22, <1>0 DEF DiskTypes, AllocationFails, JobVars, units, tables
<1>23. ASSUME NEW c \in Clusters, NEW kind \in {"rqlite", "gateway"}, Spawn(c, kind)
      PROVE DiskTypes'
  <2>1. Node(c) \in Nodes
    BY <1>23, Names, TeamFacts DEF Spawn, At
  <2>2. kind \in Kinds /\ c \in Clusters \cup {None} /\ DiskTypes
    BY <1>0 DEF Kinds
  <2>3. StartService(Node(c), kind, c) \/ UNCHANGED svc
    BY <1>23 DEF Spawn
  <2>4. svc' \in [Nodes -> [Kinds -> Clusters \cup {None}]]
    BY <2>1, <2>2, <2>3, UnitsTyped
  <2> QED
    BY <1>23, <1>0, <2>4 DEF Spawn, JobVars, DiskTypes
<1>24. ASSUME NEW c \in Clusters, NEW kind \in {"rqlite", "gateway"}, SpawnFails(c, kind)
      PROVE DiskTypes'
  <2>1. Node(c) \in Nodes
    BY <1>24, Names, TeamFacts DEF SpawnFails, At
  <2>2. kind \in Kinds /\ c \in Clusters \cup {None} /\ DiskTypes
    BY <1>0 DEF Kinds
  <2>3. StartUnconfirmed(Node(c), kind, c) \/ UNCHANGED svc
    BY <1>24 DEF SpawnFails, units
  <2>4. svc' \in [Nodes -> [Kinds -> Clusters \cup {None}]]
    BY <2>1, <2>2, <2>3, UnitsTyped
  <2> QED
    BY <1>24, <1>0, <2>4 DEF SpawnFails, JobVars, DiskTypes
<1>25. ASSUME NEW c \in Clusters, RecordNode(c, "rqlite", "olric") PROVE DiskTypes'
  BY <1>25, <1>0 DEF DiskTypes, RecordNode, JobVars, units, tables
<1>26. ASSUME NEW c \in Clusters, RecordNode(c, "olric", "gateway") PROVE DiskTypes'
  BY <1>26, <1>0 DEF DiskTypes, RecordNode, JobVars, units, tables
<1>27. ASSUME NEW c \in Clusters, RecordNode(c, "gateway", "dns") PROVE DiskTypes'
  BY <1>27, <1>0 DEF DiskTypes, RecordNode, JobVars, units, tables
<1>28. ASSUME NEW c \in Clusters, SpawnOlric(c) PROVE DiskTypes'
  <2>1. PICK n \in job[c].todo : \/ StartService(n, "olric", c) \/ StartUnconfirmed(n, "olric", c)
                                  \/ UNCHANGED svc
    BY <1>28 DEF SpawnOlric, units
  <2>2. n \in Nodes /\ "olric" \in Kinds /\ c \in Clusters \cup {None} /\ DiskTypes
    BY <1>0 DEF Kinds, TaskTypes, JobTypes
  <2>3. svc' \in [Nodes -> [Kinds -> Clusters \cup {None}]]
    BY <2>1, <2>2, UnitsTyped
  <2> QED
    BY <1>28, <1>0, <2>3 DEF SpawnOlric, JobVars, DiskTypes
<1>29. ASSUME NEW c \in Clusters, ClearDNS(c) PROVE DiskTypes'
  BY <1>29, <1>0 DEF DiskTypes, ClearDNS, JobVars, units, tables
<1>30. ASSUME NEW c \in Clusters, InsertDNS(c) PROVE DiskTypes'
  BY <1>30, <1>0 DEF DiskTypes, InsertDNS, JobVars, units, tables
<1>31. ASSUME NEW c \in Clusters, Release(c) PROVE DiskTypes'
  BY <1>31, <1>0 DEF DiskTypes, Release, JobVars, units, tables
<1>32. ASSUME NEW c \in Clusters, StopOnNode(c) PROVE DiskTypes'
  <2>1. PICK n \in job[c].todo : \/ UNCHANGED svc
                                  \/ StopService(n, IF At(c, "stop_started") THEN job[c].kind
                                                   ELSE StopPhase[job[c].pc])
    BY <1>32 DEF StopOnNode, units
  <2>2. /\ n \in Nodes /\ DiskTypes /\ None \in Clusters \cup {None}
        /\ (IF At(c, "stop_started") THEN job[c].kind ELSE StopPhase[job[c].pc]) \in Kinds
    BY <1>32, <1>0 DEF StopOnNode, StopPhase, Kinds, At, TaskTypes, JobTypes
  <2>3. svc' \in [Nodes -> [Kinds -> Clusters \cup {None}]]
    BY <2>1, <2>2, UnitsTyped
  <2> QED
    BY <1>32, <1>0, <2>3 DEF StopOnNode, JobVars, DiskTypes
<1>33. ASSUME NEW c \in Clusters, StopLocal(c) PROVE DiskTypes'
  <2>1. svc' \in [Nodes -> [Kinds -> Clusters \cup {None}]]
    BY <1>33, <1>0 DEF StopLocal, StopAll, DiskTypes
  <2> QED
    BY <1>33, <1>0, <2>1 DEF StopLocal, JobVars, DiskTypes
<1>34. ASSUME NEW c \in Clusters, FreePorts(c) PROVE DiskTypes'
  BY <1>34, <1>0 DEF DiskTypes, FreePorts, JobVars, units, tables
<1>35. ASSUME NEW c \in Clusters, Settle(c) PROVE DiskTypes'
  BY <1>35, <1>0 DEF DiskTypes, Settle, JobVars, units, tables
<1>36. ASSUME NEW c \in Clusters, Panic(c) PROVE DiskTypes'
  BY <1>36, <1>0 DEF DiskTypes, Panic, JobVars, units, tables
<1>37. ASSUME NEW c \in Clusters, Expire(c) PROVE DiskTypes'
  BY <1>37, <1>0 DEF DiskTypes, Expire, JobVars, units, tables
<1>38. CASE UNCHANGED vars
  BY <1>38, <1>0 DEF DiskTypes, vars, tables, disks
<1> QED
  BY <1>1, <1>2, <1>3, <1>4, <1>5, <1>6, <1>7, <1>8, <1>9, <1>10, <1>11, <1>12, <1>13,
      <1>14, <1>15, <1>16, <1>17, <1>18, <1>19, <1>20, <1>21, <1>22, <1>23, <1>24, <1>25,
      <1>26, <1>27, <1>28, <1>29, <1>30, <1>31, <1>32, <1>33, <1>34, <1>35, <1>36, <1>37,
      <1>38 DEF Next, Request, Removal, Restore, Job

\* Counters stay within their bounds.
LEMMA CountsStep ==
    ASSUME Types, [Next]_vars
    PROVE  CountTypes'
<1>0. CountTypes
  BY DEF Types
<1>1. ASSUME NEW n \in Nodes, CheckNamespaceCluster(n) PROVE CountTypes'
  <2>1. failures' = failures \/ (failures < MaxFailures /\ failures' = failures + 1)
    BY <1>1, Zenon DEF Refused, Works, CheckNamespaceCluster
  <2>2. crashes' \in 0 .. MaxCrashes /\ removals' \in 0 .. MaxRemovals
    BY <1>1, <1>0, Constants DEF CountTypes, CheckNamespaceCluster, ReqVars
  <2>3. calm' \in BOOLEAN
    BY <1>1, <1>0, Zenon DEF CountTypes, Note, CheckNamespaceCluster
  <2> QED
    BY <1>0, <2>1, <2>2, <2>3, Constants DEF CountTypes
<1>2. ASSUME NEW n \in Nodes, DropFailed(n) PROVE CountTypes'
  <2>1. failures' = failures \/ (failures < MaxFailures /\ failures' = failures + 1)
    BY <1>2, Zenon DEF Refused, Works, DropFailed
  <2>2. crashes' \in 0 .. MaxCrashes /\ removals' \in 0 .. MaxRemovals
    BY <1>2, <1>0, Constants DEF CountTypes, DropFailed, ReqVars
  <2>3. calm' \in BOOLEAN
    BY <1>2, <1>0, Zenon DEF CountTypes, Note, DropFailed
  <2> QED
    BY <1>0, <2>1, <2>2, <2>3, Constants DEF CountTypes
<1>3. ASSUME NEW n \in Nodes, FreeFailed(n) PROVE CountTypes'
  <2>1. failures' = failures \/ (failures < MaxFailures /\ failures' = failures + 1)
    BY <1>3, Zenon DEF Refused, Works, FreeFailed
  <2>2. crashes' \in 0 .. MaxCrashes /\ removals' \in 0 .. MaxRemovals
    BY <1>3, <1>0, Constants DEF CountTypes, FreeFailed, ReqVars
  <2>3. calm' \in BOOLEAN
    BY <1>3, <1>0, Zenon DEF CountTypes, Note, FreeFailed
  <2> QED
    BY <1>0, <2>1, <2>2, <2>3, Constants DEF CountTypes
<1>4. ASSUME NEW n \in Nodes, ProvisionNamespaceCluster(n) PROVE CountTypes'
  <2>1. failures' = failures \/ (failures < MaxFailures /\ failures' = failures + 1)
    BY <1>4, Zenon DEF Refused, Works, ProvisionNamespaceCluster
  <2>2. crashes' \in 0 .. MaxCrashes /\ removals' \in 0 .. MaxRemovals
    BY <1>4, <1>0, Constants DEF CountTypes, ProvisionNamespaceCluster, ReqVars
  <2>3. calm' \in BOOLEAN
    BY <1>4, <1>0, Zenon DEF CountTypes, Note, ProvisionNamespaceCluster
  <2> QED
    BY <1>0, <2>1, <2>2, <2>3, Constants DEF CountTypes
<1>5. ASSUME NEW n \in Nodes, InsertCluster(n) PROVE CountTypes'
  <2>1. failures' = failures \/ (failures < MaxFailures /\ failures' = failures + 1)
    BY <1>5, Zenon DEF Refused, Works, InsertCluster
  <2>2. crashes' \in 0 .. MaxCrashes /\ removals' \in 0 .. MaxRemovals
    BY <1>5, <1>0, Constants DEF CountTypes, InsertCluster, ReqVars
  <2>3. calm' \in BOOLEAN
    BY <1>5, <1>0, Zenon DEF CountTypes, Note, InsertCluster
  <2> QED
    BY <1>0, <2>1, <2>2, <2>3, Constants DEF CountTypes
<1>6. ASSUME NEW n \in Nodes, InsertFails(n) PROVE CountTypes'
  <2>1. failures' = failures \/ (failures < MaxFailures /\ failures' = failures + 1)
    BY <1>6, Zenon DEF Refused, Works, InsertFails
  <2>2. crashes' \in 0 .. MaxCrashes /\ removals' \in 0 .. MaxRemovals
    BY <1>6, <1>0, Constants DEF CountTypes, InsertFails, ReqVars
  <2>3. calm' \in BOOLEAN
    BY <1>6, <1>0, Zenon DEF CountTypes, Note, InsertFails
  <2> QED
    BY <1>0, <2>1, <2>2, <2>3, Constants DEF CountTypes
<1>7. ASSUME NEW n \in Nodes, Deprovision(n) PROVE CountTypes'
  <2>1. failures' = failures \/ (failures < MaxFailures /\ failures' = failures + 1)
    BY <1>7, Zenon DEF Refused, Works, Deprovision
  <2>2. crashes' \in 0 .. MaxCrashes /\ removals' \in 0 .. MaxRemovals
    BY <1>7, <1>0, Constants DEF CountTypes, Deprovision, DepVars
  <2>3. calm' \in BOOLEAN
    BY <1>7, <1>0, Zenon DEF CountTypes, Note, Deprovision
  <2> QED
    BY <1>0, <2>1, <2>2, <2>3, Constants DEF CountTypes
<1>8. ASSUME NEW n \in Nodes, DepMark(n) PROVE CountTypes'
  <2>1. failures' = failures \/ (failures < MaxFailures /\ failures' = failures + 1)
    BY <1>8, Zenon DEF Refused, Works, DepMark
  <2>2. crashes' \in 0 .. MaxCrashes /\ removals' \in 0 .. MaxRemovals
    BY <1>8, <1>0, Constants DEF CountTypes, DepMark, DepVars
  <2>3. calm' \in BOOLEAN
    BY <1>8, <1>0, Zenon DEF CountTypes, Note, DepMark
  <2> QED
    BY <1>0, <2>1, <2>2, <2>3, Constants DEF CountTypes
<1>9. ASSUME NEW n \in Nodes, DepNodes(n) PROVE CountTypes'
  <2>1. failures' = failures \/ (failures < MaxFailures /\ failures' = failures + 1)
    BY <1>9, Zenon DEF Refused, Works, DepNodes
  <2>2. crashes' \in 0 .. MaxCrashes /\ removals' \in 0 .. MaxRemovals
    BY <1>9, <1>0, Constants DEF CountTypes, DepNodes, DepVars
  <2>3. calm' \in BOOLEAN
    BY <1>9, <1>0, Zenon DEF CountTypes, Note, DepNodes
  <2> QED
    BY <1>0, <2>1, <2>2, <2>3, Constants DEF CountTypes
<1>10. ASSUME NEW n \in Nodes, DepStop(n) PROVE CountTypes'
  <2>1. failures' = failures \/ (failures < MaxFailures /\ failures' = failures + 1)
    BY <1>10, Zenon DEF Refused, Works, DepStop
  <2>2. crashes' \in 0 .. MaxCrashes /\ removals' \in 0 .. MaxRemovals
    BY <1>10, <1>0, Constants DEF CountTypes, DepStop, DepVars
  <2>3. calm' \in BOOLEAN
    BY <1>10, <1>0, Zenon DEF CountTypes, Note, DepStop
  <2> QED
    BY <1>0, <2>1, <2>2, <2>3, Constants DEF CountTypes
<1>11. ASSUME NEW n \in Nodes, DepDelete(n) PROVE CountTypes'
  <2>1. failures' = failures \/ (failures < MaxFailures /\ failures' = failures + 1)
    BY <1>11, Zenon DEF Refused, Works, DepDelete
  <2>2. crashes' \in 0 .. MaxCrashes /\ removals' \in 0 .. MaxRemovals
    BY <1>11, <1>0, Constants DEF CountTypes, DepDelete, DepVars
  <2>3. calm' \in BOOLEAN
    BY <1>11, <1>0, Zenon DEF CountTypes, Note, DepDelete
  <2> QED
    BY <1>0, <2>1, <2>2, <2>3, Constants DEF CountTypes
<1>12. ASSUME NEW n \in Nodes, Disconnect(n) PROVE CountTypes'
  <2>1. failures' = failures \/ (failures < MaxFailures /\ failures' = failures + 1)
    BY <1>12, Zenon DEF Refused, Works, Disconnect
  <2>2. crashes' \in 0 .. MaxCrashes /\ removals' \in 0 .. MaxRemovals
    BY <1>12, <1>0, Constants DEF CountTypes, Disconnect, DepVars
  <2>3. calm' \in BOOLEAN
    BY <1>12, <1>0, Zenon DEF CountTypes, Note, Disconnect
  <2> QED
    BY <1>0, <2>1, <2>2, <2>3, Constants DEF CountTypes
<1>13. ASSUME NEW n \in Nodes, Crash(n) PROVE CountTypes'
  <2>1. failures' = failures \/ (failures < MaxFailures /\ failures' = failures + 1)
    BY <1>13, Zenon DEF Refused, Works, Crash
  <2>2. crashes' \in 0 .. MaxCrashes /\ removals' \in 0 .. MaxRemovals
    BY <1>13, <1>0, Constants DEF CountTypes, Crash
  <2>3. calm' \in BOOLEAN
    BY <1>13, <1>0, Zenon DEF CountTypes, Note, Crash
  <2> QED
    BY <1>0, <2>1, <2>2, <2>3, Constants DEF CountTypes
<1>14. ASSUME NEW n \in Nodes, Restart(n) PROVE CountTypes'
  <2>1. failures' = failures \/ (failures < MaxFailures /\ failures' = failures + 1)
    BY <1>14, Zenon DEF Refused, Works, Restart
  <2>2. crashes' \in 0 .. MaxCrashes /\ removals' \in 0 .. MaxRemovals
    BY <1>14, <1>0, Constants DEF CountTypes, Restart, RestoreVars
  <2>3. calm' \in BOOLEAN
    BY <1>14, <1>0, Zenon DEF CountTypes, Note, Restart
  <2> QED
    BY <1>0, <2>1, <2>2, <2>3, Constants DEF CountTypes
<1>15. ASSUME NEW n \in Nodes, RestoreFromDisk(n) PROVE CountTypes'
  <2>1. failures' = failures \/ (failures < MaxFailures /\ failures' = failures + 1)
    BY <1>15, Zenon DEF Refused, Works, RestoreFromDisk
  <2>2. crashes' \in 0 .. MaxCrashes /\ removals' \in 0 .. MaxRemovals
    BY <1>15, <1>0, Constants DEF CountTypes, RestoreFromDisk, RestoreVars
  <2>3. calm' \in BOOLEAN
    BY <1>15, <1>0, Zenon DEF CountTypes, Note, RestoreFromDisk
  <2> QED
    BY <1>0, <2>1, <2>2, <2>3, Constants DEF CountTypes
<1>16. ASSUME NEW n \in Nodes, RestoreQuery(n) PROVE CountTypes'
  <2>1. failures' = failures \/ (failures < MaxFailures /\ failures' = failures + 1)
    BY <1>16, Zenon DEF Refused, Works, RestoreQuery
  <2>2. crashes' \in 0 .. MaxCrashes /\ removals' \in 0 .. MaxRemovals
    BY <1>16, <1>0, Constants DEF CountTypes, RestoreQuery, RestoreVars
  <2>3. calm' \in BOOLEAN
    BY <1>16, <1>0, Zenon DEF CountTypes, Note, RestoreQuery
  <2> QED
    BY <1>0, <2>1, <2>2, <2>3, Constants DEF CountTypes
<1>17. ASSUME NEW n \in Nodes, RestorePorts(n) PROVE CountTypes'
  <2>1. failures' = failures \/ (failures < MaxFailures /\ failures' = failures + 1)
    BY <1>17, Zenon DEF Refused, Works, RestorePorts
  <2>2. crashes' \in 0 .. MaxCrashes /\ removals' \in 0 .. MaxRemovals
    BY <1>17, <1>0, Constants DEF CountTypes, RestorePorts, RestoreVars
  <2>3. calm' \in BOOLEAN
    BY <1>17, <1>0, Zenon DEF CountTypes, Note, RestorePorts
  <2> QED
    BY <1>0, <2>1, <2>2, <2>3, Constants DEF CountTypes
<1>18. ASSUME NEW n \in Nodes, RestoreService(n) PROVE CountTypes'
  <2>1. failures' = failures \/ (failures < MaxFailures /\ failures' = failures + 1)
    BY <1>18, Zenon DEF Refused, Works, RestoreService
  <2>2. crashes' \in 0 .. MaxCrashes /\ removals' \in 0 .. MaxRemovals
    BY <1>18, <1>0, Constants DEF CountTypes, RestoreService, RestoreVars
  <2>3. calm' \in BOOLEAN
    BY <1>18, <1>0, Zenon DEF CountTypes, Note, RestoreService
  <2> QED
    BY <1>0, <2>1, <2>2, <2>3, Constants DEF CountTypes
<1>19. ASSUME NEW n \in Nodes, RestoreSave(n) PROVE CountTypes'
  <2>1. failures' = failures \/ (failures < MaxFailures /\ failures' = failures + 1)
    BY <1>19, Zenon DEF Refused, Works, RestoreSave
  <2>2. crashes' \in 0 .. MaxCrashes /\ removals' \in 0 .. MaxRemovals
    BY <1>19, <1>0, Constants DEF CountTypes, RestoreSave, RestoreVars
  <2>3. calm' \in BOOLEAN
    BY <1>19, <1>0, Zenon DEF CountTypes, Note, RestoreSave
  <2> QED
    BY <1>0, <2>1, <2>2, <2>3, Constants DEF CountTypes
<1>20. ASSUME NEW c \in Clusters, SelectNodesForCluster(c) PROVE CountTypes'
  <2>1. failures' = failures \/ (failures < MaxFailures /\ failures' = failures + 1)
    BY <1>20, Zenon DEF Refused, Works, SelectNodesForCluster
  <2>2. crashes' \in 0 .. MaxCrashes /\ removals' \in 0 .. MaxRemovals
    BY <1>20, <1>0, Constants DEF CountTypes, SelectNodesForCluster, JobVars
  <2>3. calm' \in BOOLEAN
    BY <1>20, <1>0, Zenon DEF CountTypes, Note, SelectNodesForCluster
  <2> QED
    BY <1>0, <2>1, <2>2, <2>3, Constants DEF CountTypes
<1>21. ASSUME NEW c \in Clusters, AllocatePortBlock(c) PROVE CountTypes'
  <2>1. failures' = failures \/ (failures < MaxFailures /\ failures' = failures + 1)
    BY <1>21, Zenon DEF Refused, Works, AllocatePortBlock
  <2>2. crashes' \in 0 .. MaxCrashes /\ removals' \in 0 .. MaxRemovals
    BY <1>21, <1>0, Constants DEF CountTypes, AllocatePortBlock, JobVars
  <2>3. calm' \in BOOLEAN
    BY <1>21, <1>0, Zenon DEF CountTypes, Note, AllocatePortBlock
  <2> QED
    BY <1>0, <2>1, <2>2, <2>3, Constants DEF CountTypes
<1>22. ASSUME NEW c \in Clusters, AllocationFails(c) PROVE CountTypes'
  <2>1. failures' = failures \/ (failures < MaxFailures /\ failures' = failures + 1)
    BY <1>22, Zenon DEF Refused, Works, AllocationFails
  <2>2. crashes' \in 0 .. MaxCrashes /\ removals' \in 0 .. MaxRemovals
    BY <1>22, <1>0, Constants DEF CountTypes, AllocationFails, JobVars
  <2>3. calm' \in BOOLEAN
    BY <1>22, <1>0, Zenon DEF CountTypes, Note, AllocationFails
  <2> QED
    BY <1>0, <2>1, <2>2, <2>3, Constants DEF CountTypes
<1>23. ASSUME NEW c \in Clusters, NEW kind \in {"rqlite", "gateway"}, Spawn(c, kind)
      PROVE CountTypes'
  <2>1. failures' = failures \/ (failures < MaxFailures /\ failures' = failures + 1)
    BY <1>23, Zenon DEF Refused, Works, Spawn
  <2>2. crashes' \in 0 .. MaxCrashes /\ removals' \in 0 .. MaxRemovals
    BY <1>23, <1>0, Constants DEF CountTypes, Spawn, JobVars
  <2>3. calm' \in BOOLEAN
    BY <1>23, <1>0, Zenon DEF CountTypes, Note, Spawn
  <2> QED
    BY <1>0, <2>1, <2>2, <2>3, Constants DEF CountTypes
<1>24. ASSUME NEW c \in Clusters, NEW kind \in {"rqlite", "gateway"}, SpawnFails(c, kind)
      PROVE CountTypes'
  <2>1. failures' = failures \/ (failures < MaxFailures /\ failures' = failures + 1)
    BY <1>24, Zenon DEF Refused, Works, SpawnFails
  <2>2. crashes' \in 0 .. MaxCrashes /\ removals' \in 0 .. MaxRemovals
    BY <1>24, <1>0, Constants DEF CountTypes, SpawnFails, JobVars
  <2>3. calm' \in BOOLEAN
    BY <1>24, <1>0, Zenon DEF CountTypes, Note, SpawnFails
  <2> QED
    BY <1>0, <2>1, <2>2, <2>3, Constants DEF CountTypes
<1>25. ASSUME NEW c \in Clusters, RecordNode(c, "rqlite", "olric") PROVE CountTypes'
  <2>1. failures' = failures \/ (failures < MaxFailures /\ failures' = failures + 1)
    BY <1>25, Zenon DEF Refused, Works, RecordNode
  <2>2. crashes' \in 0 .. MaxCrashes /\ removals' \in 0 .. MaxRemovals
    BY <1>25, <1>0, Constants DEF CountTypes, RecordNode, JobVars
  <2>3. calm' \in BOOLEAN
    BY <1>25, <1>0, Zenon DEF CountTypes, Note, RecordNode
  <2> QED
    BY <1>0, <2>1, <2>2, <2>3, Constants DEF CountTypes
<1>26. ASSUME NEW c \in Clusters, RecordNode(c, "olric", "gateway") PROVE CountTypes'
  <2>1. failures' = failures \/ (failures < MaxFailures /\ failures' = failures + 1)
    BY <1>26, Zenon DEF Refused, Works, RecordNode
  <2>2. crashes' \in 0 .. MaxCrashes /\ removals' \in 0 .. MaxRemovals
    BY <1>26, <1>0, Constants DEF CountTypes, RecordNode, JobVars
  <2>3. calm' \in BOOLEAN
    BY <1>26, <1>0, Zenon DEF CountTypes, Note, RecordNode
  <2> QED
    BY <1>0, <2>1, <2>2, <2>3, Constants DEF CountTypes
<1>27. ASSUME NEW c \in Clusters, RecordNode(c, "gateway", "dns") PROVE CountTypes'
  <2>1. failures' = failures \/ (failures < MaxFailures /\ failures' = failures + 1)
    BY <1>27, Zenon DEF Refused, Works, RecordNode
  <2>2. crashes' \in 0 .. MaxCrashes /\ removals' \in 0 .. MaxRemovals
    BY <1>27, <1>0, Constants DEF CountTypes, RecordNode, JobVars
  <2>3. calm' \in BOOLEAN
    BY <1>27, <1>0, Zenon DEF CountTypes, Note, RecordNode
  <2> QED
    BY <1>0, <2>1, <2>2, <2>3, Constants DEF CountTypes
<1>28. ASSUME NEW c \in Clusters, SpawnOlric(c) PROVE CountTypes'
  <2>1. failures' = failures \/ (failures < MaxFailures /\ failures' = failures + 1)
    BY <1>28, Zenon DEF Refused, Works, SpawnOlric
  <2>2. crashes' \in 0 .. MaxCrashes /\ removals' \in 0 .. MaxRemovals
    BY <1>28, <1>0, Constants DEF CountTypes, SpawnOlric, JobVars
  <2>3. calm' \in BOOLEAN
    BY <1>28, <1>0, Zenon DEF CountTypes, Note, SpawnOlric
  <2> QED
    BY <1>0, <2>1, <2>2, <2>3, Constants DEF CountTypes
<1>29. ASSUME NEW c \in Clusters, ClearDNS(c) PROVE CountTypes'
  <2>1. failures' = failures \/ (failures < MaxFailures /\ failures' = failures + 1)
    BY <1>29, Zenon DEF Refused, Works, ClearDNS
  <2>2. crashes' \in 0 .. MaxCrashes /\ removals' \in 0 .. MaxRemovals
    BY <1>29, <1>0, Constants DEF CountTypes, ClearDNS, JobVars
  <2>3. calm' \in BOOLEAN
    BY <1>29, <1>0, Zenon DEF CountTypes, Note, ClearDNS
  <2> QED
    BY <1>0, <2>1, <2>2, <2>3, Constants DEF CountTypes
<1>30. ASSUME NEW c \in Clusters, InsertDNS(c) PROVE CountTypes'
  <2>1. failures' = failures \/ (failures < MaxFailures /\ failures' = failures + 1)
    BY <1>30, Zenon DEF Refused, Works, InsertDNS
  <2>2. crashes' \in 0 .. MaxCrashes /\ removals' \in 0 .. MaxRemovals
    BY <1>30, <1>0, Constants DEF CountTypes, InsertDNS, JobVars
  <2>3. calm' \in BOOLEAN
    BY <1>30, <1>0, Zenon DEF CountTypes, Note, InsertDNS
  <2> QED
    BY <1>0, <2>1, <2>2, <2>3, Constants DEF CountTypes
<1>31. ASSUME NEW c \in Clusters, Release(c) PROVE CountTypes'
  <2>1. failures' = failures \/ (failures < MaxFailures /\ failures' = failures + 1)
    BY <1>31, Zenon DEF Refused, Works, Release
  <2>2. crashes' \in 0 .. MaxCrashes /\ removals' \in 0 .. MaxRemovals
    BY <1>31, <1>0, Constants DEF CountTypes, Release, JobVars
  <2>3. calm' \in BOOLEAN
    BY <1>31, <1>0, Zenon DEF CountTypes, Note, Release
  <2> QED
    BY <1>0, <2>1, <2>2, <2>3, Constants DEF CountTypes
<1>32. ASSUME NEW c \in Clusters, StopOnNode(c) PROVE CountTypes'
  <2>1. failures' = failures \/ (failures < MaxFailures /\ failures' = failures + 1)
    BY <1>32, Zenon DEF Refused, Works, StopOnNode
  <2>2. crashes' \in 0 .. MaxCrashes /\ removals' \in 0 .. MaxRemovals
    BY <1>32, <1>0, Constants DEF CountTypes, StopOnNode, JobVars
  <2>3. calm' \in BOOLEAN
    BY <1>32, <1>0, Zenon DEF CountTypes, Note, StopOnNode
  <2> QED
    BY <1>0, <2>1, <2>2, <2>3, Constants DEF CountTypes
<1>33. ASSUME NEW c \in Clusters, StopLocal(c) PROVE CountTypes'
  <2>1. failures' = failures \/ (failures < MaxFailures /\ failures' = failures + 1)
    BY <1>33, Zenon DEF Refused, Works, StopLocal
  <2>2. crashes' \in 0 .. MaxCrashes /\ removals' \in 0 .. MaxRemovals
    BY <1>33, <1>0, Constants DEF CountTypes, StopLocal, JobVars
  <2>3. calm' \in BOOLEAN
    BY <1>33, <1>0, Zenon DEF CountTypes, Note, StopLocal
  <2> QED
    BY <1>0, <2>1, <2>2, <2>3, Constants DEF CountTypes
<1>34. ASSUME NEW c \in Clusters, FreePorts(c) PROVE CountTypes'
  <2>1. failures' = failures \/ (failures < MaxFailures /\ failures' = failures + 1)
    BY <1>34, Zenon DEF Refused, Works, FreePorts
  <2>2. crashes' \in 0 .. MaxCrashes /\ removals' \in 0 .. MaxRemovals
    BY <1>34, <1>0, Constants DEF CountTypes, FreePorts, JobVars
  <2>3. calm' \in BOOLEAN
    BY <1>34, <1>0, Zenon DEF CountTypes, Note, FreePorts
  <2> QED
    BY <1>0, <2>1, <2>2, <2>3, Constants DEF CountTypes
<1>35. ASSUME NEW c \in Clusters, Settle(c) PROVE CountTypes'
  <2>1. failures' = failures \/ (failures < MaxFailures /\ failures' = failures + 1)
    BY <1>35, Zenon DEF Refused, Works, Settle
  <2>2. crashes' \in 0 .. MaxCrashes /\ removals' \in 0 .. MaxRemovals
    BY <1>35, <1>0, Constants DEF CountTypes, Settle, JobVars
  <2>3. calm' \in BOOLEAN
    BY <1>35, <1>0, Zenon DEF CountTypes, Note, Settle
  <2> QED
    BY <1>0, <2>1, <2>2, <2>3, Constants DEF CountTypes
<1>36. ASSUME NEW c \in Clusters, Panic(c) PROVE CountTypes'
  <2>1. failures' = failures \/ (failures < MaxFailures /\ failures' = failures + 1)
    BY <1>36, Zenon DEF Refused, Works, Panic
  <2>2. crashes' \in 0 .. MaxCrashes /\ removals' \in 0 .. MaxRemovals
    BY <1>36, <1>0, Constants DEF CountTypes, Panic, JobVars
  <2>3. calm' \in BOOLEAN
    BY <1>36, <1>0, Zenon DEF CountTypes, Note, Panic
  <2> QED
    BY <1>0, <2>1, <2>2, <2>3, Constants DEF CountTypes
<1>37. ASSUME NEW c \in Clusters, Expire(c) PROVE CountTypes'
  <2>1. failures' = failures \/ (failures < MaxFailures /\ failures' = failures + 1)
    BY <1>37, Zenon DEF Refused, Works, Expire
  <2>2. crashes' \in 0 .. MaxCrashes /\ removals' \in 0 .. MaxRemovals
    BY <1>37, <1>0, Constants DEF CountTypes, Expire, JobVars
  <2>3. calm' \in BOOLEAN
    BY <1>37, <1>0, Zenon DEF CountTypes, Note, Expire
  <2> QED
    BY <1>0, <2>1, <2>2, <2>3, Constants DEF CountTypes
<1>38. CASE UNCHANGED vars
  BY <1>38, <1>0 DEF vars, CountTypes
<1> QED
  BY <1>1, <1>2, <1>3, <1>4, <1>5, <1>6, <1>7, <1>8, <1>9, <1>10, <1>11, <1>12, <1>13,
      <1>14, <1>15, <1>16, <1>17, <1>18, <1>19, <1>20, <1>21, <1>22, <1>23, <1>24, <1>25,
      <1>26, <1>27, <1>28, <1>29, <1>30, <1>31, <1>32, <1>33, <1>34, <1>35, <1>36, <1>37,
      <1>38 DEF Next, Request, Removal, Restore, Job


-----------------------------------------------------------------------------
(* How the goroutine of a cluster moves on in each of its steps. *)

Selected(c) ==
    /\ Moves(c)
    /\ job'[c].pc = "allocate" /\ job'[c].sel \in Selections
    /\ job'[c].i \in 1 .. NodeCount
    /\ job'[c].bad = job[c].bad /\ job'[c].expired = job[c].expired
    /\ Done(c)' = {}

FellBack(c, kind) ==
    /\ Moves(c) /\ SamePlace(c)
    /\ job'[c].kind = kind /\ job'[c].todo = Done(c)
    /\ job'[c].expired = job[c].expired
    /\ \/ job'[c].pc = "stop_all" /\ Done(c) = {}
       \/ job'[c].pc = "stop_started"

UndidOne(c, n) ==
    \/ Went(c, job[c].pc, job[c].todo \ {n})
    \/ job[c].todo \subseteq {n} /\ Went(c, AfterPhase(c), Team(c))

\* SelectNodesForCluster fails the provisioning or selects.
LEMMA SelectMoves ==
    ASSUME Types, NEW c \in Clusters, SelectNodesForCluster(c)
    PROVE  Went(c, "failed", {}) \/ Selected(c)
<1>1. CASE Go(c, "failed", {})
  BY <1>1, GoFacts DEF JobPhases
<1>2. CASE \E s \in Selections :
              job' = [job EXCEPT ![c].pc = "allocate", ![c].sel = s, ![c].i = 1]
  <2>1. PICK s \in Selections :
           job' = [job EXCEPT ![c].pc = "allocate", ![c].sel = s, ![c].i = 1]
    BY <1>2
  <2> QED
    BY <2>1, SelectFacts DEF Selected
<1> QED
  BY <1>1, <1>2, Zenon DEF SelectNodesForCluster

\* An allocated port block brings the goroutine to the next node, or to RQLite.
LEMMA AllocateMoves ==
    ASSUME Types, NEW c \in Clusters, AllocatePortBlock(c)
    PROVE  Advanced(c, "allocate", "rqlite")
<1>1. job[c].pc = "allocate" /\ Advance(c, "allocate", "rqlite")
  BY DEF AllocatePortBlock, At
<1> QED
  BY <1>1, AdvanceFacts DEF JobPhases

\* A failed allocation releases the blocks allocated so far.
LEMMA AllocationFailsMoves ==
    ASSUME Types, NEW c \in Clusters, AllocationFails(c)
    PROVE  (Done(c) = {} /\ Went(c, "failed", {})) \/ Went(c, "release", Done(c))
<1>1. job[c].pc = "allocate" /\ Before(c) = Done(c) /\ Done(c) \in SUBSET Nodes
      /\ (job[c].i = 1 => Done(c) = {})
  BY Names, TeamFacts DEF AllocationFails, At
<1>2. \/ job[c].i = 1 /\ Go(c, "failed", {})
      \/ Go(c, "release", Done(c))
  BY <1>1, Zenon DEF AllocationFails
<1> QED
  BY <1>1, <1>2, GoFacts DEF JobPhases

\* A spawned service is recorded next.
LEMMA SpawnMoves ==
    ASSUME Types, NEW c \in Clusters, NEW kind \in {"rqlite", "gateway"}, Spawn(c, kind)
    PROVE  Went(c, IF kind = "rqlite" THEN "record_rqlite" ELSE "record_gateway", {})
<1>1. Go(c, Recording[kind], {})
      /\ Recording[kind] = IF kind = "rqlite" THEN "record_rqlite" ELSE "record_gateway"
  BY DEF Spawn, Recording
<1> QED
  BY <1>1, GoFacts DEF JobPhases

\* A spawn that fails falls back to stopping services.
LEMMA SpawnFailsMoves ==
    ASSUME Types, NEW c \in Clusters, NEW kind \in {"rqlite", "gateway"}, SpawnFails(c, kind)
    PROVE  FellBack(c, kind)
<1>1. kind \in Kinds /\ job[c].pc \in Kinds
  BY DEF SpawnFails, At, Kinds
<1> QED
  BY <1>1, SpawnFailsFacts DEF FellBack

\* A recorded service brings the goroutine to the next node, or to the next service.
LEMMA RecordMoves ==
    ASSUME Types, NEW c \in Clusters
    PROVE  /\ RecordNode(c, "rqlite", "olric") => Advanced(c, "rqlite", "olric")
           /\ RecordNode(c, "olric", "gateway") => Advanced(c, "record_olric", "gateway")
           /\ RecordNode(c, "gateway", "dns") => Advanced(c, "gateway", "dns")
<1>1. RecordNode(c, "rqlite", "olric") =>
         job[c].pc = "record_rqlite" /\ Advance(c, "rqlite", "olric")
  BY DEF RecordNode, At, Recording
<1>2. RecordNode(c, "olric", "gateway") =>
         job[c].pc = "record_olric" /\ Advance(c, "record_olric", "gateway")
  BY DEF RecordNode, At, Recording
<1>3. RecordNode(c, "gateway", "dns") =>
         job[c].pc = "record_gateway" /\ Advance(c, "gateway", "dns")
  BY DEF RecordNode, At, Recording
<1> QED
  BY <1>1, <1>2, <1>3, AdvanceFacts DEF JobPhases

\* Olric's answers come in any order, and the failed ones are remembered.
LEMMA OlricMoves ==
    ASSUME Types, NEW c \in Clusters, NEW n \in job[c].todo, job[c].pc = "olric"
    PROVE  /\ OlricAnswers(c, n, FALSE) => Answered(c, n, job[c].bad)
           /\ OlricAnswers(c, n, TRUE) => Answered(c, n, job[c].bad \cup {n})
BY AnswerFacts

\* The old records deleted, the new ones are inserted.
LEMMA ClearDNSMoves ==
    ASSUME Types, NEW c \in Clusters, ClearDNS(c)
    PROVE  Went(c, "dns_insert", {})
BY GoFacts DEF ClearDNS, JobPhases

\* The records inserted, or no address found, the cluster is ready.
LEMMA InsertDNSMoves ==
    ASSUME Types, NEW c \in Clusters
    PROVE  /\ Go(c, "ready", {}) => Went(c, "ready", {})
           /\ job[c].pc = "dns_insert" /\ Advance(c, "dns_insert", "ready") =>
                 Advanced(c, "dns_insert", "ready")
BY GoFacts, AdvanceFacts DEF JobPhases

\* A rollback is done with one node after the other.
LEMMA UndoneMoves ==
    ASSUME Types, NEW c \in Clusters, NEW n,
           job[c].pc \in {"stop_started", "stop_olric", "stop_rqlite", "release"},
           Undone(c, n)
    PROVE  UndidOne(c, n)
BY UndoneFacts DEF UndidOne

\* Stopping the local services is followed by the phase after it.
LEMMA StopLocalMoves ==
    ASSUME Types, NEW c \in Clusters, StopLocal(c)
    PROVE  Went(c, AfterPhase(c), Team(c))
<1>1. job[c].pc = "stop_all" /\ Go(c, AfterPhase(c), Members(c))
  BY DEF StopLocal, At
<1>2. AfterPhase(c) \in JobPhases /\ Members(c) = Team(c) /\ Team(c) \in SUBSET Nodes
  BY <1>1, AfterFacts, Names, TeamFacts DEF JobPhases
<1> QED
  BY <1>1, <1>2, GoFacts

\* The ports released, the provisioning has failed.
LEMMA FreePortsMoves ==
    ASSUME Types, NEW c \in Clusters, FreePorts(c)
    PROVE  Went(c, "failed", {})
<1>1. job[c].pc = "free_ports" /\ Go(c, AfterPhase(c), {})
  BY DEF FreePorts, At
<1>2. AfterPhase(c) = "failed"
  BY <1>1, AfterFacts
<1> QED
  BY <1>1, <1>2, GoFacts DEF JobPhases

-----------------------------------------------------------------------------
(* How the tasks of a node move on. *)

ReqTypes == [pc : ReqPhases, c : Clusters \cup {None}]
DepTypes == [pc : DepPhases, c : Clusters \cup {None}, on : SUBSET Nodes,
             todo : SUBSET Nodes, cut : BOOLEAN]
RestoreTypes == [pc : RestorePhases, c : Clusters \cup {None}, gw : BOOLEAN, disk : BOOLEAN]

Asks(n, pc, c) ==
    /\ req' \in [Nodes -> ReqTypes]
    /\ \A m \in Nodes \ {n} : req'[m] = req[m]
    /\ req'[n].pc = pc /\ req'[n].c = c

Removes(n, pc, c, on, todo, cut) ==
    /\ dep' \in [Nodes -> DepTypes]
    /\ \A m \in Nodes \ {n} : dep'[m] = dep[m]
    /\ dep'[n].pc = pc /\ dep'[n].c = c /\ dep'[n].on = on /\ dep'[n].todo = todo
    /\ dep'[n].cut = cut

Restores(n, pc, c, gw, disk) ==
    /\ restore' \in [Nodes -> RestoreTypes]
    /\ \A m \in Nodes \ {n} : restore'[m] = restore[m]
    /\ restore'[n].pc = pc /\ restore'[n].c = c
    /\ restore'[n].gw = gw /\ restore'[n].disk = disk

\* No request, no deprovisioning and no restore are well typed.
LEMMA NoTasks == NoReq \in ReqTypes /\ NoDep \in DepTypes /\ NoRestore \in RestoreTypes
<1>1. /\ "idle" \in ReqPhases /\ "idle" \in DepPhases /\ "idle" \in RestorePhases
      /\ None \in Clusters \cup {None} /\ {} \in SUBSET Nodes
  BY DEF ReqPhases, DepPhases, RestorePhases
<1> QED
  BY <1>1 DEF NoReq, NoDep, NoRestore, ReqTypes, DepTypes, RestoreTypes

\* The ways a request moves on.
LEMMA ReqFacts ==
    ASSUME Types, NEW n \in Nodes, NEW pc \in ReqPhases, NEW c \in Clusters \cup {None}
    PROVE  /\ req' = [req EXCEPT ![n].pc = pc] => Asks(n, pc, req[n].c)
           /\ req' = [req EXCEPT ![n] = [pc |-> pc, c |-> c]] => Asks(n, pc, c)
           /\ req' = [req EXCEPT ![n] = NoReq] => Asks(n, "idle", None)
<1>1. req \in [Nodes -> ReqTypes] /\ req[n] \in ReqTypes
  BY DEF Types, TaskTypes, ReqTypes
<1>2. /\ [req[n] EXCEPT !.pc = pc] \in ReqTypes
      /\ [req[n] EXCEPT !.pc = pc].pc = pc /\ [req[n] EXCEPT !.pc = pc].c = req[n].c
  BY <1>1 DEF ReqTypes
<1>3. [pc |-> pc, c |-> c] \in ReqTypes
  BY DEF ReqTypes
<1>4. ASSUME NEW new \in ReqTypes, req' = [req EXCEPT ![n] = new]
      PROVE  Asks(n, new.pc, new.c)
  BY <1>1, <1>4 DEF Asks
<1>5. req' = [req EXCEPT ![n].pc = pc] => req' = [req EXCEPT ![n] = [req[n] EXCEPT !.pc = pc]]
  BY <1>1
<1>6. NoReq.pc = "idle" /\ NoReq.c = None
  BY DEF NoReq
<1> QED
  BY <1>2, <1>3, <1>4, <1>5, <1>6, NoTasks

\* The ways a deprovisioning moves on.
LEMMA DepFacts ==
    ASSUME Types, NEW n \in Nodes
    PROVE  /\ \A pc \in DepPhases : DepGo(n, pc) =>
                 Removes(n, pc, dep[n].c, dep[n].on, dep[n].on, dep[n].cut)
           /\ dep' = [dep EXCEPT ![n] = NoDep] => Removes(n, "idle", None, {}, {}, FALSE)
           /\ dep' = [dep EXCEPT ![n] = [NoDep EXCEPT !.pc = "mark", !.c = cluster]] =>
                 Removes(n, "mark", cluster, {}, {}, FALSE)
           /\ dep' = [dep EXCEPT ![n].cut = TRUE] =>
                 Removes(n, dep[n].pc, dep[n].c, dep[n].on, dep[n].todo, TRUE)
           /\ \A m \in Nodes : dep' = [dep EXCEPT ![n].todo = @ \ {m}] =>
                 Removes(n, dep[n].pc, dep[n].c, dep[n].on, dep[n].todo \ {m}, dep[n].cut)
           /\ \A on \in SUBSET Nodes, pc \in DepPhases :
                 dep' = [dep EXCEPT ![n].on = on, ![n].todo = on, ![n].pc = pc] =>
                    Removes(n, pc, dep[n].c, on, on, dep[n].cut)
<1>1. dep \in [Nodes -> DepTypes] /\ dep[n] \in DepTypes
  BY DEF Types, TaskTypes, DepTypes
<1>2. dep[n] \in DepTypes
  BY <1>1
<1>3. ASSUME NEW new \in DepTypes, dep' = [dep EXCEPT ![n] = new]
      PROVE  Removes(n, new.pc, new.c, new.on, new.todo, new.cut)
  BY <1>1, <1>3 DEF Removes
<1>4. ASSUME NEW pc \in DepPhases, DepGo(n, pc)
      PROVE  Removes(n, pc, dep[n].c, dep[n].on, dep[n].on, dep[n].cut)
  <2> DEFINE new == [dep[n] EXCEPT !.pc = pc, !.todo = dep[n].on]
  <2>1. /\ new \in DepTypes /\ new.pc = pc /\ new.c = dep[n].c /\ new.on = dep[n].on
        /\ new.todo = dep[n].on /\ new.cut = dep[n].cut
    BY <1>2 DEF DepTypes
  <2>2. dep' = [dep EXCEPT ![n] = new]
    BY <1>1, <1>4 DEF DepGo
  <2> QED
    BY <1>3, <2>1, <2>2
<1>5. ASSUME dep' = [dep EXCEPT ![n] = NoDep] PROVE Removes(n, "idle", None, {}, {}, FALSE)
  <2>1. /\ NoDep \in DepTypes /\ NoDep.pc = "idle" /\ NoDep.c = None /\ NoDep.on = {}
        /\ NoDep.todo = {} /\ NoDep.cut = FALSE
    BY NoTasks DEF NoDep
  <2> QED
    BY <1>3, <1>5, <2>1
<1>6. ASSUME dep' = [dep EXCEPT ![n] = [NoDep EXCEPT !.pc = "mark", !.c = cluster]]
      PROVE  Removes(n, "mark", cluster, {}, {}, FALSE)
  <2> DEFINE new == [NoDep EXCEPT !.pc = "mark", !.c = cluster]
  <2>1. /\ new \in DepTypes /\ new.pc = "mark" /\ new.c = cluster /\ new.on = {}
        /\ new.todo = {} /\ new.cut = FALSE
    BY NoTasks DEF DepTypes, NoDep, Types, TableTypes, DepPhases
  <2> QED
    BY <1>3, <1>6, <2>1
<1>7. ASSUME dep' = [dep EXCEPT ![n].cut = TRUE]
      PROVE  Removes(n, dep[n].pc, dep[n].c, dep[n].on, dep[n].todo, TRUE)
  <2> DEFINE new == [dep[n] EXCEPT !.cut = TRUE]
  <2>1. /\ new \in DepTypes /\ new.pc = dep[n].pc /\ new.c = dep[n].c /\ new.on = dep[n].on
        /\ new.todo = dep[n].todo /\ new.cut = TRUE
    BY <1>2 DEF DepTypes
  <2>2. dep' = [dep EXCEPT ![n] = new]
    BY <1>1, <1>7
  <2> QED
    BY <1>3, <2>1, <2>2
<1>8. ASSUME NEW m \in Nodes, dep' = [dep EXCEPT ![n].todo = @ \ {m}]
      PROVE  Removes(n, dep[n].pc, dep[n].c, dep[n].on, dep[n].todo \ {m}, dep[n].cut)
  <2> DEFINE new == [dep[n] EXCEPT !.todo = dep[n].todo \ {m}]
  <2>1. /\ new \in DepTypes /\ new.pc = dep[n].pc /\ new.c = dep[n].c /\ new.on = dep[n].on
        /\ new.todo = dep[n].todo \ {m} /\ new.cut = dep[n].cut
    BY <1>2 DEF DepTypes
  <2>2. dep' = [dep EXCEPT ![n] = new]
    BY <1>1, <1>8
  <2> QED
    BY <1>3, <2>1, <2>2
<1>9. ASSUME NEW on \in SUBSET Nodes, NEW pc \in DepPhases,
             dep' = [dep EXCEPT ![n].on = on, ![n].todo = on, ![n].pc = pc]
      PROVE  Removes(n, pc, dep[n].c, on, on, dep[n].cut)
  <2> DEFINE new == [dep[n] EXCEPT !.on = on, !.todo = on, !.pc = pc]
  <2>1. /\ new \in DepTypes /\ new.pc = pc /\ new.c = dep[n].c /\ new.on = on
        /\ new.todo = on /\ new.cut = dep[n].cut
    BY <1>2 DEF DepTypes
  <2>2. dep' = [dep EXCEPT ![n] = new]
    BY <1>1, <1>9
  <2> QED
    BY <1>3, <2>1, <2>2
<1> QED
  BY <1>4, <1>5, <1>6, <1>7, <1>8, <1>9

\* The ways a restore moves on.
LEMMA RestoreFacts ==
    ASSUME Types, NEW n \in Nodes
    PROVE  /\ \A pc \in RestorePhases : restore' = [restore EXCEPT ![n].pc = pc] =>
                 Restores(n, pc, restore[n].c, restore[n].gw, restore[n].disk)
           /\ restore' = [restore EXCEPT ![n] = NoRestore] =>
                 Restores(n, "idle", None, FALSE, FALSE)
           /\ \A c \in Clusters \cup {None}, gw \in BOOLEAN :
                 restore' = [restore EXCEPT ![n] =
                               [pc |-> "rqlite", c |-> c, gw |-> gw, disk |-> TRUE]] =>
                    Restores(n, "rqlite", c, gw, TRUE)
           /\ \A c \in Clusters \cup {None} :
                 restore' = [restore EXCEPT ![n] = [NoRestore EXCEPT !.pc = "ports", !.c = c]] =>
                    Restores(n, "ports", c, FALSE, FALSE)
           /\ \A gw \in BOOLEAN :
                 restore' = [restore EXCEPT ![n].pc = "rqlite", ![n].gw = gw] =>
                    Restores(n, "rqlite", restore[n].c, gw, restore[n].disk)
<1>1. restore \in [Nodes -> RestoreTypes] /\ restore[n] \in RestoreTypes
  BY DEF Types, TaskTypes, RestoreTypes
<1>2. restore[n] \in RestoreTypes /\ {"rqlite", "ports"} \subseteq RestorePhases
  BY <1>1 DEF RestorePhases
<1>3. ASSUME NEW new \in RestoreTypes, restore' = [restore EXCEPT ![n] = new]
      PROVE  Restores(n, new.pc, new.c, new.gw, new.disk)
  BY <1>1, <1>3 DEF Restores
<1>4. ASSUME NEW pc \in RestorePhases, restore' = [restore EXCEPT ![n].pc = pc]
      PROVE  Restores(n, pc, restore[n].c, restore[n].gw, restore[n].disk)
  <2> DEFINE new == [restore[n] EXCEPT !.pc = pc]
  <2>1. /\ new \in RestoreTypes /\ new.pc = pc /\ new.c = restore[n].c
        /\ new.gw = restore[n].gw /\ new.disk = restore[n].disk
    BY <1>2 DEF RestoreTypes
  <2>2. restore' = [restore EXCEPT ![n] = new]
    BY <1>1, <1>4
  <2> QED
    BY <1>3, <2>1, <2>2
<1>5. ASSUME restore' = [restore EXCEPT ![n] = NoRestore]
      PROVE  Restores(n, "idle", None, FALSE, FALSE)
  <2>1. /\ NoRestore \in RestoreTypes /\ NoRestore.pc = "idle" /\ NoRestore.c = None
        /\ NoRestore.gw = FALSE /\ NoRestore.disk = FALSE
    BY NoTasks DEF NoRestore
  <2> QED
    BY <1>3, <1>5, <2>1
<1>6. ASSUME NEW c \in Clusters \cup {None}, NEW gw \in BOOLEAN,
             restore' = [restore EXCEPT ![n] =
                           [pc |-> "rqlite", c |-> c, gw |-> gw, disk |-> TRUE]]
      PROVE  Restores(n, "rqlite", c, gw, TRUE)
  <2> DEFINE new == [pc |-> "rqlite", c |-> c, gw |-> gw, disk |-> TRUE]
  <2>1. /\ new \in RestoreTypes /\ new.pc = "rqlite" /\ new.c = c
        /\ new.gw = gw /\ new.disk = TRUE
    BY <1>2 DEF RestoreTypes
  <2> QED
    BY <1>3, <1>6, <2>1
<1>7. ASSUME NEW c \in Clusters \cup {None},
             restore' = [restore EXCEPT ![n] = [NoRestore EXCEPT !.pc = "ports", !.c = c]]
      PROVE  Restores(n, "ports", c, FALSE, FALSE)
  <2> DEFINE new == [NoRestore EXCEPT !.pc = "ports", !.c = c]
  <2>1. /\ new \in RestoreTypes /\ new.pc = "ports" /\ new.c = c
        /\ new.gw = FALSE /\ new.disk = FALSE
    BY <1>2, NoTasks DEF RestoreTypes, NoRestore
  <2> QED
    BY <1>3, <1>7, <2>1
<1>8. ASSUME NEW gw \in BOOLEAN,
             restore' = [restore EXCEPT ![n].pc = "rqlite", ![n].gw = gw]
      PROVE  Restores(n, "rqlite", restore[n].c, gw, restore[n].disk)
  <2> DEFINE new == [restore[n] EXCEPT !.pc = "rqlite", !.gw = gw]
  <2>1. /\ new \in RestoreTypes /\ new.pc = "rqlite" /\ new.c = restore[n].c
        /\ new.gw = gw /\ new.disk = restore[n].disk
    BY <1>2 DEF RestoreTypes
  <2>2. restore' = [restore EXCEPT ![n] = new]
    BY <1>1, <1>8
  <2> QED
    BY <1>3, <2>1, <2>2
<1> QED
  BY <1>4, <1>5, <1>6, <1>7, <1>8

\* CheckNamespaceCluster goes on to provision, or to drop a failed cluster first.
LEMMA CheckMoves ==
    ASSUME Types, NEW n \in Nodes, CheckNamespaceCluster(n)
    PROVE  \/ cluster = None /\ Asks(n, "provision", req[n].c)
           \/ cluster # None /\ status = "failed" /\ Asks(n, "drop", cluster)
<1>1. {"provision", "drop"} \subseteq ReqPhases /\ cluster \in Clusters \cup {None}
  BY DEF ReqPhases, Types, TableTypes
<1>2. \/ cluster = None /\ req' = [req EXCEPT ![n].pc = "provision"]
      \/ cluster # None /\ status = "failed" /\ req' = [req EXCEPT ![n] = [pc |-> "drop", c |-> cluster]]
  BY DEF CheckNamespaceCluster
<1> QED
  BY <1>1, <1>2, ReqFacts

\* Where the other steps of a request lead.
LEMMA RequestMoves ==
    ASSUME Types, NEW n \in Nodes
    PROVE  /\ DropFailed(n) => Asks(n, "free", req[n].c)
           /\ FreeFailed(n) => Asks(n, "provision", None)
           /\ InsertCluster(n) => Asks(n, "idle", None)
           /\ InsertFails(n) => Asks(n, "idle", None)
           /\ ProvisionNamespaceCluster(n) =>
                 \/ lock' = lock /\ Asks(n, "idle", None)
                 \/ n \notin lock /\ lock' = lock \cup {n} /\ Asks(n, "insert", req[n].c)
<1>1. /\ {"provision", "drop", "free", "insert", "idle"} \subseteq ReqPhases
      /\ None \in Clusters \cup {None}
  BY DEF ReqPhases
<1>2. DropFailed(n) => req' = [req EXCEPT ![n].pc = "free"]
  BY DEF DropFailed
<1>3. FreeFailed(n) => req' = [req EXCEPT ![n] = [pc |-> "provision", c |-> None]]
  BY DEF FreeFailed
<1>4. InsertCluster(n) \/ InsertFails(n) => req' = [req EXCEPT ![n] = NoReq]
  BY DEF InsertCluster, InsertFails
<1>5. ProvisionNamespaceCluster(n) =>
         \/ req' = [req EXCEPT ![n] = NoReq] /\ lock' = lock
         \/ n \notin lock /\ lock' = lock \cup {n} /\ req' = [req EXCEPT ![n].pc = "insert"]
  BY DEF ProvisionNamespaceCluster
<1> QED
  BY <1>1, <1>2, <1>3, <1>4, <1>5, ReqFacts

\* The removal of the cluster goes on at the next phase, on all nodes again.
Goes(n, pc) == Removes(n, pc, dep[n].c, dep[n].on, dep[n].on, dep[n].cut)

\* Where the steps of a deprovisioning lead that change no disk.
LEMMA DepMoves ==
    ASSUME Types, NEW n \in Nodes
    PROVE  /\ Deprovision(n) => Removes(n, "mark", cluster, {}, {}, FALSE)
           /\ DepMark(n) => Goes(n, "nodes")
           /\ Disconnect(n) => Removes(n, dep[n].pc, dep[n].c, dep[n].on, dep[n].todo, TRUE)
           /\ DepDelete(n) =>
                 \/ dep[n].pc = "ports" /\ Goes(n, "dns")
                 \/ dep[n].pc = "dns" /\ Goes(n, "rows")
                 \/ dep[n].pc = "rows" /\ Goes(n, "ports2")
                 \/ dep[n].pc = "ports2" /\ Goes(n, "delete")
                 \/ dep[n].pc = "delete" /\ Removes(n, "idle", None, {}, {}, FALSE)
<1>1. {"nodes", "dns", "rows", "ports2", "delete"} \subseteq DepPhases
  BY DEF DepPhases
<1>2. Deprovision(n) => dep' = [dep EXCEPT ![n] = [NoDep EXCEPT !.pc = "mark", !.c = cluster]]
  BY DEF Deprovision
<1>3. DepMark(n) => DepGo(n, "nodes")
  BY DEF DepMark
<1>4. Disconnect(n) => dep' = [dep EXCEPT ![n].cut = TRUE]
  BY DEF Disconnect
<1>5. DepDelete(n) =>
         \/ dep[n].pc = "ports" /\ DepGo(n, "dns")
         \/ dep[n].pc = "dns" /\ DepGo(n, "rows")
         \/ dep[n].pc = "rows" /\ DepGo(n, "ports2")
         \/ dep[n].pc = "ports2" /\ DepGo(n, "delete")
         \/ dep[n].pc = "delete" /\ dep' = [dep EXCEPT ![n] = NoDep]
  BY DEF DepDelete, DepAt
<1> QED
  BY <1>1, <1>2, <1>3, <1>4, <1>5, DepFacts DEF Goes

\* The deprovisioning reads the nodes of the cluster, all of them while nothing goes
\* wrong.
LEMMA DepNodesMoves ==
    ASSUME Types, NEW n \in Nodes, DepNodes(n)
    PROVE  \E on \in SUBSET Nodes :
              /\ \/ on = {m \in Nodes : \E r \in RowsOf(dep[n].c) : r[2] = m}
                 \/ ~calm'
              /\ Removes(n, IF on = {} THEN "ports" ELSE "gateway", dep[n].c, on, on, dep[n].cut)
<1>1. {"ports", "gateway"} \subseteq DepPhases
  BY DEF DepPhases
<1>2. PICK on \in SUBSET Nodes :
         /\ \/ on = {m \in Nodes : \E r \in RowsOf(dep[n].c) : r[2] = m}
            \/ ~calm'
         /\ dep' = [dep EXCEPT ![n].on = on, ![n].todo = on,
                               ![n].pc = IF on = {} THEN "ports" ELSE "gateway"]
  BY Zenon DEF DepNodes, Note
<1>3. Removes(n, IF on = {} THEN "ports" ELSE "gateway", dep[n].c, on, on, dep[n].cut)
  BY <1>1, <1>2, DepFacts
<1> QED
  BY <1>2, <1>3

\* A removal has dealt with node m.
StepsOn(n, m) ==
    \/ dep[n].todo # {m} /\ Removes(n, dep[n].pc, dep[n].c, dep[n].on, dep[n].todo \ {m}, dep[n].cut)
    \/ dep[n].todo = {m} /\ dep[n].pc = "gateway" /\ Goes(n, "olric")
    \/ dep[n].todo = {m} /\ dep[n].pc = "olric" /\ Goes(n, "rqlite")
    \/ dep[n].todo = {m} /\ dep[n].pc = "rqlite" /\ Goes(n, "file")
    \/ dep[n].todo = {m} /\ dep[n].pc = "file" /\ Goes(n, "ports")

\* The deprovisioning stops one service, or deletes one state file, unless the node
\* is down.
LEMMA DepStopMoves ==
    ASSUME Types, NEW n \in Nodes, DepStop(n)
    PROVE  /\ dep[n].pc \in {"gateway", "olric", "rqlite", "file"}
           /\ \E m \in dep[n].todo :
                 /\ StepsOn(n, m)
                 /\ \/ /\ dep[n].pc = "file"
                       /\ file' = [file EXCEPT ![m] = NoFile] /\ UNCHANGED units
                    \/ /\ dep[n].pc # "file"
                       /\ StopService(m, dep[n].pc) /\ UNCHANGED file
                    \/ UNCHANGED <<disks, astray>> /\ (calm' => m \notin up)
<1>1. {"olric", "rqlite", "file", "ports"} \subseteq DepPhases /\ dep[n].todo \subseteq Nodes
  BY DEF DepPhases, Types, TaskTypes
<1>2. PICK m \in dep[n].todo :
         /\ dep[n].pc \in DOMAIN DepNext
         /\ \/ /\ dep[n].pc = "file"
               /\ file' = [file EXCEPT ![m] = NoFile] /\ UNCHANGED units
            \/ /\ dep[n].pc # "file"
               /\ StopService(m, dep[n].pc) /\ UNCHANGED file
            \/ UNCHANGED <<disks, astray>> /\ Note(m \notin up)
         /\ IF dep[n].todo = {m} THEN DepGo(n, DepNext[dep[n].pc])
                                 ELSE dep' = [dep EXCEPT ![n].todo = @ \ {m}]
  BY Zenon DEF DepStop, DepAt
<1>3. Note(m \notin up) => (calm' => m \notin up)
  BY Zenon DEF Note
<1>4. dep[n].pc \in {"gateway", "olric", "rqlite", "file"}
  BY <1>2 DEF DepNext
<1>5. StepsOn(n, m)
  <2>1. CASE dep[n].todo # {m}
    <3>1. dep' = [dep EXCEPT ![n].todo = @ \ {m}] /\ m \in Nodes
      BY <1>1, <1>2, <2>1
    <3> QED
      BY <2>1, <3>1, DepFacts DEF StepsOn
  <2>2. CASE dep[n].todo = {m}
    <3>1. DepGo(n, DepNext[dep[n].pc])
      BY <1>2, <2>2
    <3>2. /\ dep[n].pc = "gateway" => DepGo(n, "olric")
          /\ dep[n].pc = "olric" => DepGo(n, "rqlite")
          /\ dep[n].pc = "rqlite" => DepGo(n, "file")
          /\ dep[n].pc = "file" => DepGo(n, "ports")
      BY <3>1 DEF DepNext
    <3> QED
      BY <1>1, <1>4, <2>2, <3>2, DepFacts DEF StepsOn, Goes
  <2> QED
    BY <2>1, <2>2
<1> QED
  BY <1>2, <1>3, <1>4, <1>5

Ceases(n) == Restores(n, "idle", None, FALSE, FALSE)
Continues(n, pc) == Restores(n, pc, restore[n].c, restore[n].gw, restore[n].disk)

\* Where the steps of a restore lead that start no service.
LEMMA RestoreMoves ==
    ASSUME Types, NEW n \in Nodes
    PROVE  /\ Restart(n) => Continues(n, "disk")
           /\ RestoreSave(n) => Ceases(n)
           /\ RestoreQuery(n) =>
                 \/ /\ status = "ready" /\ Assigned(n, cluster)
                    /\ Restores(n, "ports", cluster, FALSE, FALSE)
                 \/ /\ calm' => ~(status = "ready" /\ Assigned(n, cluster))
                    /\ Ceases(n)
           /\ RestorePorts(n) =>
                 \/ /\ <<restore[n].c, n>> \in ports
                    /\ Restores(n, "rqlite", restore[n].c,
                                \E r \in RowsOf(restore[n].c) : r[3] = "gateway", restore[n].disk)
                 \/ ~calm' /\ Ceases(n)
<1>1. {"disk", "ports", "rqlite"} \subseteq RestorePhases
      /\ cluster \in Clusters \cup {None}
  BY DEF RestorePhases, Types, TableTypes
<1>2. Restart(n) => restore' = [restore EXCEPT ![n].pc = "disk"]
  BY DEF Restart
<1>3. RestoreSave(n) => restore' = [restore EXCEPT ![n] = NoRestore]
  BY DEF RestoreSave
<1>4. RestoreQuery(n) =>
         \/ /\ status = "ready" /\ Assigned(n, cluster)
            /\ restore' = [restore EXCEPT ![n] = [NoRestore EXCEPT !.pc = "ports", !.c = cluster]]
         \/ /\ calm' => ~(status = "ready" /\ Assigned(n, cluster))
            /\ restore' = [restore EXCEPT ![n] = NoRestore]
  BY Zenon DEF RestoreQuery, Note
<1>5. RestorePorts(n) =>
         \/ /\ <<restore[n].c, n>> \in ports
            /\ restore' = [restore EXCEPT ![n].pc = "rqlite",
                  ![n].gw = \E r \in RowsOf(restore[n].c) : r[3] = "gateway"]
         \/ ~calm' /\ restore' = [restore EXCEPT ![n] = NoRestore]
  BY Zenon DEF RestorePorts, Note
<1>6. (\E r \in RowsOf(restore[n].c) : r[3] = "gateway") \in BOOLEAN
  OBVIOUS
<1> QED
  BY <1>1, <1>2, <1>3, <1>4, <1>5, <1>6, RestoreFacts DEF Ceases, Continues

\* A restore without a file asks the tables or is over, one with a stale file
\* deletes it.
LEMMA RestoreFromDiskMoves ==
    ASSUME Types, NEW n \in Nodes, RestoreFromDisk(n)
    PROVE  \/ file[n] = NoFile /\ UNCHANGED <<disks, astray>> /\ Continues(n, "query")
           \/ /\ file[n] = NoFile /\ UNCHANGED disks /\ Ceases(n)
              /\ astray' = [astray EXCEPT ![n] = Kinds]
           \/ /\ file[n] # NoFile /\ ~Assigned(n, file[n].c)
              /\ StopAll(n) /\ file' = [file EXCEPT ![n] = NoFile] /\ Ceases(n)
           \/ /\ file[n] # NoFile /\ (calm' => Assigned(n, file[n].c)) /\ UNCHANGED <<disks, astray>>
              /\ Restores(n, "rqlite", file[n].c, file[n].gw, TRUE)
<1>1. "query" \in RestorePhases /\ file[n].c \in Clusters \cup {None} /\ file[n].gw \in BOOLEAN
  BY DEF RestorePhases, Types, DiskTypes
<1>2. \/ /\ file[n] = NoFile /\ UNCHANGED <<disks, astray>>
         /\ restore' = [restore EXCEPT ![n].pc = "query"]
      \/ /\ file[n] = NoFile /\ UNCHANGED disks
         /\ restore' = [restore EXCEPT ![n] = NoRestore]
         /\ astray' = [astray EXCEPT ![n] = Kinds]
      \/ /\ file[n] # NoFile /\ ~Assigned(n, file[n].c)
         /\ StopAll(n) /\ file' = [file EXCEPT ![n] = NoFile]
         /\ restore' = [restore EXCEPT ![n] = NoRestore]
      \/ /\ file[n] # NoFile /\ (calm' => Assigned(n, file[n].c)) /\ UNCHANGED <<disks, astray>>
         /\ restore' = [restore EXCEPT ![n] =
               [pc |-> "rqlite", c |-> file[n].c, gw |-> file[n].gw, disk |-> TRUE]]
  BY Zenon DEF RestoreFromDisk, Note
<1> QED
  BY <1>1, <1>2, RestoreFacts DEF Ceases, Continues

\* A restore starts RQLite, Olric and, where it ran, the gateway.
LEMMA RestoreServiceMoves ==
    ASSUME Types, NEW n \in Nodes, RestoreService(n)
    PROVE  /\ restore[n].pc \in Kinds
           /\ \/ restore[n].pc = "rqlite" /\ Continues(n, "olric")
              \/ restore[n].pc = "olric" /\ restore[n].gw /\ Continues(n, "gateway")
              \/ /\ restore[n].pc # "rqlite" /\ ~(restore[n].pc = "olric" /\ restore[n].gw)
                 /\ \/ restore[n].disk /\ Ceases(n)
                    \/ ~restore[n].disk /\ Continues(n, "save")
<1>1. {"olric", "gateway", "save"} \subseteq RestorePhases
  BY DEF RestorePhases
<1>2. restore[n].pc \in Kinds
  BY DEF RestoreService
<1>3. restore \in [Nodes -> RestoreTypes] /\ restore[n] \in RestoreTypes
  BY DEF Types, TaskTypes, RestoreTypes
<1>4. \A pc : [restore EXCEPT ![n] = [restore[n] EXCEPT !.pc = pc]] = [restore EXCEPT ![n].pc = pc]
  BY <1>3
<1>5. restore' = [restore EXCEPT ![n] =
          CASE restore[n].pc = "rqlite" -> [restore[n] EXCEPT !.pc = "olric"]
            [] restore[n].pc = "olric" /\ restore[n].gw -> [restore[n] EXCEPT !.pc = "gateway"]
            [] OTHER -> IF restore[n].disk THEN NoRestore
                        ELSE [restore[n] EXCEPT !.pc = "save"]]
  BY DEF RestoreService
<1>6. CASE restore[n].pc = "rqlite"
  BY <1>1, <1>2, <1>4, <1>5, <1>6, RestoreFacts DEF Continues
<1>7. CASE restore[n].pc = "olric" /\ restore[n].gw
  BY <1>1, <1>2, <1>4, <1>5, <1>7, RestoreFacts DEF Continues
<1>8. CASE restore[n].pc # "rqlite" /\ ~(restore[n].pc = "olric" /\ restore[n].gw)
  BY <1>1, <1>2, <1>4, <1>5, <1>8, RestoreFacts DEF Continues, Ceases
<1> QED
  BY <1>6, <1>7, <1>8

-----------------------------------------------------------------------------
(* Types, owners and the record: what holds whatever fails. *)

\* Tasks stay typed, and goroutines keep their nodes.
LEMMA TasksStep ==
    ASSUME Types, [Next]_vars
    PROVE  TaskTypes' /\ Chosen'
<1>0. TaskTypes /\ Chosen
  BY DEF Types
<1>1. ASSUME NEW n \in Nodes, CheckNamespaceCluster(n) PROVE TaskTypes' /\ Chosen'
  <2>1. \/ cluster = None /\ Asks(n, "provision", req[n].c)
        \/ cluster # None /\ status = "failed" /\ Asks(n, "drop", cluster)
    BY <1>1, CheckMoves
  <2>2. req' \in [Nodes -> ReqTypes]
    BY <2>1 DEF Asks
  <2> QED
    BY <1>1, <1>0, <2>2 DEF TaskTypes, ReqTypes, Chosen, CheckNamespaceCluster, ReqVars,
        tables, disks
<1>2. ASSUME NEW n \in Nodes, DropFailed(n) PROVE TaskTypes' /\ Chosen'
  <2>1. Asks(n, "free", req[n].c)
    BY <1>2, RequestMoves
  <2>2. req' \in [Nodes -> ReqTypes]
    BY <2>1 DEF Asks
  <2> QED
    BY <1>2, <1>0, <2>2 DEF TaskTypes, ReqTypes, Chosen, DropFailed, ReqVars, tables, disks
<1>3. ASSUME NEW n \in Nodes, FreeFailed(n) PROVE TaskTypes' /\ Chosen'
  <2>1. Asks(n, "provision", None)
    BY <1>3, RequestMoves
  <2>2. req' \in [Nodes -> ReqTypes]
    BY <2>1 DEF Asks
  <2> QED
    BY <1>3, <1>0, <2>2 DEF TaskTypes, ReqTypes, Chosen, FreeFailed, ReqVars, tables, disks
<1>4. ASSUME NEW n \in Nodes, ProvisionNamespaceCluster(n) PROVE TaskTypes' /\ Chosen'
  <2>1. \/ lock' = lock /\ Asks(n, "idle", None)
        \/ n \notin lock /\ lock' = lock \cup {n} /\ Asks(n, "insert", req[n].c)
    BY <1>4, RequestMoves
  <2>2. req' \in [Nodes -> ReqTypes]
    BY <2>1 DEF Asks
  <2> QED
    BY <1>4, <1>0, <2>2 DEF TaskTypes, ReqTypes, Chosen, ProvisionNamespaceCluster,
        ReqVars, tables, disks
<1>5. ASSUME NEW n \in Nodes, InsertCluster(n) PROVE TaskTypes' /\ Chosen'
  <2>1. Asks(n, "idle", None)
    BY <1>5, RequestMoves
  <2>2. /\ next \in Clusters /\ job' \in [Clusters -> JobTypes]
        /\ \A d \in Clusters \ {next} : job'[d] = job[d]
        /\ job'[next].pc = "select" /\ job'[next].at = n
        /\ ~job'[next].expired /\ job'[next].bad = {}
    BY <1>5, InsertFacts
  <2>3. Chosen'
    BY <1>0, <2>2 DEF Chosen
  <2>4. req' \in [Nodes -> ReqTypes]
    BY <2>1, <2>2 DEF Asks
  <2> QED
    BY <1>5, <1>0, <2>4, <2>2, <2>3 DEF TaskTypes, ReqTypes, Chosen, InsertCluster,
        ReqVars, disks
<1>6. ASSUME NEW n \in Nodes, InsertFails(n) PROVE TaskTypes' /\ Chosen'
  <2>1. Asks(n, "idle", None)
    BY <1>6, RequestMoves
  <2>2. req' \in [Nodes -> ReqTypes]
    BY <2>1 DEF Asks
  <2> QED
    BY <1>6, <1>0, <2>2 DEF TaskTypes, ReqTypes, Chosen, InsertFails, ReqVars, tables, disks
<1>7. ASSUME NEW n \in Nodes, Deprovision(n) PROVE TaskTypes' /\ Chosen'
  <2>1. Removes(n, "mark", cluster, {}, {}, FALSE)
    BY <1>7, DepMoves
  <2>2. dep' \in [Nodes -> DepTypes]
    BY <2>1 DEF Removes
  <2> QED
    BY <1>7, <1>0, <2>2 DEF TaskTypes, DepTypes, Chosen, Deprovision, DepVars, tables, disks
<1>8. ASSUME NEW n \in Nodes, DepMark(n) PROVE TaskTypes' /\ Chosen'
  <2>1. Goes(n, "nodes")
    BY <1>8, DepMoves
  <2>2. dep' \in [Nodes -> DepTypes]
    BY <2>1 DEF Goes, Removes
  <2> QED
    BY <1>8, <1>0, <2>2 DEF TaskTypes, DepTypes, Chosen, DepMark, DepVars, tables, disks
<1>9. ASSUME NEW n \in Nodes, DepNodes(n) PROVE TaskTypes' /\ Chosen'
  <2>1. PICK on \in SUBSET Nodes :
           /\ \/ on = {m \in Nodes : \E r \in RowsOf(dep[n].c) : r[2] = m}
              \/ ~calm'
           /\ Removes(n, IF on = {} THEN "ports" ELSE "gateway", dep[n].c, on, on, dep[n].cut)
    BY <1>9, DepNodesMoves
  <2>2. dep' \in [Nodes -> DepTypes]
    BY <2>1 DEF Removes
  <2> QED
    BY <1>9, <1>0, <2>2 DEF TaskTypes, DepTypes, Chosen, DepNodes, DepVars, tables, disks
<1>10. ASSUME NEW n \in Nodes, DepStop(n) PROVE TaskTypes' /\ Chosen'
  <2>1. dep[n].pc \in {"gateway", "olric", "rqlite", "file"}
    BY <1>10, DepStopMoves
  <2>2. PICK m \in dep[n].todo :
           /\ StepsOn(n, m)
           /\ \/ /\ dep[n].pc = "file"
                 /\ file' = [file EXCEPT ![m] = NoFile] /\ UNCHANGED units
              \/ /\ dep[n].pc # "file"
                 /\ StopService(m, dep[n].pc) /\ UNCHANGED file
              \/ UNCHANGED <<disks, astray>> /\ (calm' => m \notin up)
    BY <1>10, DepStopMoves
  <2>3. dep' \in [Nodes -> DepTypes]
    BY <2>1, <2>2 DEF StepsOn, Goes, Removes
  <2> QED
    BY <1>10, <1>0, <2>3 DEF TaskTypes, DepTypes, Chosen, DepStop, DepVars, tables, disks
<1>11. ASSUME NEW n \in Nodes, DepDelete(n) PROVE TaskTypes' /\ Chosen'
  <2>1. \/ dep[n].pc = "ports" /\ Goes(n, "dns")
        \/ dep[n].pc = "dns" /\ Goes(n, "rows")
        \/ dep[n].pc = "rows" /\ Goes(n, "ports2")
        \/ dep[n].pc = "ports2" /\ Goes(n, "delete")
        \/ dep[n].pc = "delete" /\ Removes(n, "idle", None, {}, {}, FALSE)
    BY <1>11, DepMoves
  <2>2. dep' \in [Nodes -> DepTypes]
    BY <2>1 DEF Goes, Removes
  <2> QED
    BY <1>11, <1>0, <2>2 DEF TaskTypes, DepTypes, Chosen, DepDelete, DepVars, tables, disks
<1>12. ASSUME NEW n \in Nodes, Disconnect(n) PROVE TaskTypes' /\ Chosen'
  <2>1. Removes(n, dep[n].pc, dep[n].c, dep[n].on, dep[n].todo, TRUE)
    BY <1>12, DepMoves
  <2>2. dep' \in [Nodes -> DepTypes]
    BY <2>1 DEF Removes
  <2> QED
    BY <1>12, <1>0, <2>2 DEF TaskTypes, DepTypes, Chosen, Disconnect, DepVars, tables, disks
<1>13. ASSUME NEW n \in Nodes, Crash(n) PROVE TaskTypes' /\ Chosen'
  <2>1. job' \in [Clusters -> JobTypes] /\ Chosen'
    BY <1>0, <1>13, NoJobTyped DEF Chosen, Crash, NoJob, TaskTypes
  <2>2. NoReq \in ReqTypes /\ NoDep \in DepTypes /\ NoRestore \in RestoreTypes
    BY NoTasks
  <2> QED
    BY <1>13, <1>0, <2>1, <2>2 DEF TaskTypes, Crash, ReqTypes, DepTypes, RestoreTypes
<1>14. ASSUME NEW n \in Nodes, Restart(n) PROVE TaskTypes' /\ Chosen'
  <2>1. Continues(n, "disk")
    BY <1>14, RestoreMoves
  <2>2. restore' \in [Nodes -> RestoreTypes]
    BY <2>1 DEF Continues, Restores
  <2> QED
    BY <1>14, <1>0, <2>2 DEF TaskTypes, RestoreTypes, Chosen, Restart, RestoreVars,
        disks, tables
<1>15. ASSUME NEW n \in Nodes, RestoreFromDisk(n) PROVE TaskTypes' /\ Chosen'
  <2>1. \/ file[n] = NoFile /\ UNCHANGED <<disks, astray>> /\ Continues(n, "query")
        \/ /\ file[n] = NoFile /\ UNCHANGED disks /\ Ceases(n)
           /\ astray' = [astray EXCEPT ![n] = Kinds]
        \/ /\ file[n] # NoFile /\ ~Assigned(n, file[n].c)
           /\ StopAll(n) /\ file' = [file EXCEPT ![n] = NoFile] /\ Ceases(n)
        \/ /\ file[n] # NoFile /\ (calm' => Assigned(n, file[n].c)) /\ UNCHANGED <<disks, astray>>
           /\ Restores(n, "rqlite", file[n].c, file[n].gw, TRUE)
    BY <1>15, RestoreFromDiskMoves
  <2>2. restore' \in [Nodes -> RestoreTypes]
    BY <2>1 DEF Continues, Ceases, Restores
  <2> QED
    BY <1>15, <1>0, <2>2 DEF TaskTypes, RestoreTypes, Chosen, RestoreFromDisk,
        RestoreVars, disks, tables
<1>16. ASSUME NEW n \in Nodes, RestoreQuery(n) PROVE TaskTypes' /\ Chosen'
  <2>1. \/ /\ status = "ready" /\ Assigned(n, cluster)
           /\ Restores(n, "ports", cluster, FALSE, FALSE)
        \/ /\ calm' => ~(status = "ready" /\ Assigned(n, cluster))
           /\ Ceases(n)
    BY <1>16, RestoreMoves
  <2>2. restore' \in [Nodes -> RestoreTypes]
    BY <2>1 DEF Ceases, Restores
  <2> QED
    BY <1>16, <1>0, <2>2 DEF TaskTypes, RestoreTypes, Chosen, RestoreQuery, RestoreVars,
        disks, tables
<1>17. ASSUME NEW n \in Nodes, RestorePorts(n) PROVE TaskTypes' /\ Chosen'
  <2>1. \/ /\ <<restore[n].c, n>> \in ports
           /\ Restores(n, "rqlite", restore[n].c,
                       \E r \in RowsOf(restore[n].c) : r[3] = "gateway", restore[n].disk)
        \/ ~calm' /\ Ceases(n)
    BY <1>17, RestoreMoves
  <2>2. restore' \in [Nodes -> RestoreTypes]
    BY <2>1 DEF Ceases, Restores
  <2> QED
    BY <1>17, <1>0, <2>2 DEF TaskTypes, RestoreTypes, Chosen, RestorePorts, RestoreVars,
        disks, tables
<1>18. ASSUME NEW n \in Nodes, RestoreService(n) PROVE TaskTypes' /\ Chosen'
  <2>1. restore[n].pc \in Kinds
    BY <1>18, RestoreServiceMoves
  <2>2. \/ restore[n].pc = "rqlite" /\ Continues(n, "olric")
        \/ restore[n].pc = "olric" /\ restore[n].gw /\ Continues(n, "gateway")
        \/ /\ restore[n].pc # "rqlite" /\ ~(restore[n].pc = "olric" /\ restore[n].gw)
           /\ \/ restore[n].disk /\ Ceases(n)
              \/ ~restore[n].disk /\ Continues(n, "save")
    BY <1>18, RestoreServiceMoves
  <2>3. restore' \in [Nodes -> RestoreTypes]
    BY <2>1, <2>2 DEF Continues, Ceases, Restores
  <2> QED
    BY <1>18, <1>0, <2>3 DEF TaskTypes, RestoreTypes, Chosen, RestoreService,
        RestoreVars, tables
<1>19. ASSUME NEW n \in Nodes, RestoreSave(n) PROVE TaskTypes' /\ Chosen'
  <2>1. Ceases(n)
    BY <1>19, RestoreMoves
  <2>2. restore' \in [Nodes -> RestoreTypes]
    BY <2>1 DEF Ceases, Restores
  <2> QED
    BY <1>19, <1>0, <2>2 DEF TaskTypes, RestoreTypes, Chosen, RestoreSave, RestoreVars,
        tables
<1>20. ASSUME NEW c \in Clusters, SelectNodesForCluster(c) PROVE TaskTypes' /\ Chosen'
  <2>1. Went(c, "failed", {}) \/ Selected(c)
    BY <1>20, SelectMoves
  <2>2. job[c].pc = "select"
    BY <1>20 DEF SelectNodesForCluster, At, Recording
  <2>3. job' \in [Clusters -> JobTypes] /\ Chosen'
    BY <1>0, <2>1, <2>2, TeamFacts, Constants DEF Chosen, Went, Moves, SamePlace,
        Selected, TaskTypes, JobTypes
  <2> QED
    BY <1>20, <1>0, <2>3 DEF TaskTypes, SelectNodesForCluster, JobVars
<1>21. ASSUME NEW c \in Clusters, AllocatePortBlock(c) PROVE TaskTypes' /\ Chosen'
  <2>1. Advanced(c, "allocate", "rqlite")
    BY <1>21, AllocateMoves
  <2>2. job[c].pc = "allocate"
    BY <1>21 DEF AllocatePortBlock, At, Recording
  <2>3. job' \in [Clusters -> JobTypes] /\ Chosen'
    BY <1>0, <2>1, <2>2, TeamFacts, Constants DEF Chosen, Advanced, Moves, TaskTypes,
        JobTypes
  <2> QED
    BY <1>21, <1>0, <2>3 DEF TaskTypes, AllocatePortBlock, JobVars
<1>22. ASSUME NEW c \in Clusters, AllocationFails(c) PROVE TaskTypes' /\ Chosen'
  <2>1. (Done(c) = {} /\ Went(c, "failed", {})) \/ Went(c, "release", Done(c))
    BY <1>22, AllocationFailsMoves
  <2>2. job[c].pc = "allocate"
    BY <1>22 DEF AllocationFails, At, Recording
  <2>3. job' \in [Clusters -> JobTypes] /\ Chosen'
    BY <1>0, <2>1, <2>2, TeamFacts, Constants DEF Chosen, Went, Moves, SamePlace,
        TaskTypes, JobTypes
  <2> QED
    BY <1>22, <1>0, <2>3 DEF TaskTypes, AllocationFails, JobVars
<1>23. ASSUME NEW c \in Clusters, NEW kind \in {"rqlite", "gateway"}, Spawn(c, kind)
      PROVE TaskTypes' /\ Chosen'
  <2>1. Went(c, IF kind = "rqlite" THEN "record_rqlite" ELSE "record_gateway", {})
    BY <1>23, SpawnMoves
  <2>2. job[c].pc = kind
    BY <1>23 DEF Spawn, At, Recording
  <2>3. job' \in [Clusters -> JobTypes] /\ Chosen'
    BY <1>0, <2>1, <2>2, TeamFacts, Constants DEF Chosen, Went, Moves, SamePlace,
        TaskTypes, JobTypes
  <2> QED
    BY <1>23, <1>0, <2>3 DEF TaskTypes, Spawn, JobVars
<1>24. ASSUME NEW c \in Clusters, NEW kind \in {"rqlite", "gateway"}, SpawnFails(c, kind)
      PROVE TaskTypes' /\ Chosen'
  <2>1. FellBack(c, kind)
    BY <1>24, SpawnFailsMoves
  <2>2. job[c].pc = kind
    BY <1>24 DEF SpawnFails, At, Recording
  <2>3. job' \in [Clusters -> JobTypes] /\ Chosen'
    BY <1>0, <2>1, <2>2, TeamFacts, Constants DEF Chosen, FellBack, Moves, SamePlace,
        TaskTypes, JobTypes
  <2> QED
    BY <1>24, <1>0, <2>3 DEF TaskTypes, SpawnFails, JobVars
<1>25. ASSUME NEW c \in Clusters, RecordNode(c, "rqlite", "olric") PROVE TaskTypes' /\ Chosen'
  <2>1. Advanced(c, "rqlite", "olric")
    BY <1>25, RecordMoves
  <2>2. job[c].pc = "record_rqlite"
    BY <1>25 DEF RecordNode, At, Recording
  <2>3. job' \in [Clusters -> JobTypes] /\ Chosen'
    BY <1>0, <2>1, <2>2, TeamFacts, Constants DEF Chosen, Advanced, Moves, TaskTypes,
        JobTypes
  <2> QED
    BY <1>25, <1>0, <2>3 DEF TaskTypes, RecordNode, JobVars
<1>26. ASSUME NEW c \in Clusters, RecordNode(c, "olric", "gateway") PROVE TaskTypes' /\ Chosen'
  <2>1. Advanced(c, "record_olric", "gateway")
    BY <1>26, RecordMoves
  <2>2. job[c].pc = "record_olric"
    BY <1>26 DEF RecordNode, At, Recording
  <2>3. job' \in [Clusters -> JobTypes] /\ Chosen'
    BY <1>0, <2>1, <2>2, TeamFacts, Constants DEF Chosen, Advanced, Moves, TaskTypes,
        JobTypes
  <2> QED
    BY <1>26, <1>0, <2>3 DEF TaskTypes, RecordNode, JobVars
<1>27. ASSUME NEW c \in Clusters, RecordNode(c, "gateway", "dns") PROVE TaskTypes' /\ Chosen'
  <2>1. Advanced(c, "gateway", "dns")
    BY <1>27, RecordMoves
  <2>2. job[c].pc = "record_gateway"
    BY <1>27 DEF RecordNode, At, Recording
  <2>3. job' \in [Clusters -> JobTypes] /\ Chosen'
    BY <1>0, <2>1, <2>2, TeamFacts, Constants DEF Chosen, Advanced, Moves, TaskTypes,
        JobTypes
  <2> QED
    BY <1>27, <1>0, <2>3 DEF TaskTypes, RecordNode, JobVars
<1>28. ASSUME NEW c \in Clusters, SpawnOlric(c) PROVE TaskTypes' /\ Chosen'
  <2>1. PICK n \in job[c].todo :
           OlricAnswers(c, n, FALSE) \/ OlricAnswers(c, n, TRUE)
    BY <1>28 DEF SpawnOlric
  <2>2. job[c].pc = "olric"
    BY <1>28 DEF SpawnOlric, At
  <2>3. Answered(c, n, job[c].bad) \/ Answered(c, n, job[c].bad \cup {n})
    BY <2>1, <2>2, OlricMoves
  <2>4. job' \in [Clusters -> JobTypes] /\ Chosen'
    BY <1>0, <2>1, <2>2, <2>3, TeamFacts, Constants DEF Chosen, Answered, Moves,
        SamePlace, TaskTypes, JobTypes
  <2> QED
    BY <1>28, <1>0, <2>4 DEF TaskTypes, SpawnOlric, JobVars
<1>29. ASSUME NEW c \in Clusters, ClearDNS(c) PROVE TaskTypes' /\ Chosen'
  <2>1. Went(c, "dns_insert", {})
    BY <1>29, ClearDNSMoves
  <2>2. job[c].pc = "dns"
    BY <1>29 DEF ClearDNS, At, Recording
  <2>3. job' \in [Clusters -> JobTypes] /\ Chosen'
    BY <1>0, <2>1, <2>2, TeamFacts, Constants DEF Chosen, Went, Moves, SamePlace,
        TaskTypes, JobTypes
  <2> QED
    BY <1>29, <1>0, <2>3 DEF TaskTypes, ClearDNS, JobVars
<1>30. ASSUME NEW c \in Clusters, InsertDNS(c) PROVE TaskTypes' /\ Chosen'
  <2>1. job[c].pc = "dns_insert"
    BY <1>30 DEF InsertDNS, At
  <2>2. Advanced(c, "dns_insert", "ready") \/ Went(c, "ready", {})
    BY <1>30, <2>1, InsertDNSMoves DEF InsertDNS
  <2>3. job' \in [Clusters -> JobTypes] /\ Chosen'
    BY <1>0, <2>1, <2>2, TeamFacts, Constants DEF Chosen, Advanced, Went, Moves,
        SamePlace, TaskTypes, JobTypes
  <2> QED
    BY <1>30, <1>0, <2>3 DEF TaskTypes, InsertDNS, JobVars
<1>31. ASSUME NEW c \in Clusters, Release(c) PROVE TaskTypes' /\ Chosen'
  <2>1. job[c].pc \in {"release"}
    BY <1>31 DEF Release, At
  <2>2. PICK n \in job[c].todo : UndidOne(c, n)
    BY <1>31, <2>1, UndoneMoves DEF Release
  <2>3. job' \in [Clusters -> JobTypes] /\ Chosen'
    BY <1>0, <2>1, <2>2, TeamFacts, Constants DEF Chosen, UndidOne, Went, Moves,
        SamePlace, TaskTypes, JobTypes
  <2> QED
    BY <1>31, <1>0, <2>3 DEF TaskTypes, Release, JobVars
<1>32. ASSUME NEW c \in Clusters, StopOnNode(c) PROVE TaskTypes' /\ Chosen'
  <2>1. job[c].pc \in {"stop_started", "stop_olric", "stop_rqlite"}
    BY <1>32 DEF StopOnNode, At
  <2>2. PICK n \in job[c].todo : UndidOne(c, n)
    BY <1>32, <2>1, UndoneMoves DEF StopOnNode
  <2>3. job' \in [Clusters -> JobTypes] /\ Chosen'
    BY <1>0, <2>1, <2>2, TeamFacts, Constants DEF Chosen, UndidOne, Went, Moves,
        SamePlace, TaskTypes, JobTypes
  <2> QED
    BY <1>32, <1>0, <2>3 DEF TaskTypes, StopOnNode, JobVars
<1>33. ASSUME NEW c \in Clusters, StopLocal(c) PROVE TaskTypes' /\ Chosen'
  <2>1. Went(c, AfterPhase(c), Team(c))
    BY <1>33, StopLocalMoves
  <2>2. job[c].pc = "stop_all"
    BY <1>33 DEF StopLocal, At, Recording
  <2>3. job' \in [Clusters -> JobTypes] /\ Chosen'
    BY <1>0, <2>1, <2>2, TeamFacts, Constants DEF Chosen, Went, Moves, SamePlace,
        TaskTypes, JobTypes
  <2> QED
    BY <1>33, <1>0, <2>3 DEF TaskTypes, StopLocal, JobVars
<1>34. ASSUME NEW c \in Clusters, FreePorts(c) PROVE TaskTypes' /\ Chosen'
  <2>1. Went(c, "failed", {})
    BY <1>34, FreePortsMoves
  <2>2. job[c].pc = "free_ports"
    BY <1>34 DEF FreePorts, At, Recording
  <2>3. job' \in [Clusters -> JobTypes] /\ Chosen'
    BY <1>0, <2>1, <2>2, TeamFacts, Constants DEF Chosen, Went, Moves, SamePlace,
        TaskTypes, JobTypes
  <2> QED
    BY <1>34, <1>0, <2>3 DEF TaskTypes, FreePorts, JobVars
<1>35. ASSUME NEW c \in Clusters, Settle(c) PROVE TaskTypes' /\ Chosen'
  <2>1. Over(c)
    BY <1>35, SettleFacts DEF Settle
  <2>2. job[c].pc \in {"ready", "failed"}
    BY <1>35 DEF Settle, At, Recording
  <2>3. job' \in [Clusters -> JobTypes] /\ Chosen'
    BY <1>0, <2>1, <2>2, TeamFacts, Constants DEF Chosen, Over, TaskTypes, JobTypes
  <2> QED
    BY <1>35, <1>0, <2>3 DEF TaskTypes, Settle, JobVars
<1>36. ASSUME NEW c \in Clusters, Panic(c) PROVE TaskTypes' /\ Chosen'
  <2>1. Moves(c) /\ job'[c].pc = "failed"
    BY <1>36, PanicFacts
  <2>2. c \in JobsLive
    BY <1>36 DEF Panic, At, Recording
  <2>3. job' \in [Clusters -> JobTypes] /\ Chosen'
    BY <1>0, <2>1, <2>2, TeamFacts, Constants DEF Chosen, Moves, JobsLive, TaskTypes,
        JobTypes
  <2> QED
    BY <1>36, <1>0, <2>3 DEF TaskTypes, Panic, JobVars
<1>37. ASSUME NEW c \in Clusters, Expire(c) PROVE TaskTypes' /\ Chosen'
  <2>1. Moves(c) /\ SamePlace(c) /\ job'[c].pc = job[c].pc
    BY <1>37, ExpireFacts
  <2>2. c \in JobsLive
    BY <1>37 DEF Expire, At, Recording
  <2>3. job' \in [Clusters -> JobTypes] /\ Chosen'
    BY <1>0, <2>1, <2>2, TeamFacts, Constants DEF Chosen, Moves, SamePlace, JobsLive,
        TaskTypes, JobTypes
  <2> QED
    BY <1>37, <1>0, <2>3 DEF TaskTypes, Expire, JobVars
<1>38. CASE UNCHANGED vars
  BY <1>38, <1>0 DEF vars, TaskTypes, Chosen
<1> QED
  BY <1>1, <1>2, <1>3, <1>4, <1>5, <1>6, <1>7, <1>8, <1>9, <1>10, <1>11, <1>12, <1>13,
      <1>14, <1>15, <1>16, <1>17, <1>18, <1>19, <1>20, <1>21, <1>22, <1>23, <1>24, <1>25,
      <1>26, <1>27, <1>28, <1>29, <1>30, <1>31, <1>32, <1>33, <1>34, <1>35, <1>36, <1>37,
      <1>38 DEF Next, Request, Removal, Restore, Job

\* Every action keeps the types.
LEMMA TypesNext ==
    ASSUME Types, [Next]_vars
    PROVE  Types'
BY TablesStep, DisksStep, TasksStep, CountsStep DEF Types

\* What a goroutine leaves alone.
LEMMA JobFrame ==
    ASSUME NEW c \in Clusters, Job(c) \/ Panic(c) \/ Expire(c)
    PROVE  /\ file' = file /\ up' = up /\ req' = req /\ dep' = dep /\ restore' = restore
           /\ next' = next /\ cluster' = cluster
<1> USE DEF JobVars, tables
<1>1. CASE SelectNodesForCluster(c)
  BY <1>1 DEF SelectNodesForCluster
<1>2. CASE AllocatePortBlock(c) \/ AllocationFails(c)
  BY <1>2 DEF AllocatePortBlock, AllocationFails, SetPorts
<1>3. CASE \E kind \in {"rqlite", "gateway"} : Spawn(c, kind) \/ SpawnFails(c, kind)
  BY <1>3 DEF Spawn, SpawnFails
<1>4. CASE \/ RecordNode(c, "rqlite", "olric") \/ RecordNode(c, "olric", "gateway")
           \/ RecordNode(c, "gateway", "dns")
  BY <1>4, Zenon DEF RecordNode, SetRows
<1>5. CASE SpawnOlric(c)
  BY <1>5 DEF SpawnOlric
<1>6. CASE ClearDNS(c) \/ InsertDNS(c)
  BY <1>6 DEF ClearDNS, InsertDNS, SetDNS
<1>7. CASE Release(c) \/ FreePorts(c)
  BY <1>7 DEF Release, FreePorts, SetPorts
<1>8. CASE StopOnNode(c) \/ StopLocal(c)
  BY <1>8 DEF StopOnNode, StopLocal
<1>9. CASE Settle(c)
  BY <1>9 DEF Settle, SetStatus
<1>10. CASE Panic(c) \/ Expire(c)
  BY <1>10 DEF Panic, Expire
<1> QED
  BY <1>1, <1>2, <1>3, <1>4, <1>5, <1>6, <1>7, <1>8, <1>9, <1>10 DEF Job

\* A step that leaves goroutines and locks alone keeps the exclusion,
LEMMA LocksSame ==
    ASSUME Locks, job' = job, lock' = lock, next' = next, up \subseteq up',
           \A n \in Nodes : req'[n].pc = "insert" => req[n].pc = "insert"
    PROVE  Locks'
BY DEF Locks, OneGoroutine, JobsLive

\* and so does one that moves a single goroutine.
LEMMA LocksMoved ==
    ASSUME Locks, NEW c \in JobsLive, Moves(c), lock' = lock, next' = next, up' = up, req' = req
    PROVE  Locks'
BY DEF Locks, OneGoroutine, JobsLive, Moves

\* A step that moves no task, and starts units only on nodes that run, keeps tasks
\* and units there.
LEMMA PlacesSame ==
    ASSUME Places, UNCHANGED <<req, dep, restore, up>>,
           \A n \in Nodes, k \in Kinds : svc'[n][k] # None => n \in up
    PROVE  Places'
BY DEF Places

\* Units are started on nodes that run.
LEMMA UnitsPlaced ==
    ASSUME DiskTypes, Places, NEW n \in Nodes, NEW k \in Kinds, NEW c,
           \/ n \in up /\ (StartService(n, k, c) \/ StartUnconfirmed(n, k, c))
           \/ StopService(n, k) \/ StopAll(n) \/ UNCHANGED svc
    PROVE  \A m \in Nodes, kind \in Kinds : svc'[m][kind] # None => m \in up
<1> SUFFICES ASSUME NEW m \in Nodes, NEW kind \in Kinds, svc'[m][kind] # None
             PROVE  m \in up
  OBVIOUS
<1>1. /\ svc \in [Nodes -> [Kinds -> Clusters \cup {None}]]
      /\ svc[n] \in [Kinds -> Clusters \cup {None}] /\ svc[m] \in [Kinds -> Clusters \cup {None}]
      /\ (svc[m][kind] # None => m \in up)
  BY DEF DiskTypes, Places
<1>2. CASE n \in up /\ (StartService(n, k, c) \/ StartUnconfirmed(n, k, c))
  BY <1>1, <1>2 DEF StartService, StartUnconfirmed
<1>3. CASE StopService(n, k)
  BY <1>1, <1>3 DEF StopService
<1>4. CASE StopAll(n)
  BY <1>1, <1>4 DEF StopAll
<1>5. CASE UNCHANGED svc
  BY <1>1, <1>5
<1> QED
  BY <1>2, <1>3, <1>4, <1>5

\* Tasks and units stay on nodes that run.
LEMMA PlacesStep ==
    ASSUME Types, Places, Locks, [Next]_vars
    PROVE  Places'
<1>0. TaskTypes /\ TableTypes /\ DiskTypes
  BY DEF Types
<1>1. ASSUME NEW n \in Nodes, CheckNamespaceCluster(n) PROVE Places'
  <2>1. \/ cluster = None /\ Asks(n, "provision", req[n].c)
        \/ cluster # None /\ status = "failed" /\ Asks(n, "drop", cluster)
    BY <1>1, CheckMoves
  <2> QED
    BY <1>1, <1>0, <2>1, Constants DEF Places, TableTypes, CheckNamespaceCluster,
        ReqVars, disks, Asks
<1>2. ASSUME NEW n \in Nodes, DropFailed(n) PROVE Places'
  <2>1. Asks(n, "free", req[n].c)
    BY <1>2, RequestMoves
  <2> QED
    BY <1>2, <1>0, <2>1, Constants DEF Places, TableTypes, DropFailed, ReqVars, disks, Asks
<1>3. ASSUME NEW n \in Nodes, FreeFailed(n) PROVE Places'
  <2>1. Asks(n, "provision", None)
    BY <1>3, RequestMoves
  <2> QED
    BY <1>3, <1>0, <2>1, Constants DEF Places, TableTypes, FreeFailed, ReqVars, disks, Asks
<1>4. ASSUME NEW n \in Nodes, ProvisionNamespaceCluster(n) PROVE Places'
  <2>1. \/ lock' = lock /\ Asks(n, "idle", None)
        \/ n \notin lock /\ lock' = lock \cup {n} /\ Asks(n, "insert", req[n].c)
    BY <1>4, RequestMoves
  <2> QED
    BY <1>4, <1>0, <2>1, Constants DEF Places, TableTypes, ProvisionNamespaceCluster,
        ReqVars, disks, Asks
<1>5. ASSUME NEW n \in Nodes, InsertCluster(n) PROVE Places'
  <2>1. Asks(n, "idle", None)
    BY <1>5, RequestMoves
  <2>2. /\ next \in Clusters /\ job' \in [Clusters -> JobTypes]
        /\ \A d \in Clusters \ {next} : job'[d] = job[d]
        /\ job'[next].pc = "select" /\ job'[next].at = n
        /\ ~job'[next].expired /\ job'[next].bad = {}
    BY <1>5, InsertFacts
  <2> QED
    BY <1>5, <1>0, <2>1, <2>2, Constants DEF Places, TableTypes, InsertCluster, ReqVars,
        disks, Asks
<1>6. ASSUME NEW n \in Nodes, InsertFails(n) PROVE Places'
  <2>1. Asks(n, "idle", None)
    BY <1>6, RequestMoves
  <2> QED
    BY <1>6, <1>0, <2>1, Constants DEF Places, TableTypes, InsertFails, ReqVars, disks, Asks
<1>7. ASSUME NEW n \in Nodes, Deprovision(n) PROVE Places'
  <2>1. Removes(n, "mark", cluster, {}, {}, FALSE)
    BY <1>7, DepMoves
  <2> QED
    BY <1>7, <1>0, <2>1, Constants DEF Places, TableTypes, Deprovision, DepVars, disks,
        DepAt, Removes
<1>8. ASSUME NEW n \in Nodes, DepMark(n) PROVE Places'
  <2>1. Goes(n, "nodes")
    BY <1>8, DepMoves
  <2> QED
    BY <1>8, <1>0, <2>1, Constants DEF Places, TableTypes, DepMark, DepVars, disks,
        DepAt, Goes, Removes
<1>9. ASSUME NEW n \in Nodes, DepNodes(n) PROVE Places'
  <2>1. PICK on \in SUBSET Nodes :
           /\ \/ on = {m \in Nodes : \E r \in RowsOf(dep[n].c) : r[2] = m}
              \/ ~calm'
           /\ Removes(n, IF on = {} THEN "ports" ELSE "gateway", dep[n].c, on, on, dep[n].cut)
    BY <1>9, DepNodesMoves
  <2> QED
    BY <1>9, <1>0, <2>1, Constants DEF Places, TableTypes, DepNodes, DepVars, disks,
        DepAt, Removes
<1>10. ASSUME NEW n \in Nodes, DepStop(n) PROVE Places'
  <2>1. dep[n].pc \in {"gateway", "olric", "rqlite", "file"}
    BY <1>10, DepStopMoves
  <2>2. PICK m \in dep[n].todo :
           /\ StepsOn(n, m)
           /\ \/ /\ dep[n].pc = "file"
                 /\ file' = [file EXCEPT ![m] = NoFile] /\ UNCHANGED units
              \/ /\ dep[n].pc # "file"
                 /\ StopService(m, dep[n].pc) /\ UNCHANGED file
              \/ UNCHANGED <<disks, astray>> /\ (calm' => m \notin up)
    BY <1>10, DepStopMoves
  <2>3. m \in Nodes /\ (dep[n].pc # "file" => dep[n].pc \in Kinds)
    BY <1>0, <2>1 DEF TaskTypes, Kinds
  <2>4. \A x \in Nodes, kd \in Kinds : svc'[x][kd] # None => x \in up
    BY <1>0, <2>2, <2>3, UnitsPlaced DEF Places, disks, units
  <2>5. n \in up /\ dep[n].c \in Clusters
    BY <2>1 DEF Places
  <2> QED
    BY <1>10, <1>0, <2>2, <2>4, <2>5 DEF Places, DepStop, DepVars, StepsOn, Goes, Removes
<1>11. ASSUME NEW n \in Nodes, DepDelete(n) PROVE Places'
  <2>1. \/ dep[n].pc = "ports" /\ Goes(n, "dns")
        \/ dep[n].pc = "dns" /\ Goes(n, "rows")
        \/ dep[n].pc = "rows" /\ Goes(n, "ports2")
        \/ dep[n].pc = "ports2" /\ Goes(n, "delete")
        \/ dep[n].pc = "delete" /\ Removes(n, "idle", None, {}, {}, FALSE)
    BY <1>11, DepMoves
  <2> QED
    BY <1>11, <1>0, <2>1, Constants DEF Places, TableTypes, DepDelete, DepVars, disks,
        DepAt, Goes, Removes
<1>12. ASSUME NEW n \in Nodes, Disconnect(n) PROVE Places'
  <2>1. Removes(n, dep[n].pc, dep[n].c, dep[n].on, dep[n].todo, TRUE)
    BY <1>12, DepMoves
  <2> QED
    BY <1>12, <1>0, <2>1, Constants DEF Places, TableTypes, Disconnect, DepVars, disks,
        DepAt, Removes
<1>13. ASSUME NEW n \in Nodes, Crash(n) PROVE Places'
  BY <1>13, <1>0 DEF Crash, StopAll, Places, NoReq, NoDep, NoRestore, TaskTypes, DiskTypes
<1>14. ASSUME NEW n \in Nodes, Restart(n) PROVE Places'
  <2>1. Continues(n, "disk")
    BY <1>14, RestoreMoves
  <2> QED
    BY <1>14, <1>0, <2>1, Constants DEF Places, TableTypes, Restart, RestoreVars, disks,
        Continues, Restores
<1>15. ASSUME NEW n \in Nodes, RestoreFromDisk(n) PROVE Places'
  <2>1. \/ file[n] = NoFile /\ UNCHANGED <<disks, astray>> /\ Continues(n, "query")
        \/ /\ file[n] = NoFile /\ UNCHANGED disks /\ Ceases(n)
           /\ astray' = [astray EXCEPT ![n] = Kinds]
        \/ /\ file[n] # NoFile /\ ~Assigned(n, file[n].c)
           /\ StopAll(n) /\ file' = [file EXCEPT ![n] = NoFile] /\ Ceases(n)
        \/ /\ file[n] # NoFile /\ (calm' => Assigned(n, file[n].c)) /\ UNCHANGED <<disks, astray>>
           /\ Restores(n, "rqlite", file[n].c, file[n].gw, TRUE)
    BY <1>15, RestoreFromDiskMoves
  <2>2. \A m \in Nodes, kd \in Kinds : svc'[m][kd] # None => m \in up
    <3>1. StopAll(n) \/ UNCHANGED svc
      BY <2>1 DEF disks
    <3>2. "rqlite" \in Kinds
      BY DEF Kinds
    <3> QED
      BY <1>0, <3>1, <3>2, UnitsPlaced
  <2>3. n \in up
    BY <1>15 DEF Places, RestoreFromDisk, RestoreAt
  <2> QED
    BY <1>15, <1>0, <2>1, <2>2, <2>3 DEF Places, RestoreFromDisk, RestoreVars, Continues,
        Ceases, Restores
<1>16. ASSUME NEW n \in Nodes, RestoreQuery(n) PROVE Places'
  <2>1. \/ /\ status = "ready" /\ Assigned(n, cluster)
           /\ Restores(n, "ports", cluster, FALSE, FALSE)
        \/ /\ calm' => ~(status = "ready" /\ Assigned(n, cluster))
           /\ Ceases(n)
    BY <1>16, RestoreMoves
  <2> QED
    BY <1>16, <1>0, <2>1, Constants DEF Places, TableTypes, RestoreQuery, RestoreVars,
        disks, RestoreAt, Ceases, Restores
<1>17. ASSUME NEW n \in Nodes, RestorePorts(n) PROVE Places'
  <2>1. \/ /\ <<restore[n].c, n>> \in ports
           /\ Restores(n, "rqlite", restore[n].c,
                       \E r \in RowsOf(restore[n].c) : r[3] = "gateway", restore[n].disk)
        \/ ~calm' /\ Ceases(n)
    BY <1>17, RestoreMoves
  <2> QED
    BY <1>17, <1>0, <2>1, Constants DEF Places, TableTypes, RestorePorts, RestoreVars,
        disks, RestoreAt, Ceases, Restores
<1>18. ASSUME NEW n \in Nodes, RestoreService(n) PROVE Places'
  <2>1. restore[n].pc \in Kinds
    BY <1>18, RestoreServiceMoves
  <2>2. \/ restore[n].pc = "rqlite" /\ Continues(n, "olric")
        \/ restore[n].pc = "olric" /\ restore[n].gw /\ Continues(n, "gateway")
        \/ /\ restore[n].pc # "rqlite" /\ ~(restore[n].pc = "olric" /\ restore[n].gw)
           /\ \/ restore[n].disk /\ Ceases(n)
              \/ ~restore[n].disk /\ Continues(n, "save")
    BY <1>18, RestoreServiceMoves
  <2>3. n \in up /\ n \in Nodes
    BY <2>1 DEF Places, Kinds
  <2>4. StartService(n, restore[n].pc, restore[n].c) \/ UNCHANGED svc
    BY <1>18 DEF RestoreService, units
  <2>5. \A m \in Nodes, kd \in Kinds : svc'[m][kd] # None => m \in up
    BY <1>0, <2>1, <2>3, <2>4, UnitsPlaced DEF Places
  <2> QED
    BY <1>18, <1>0, <2>2, <2>3, <2>5 DEF Places, RestoreService, RestoreVars, Continues,
        Ceases, Restores
<1>19. ASSUME NEW n \in Nodes, RestoreSave(n) PROVE Places'
  <2>1. Ceases(n)
    BY <1>19, RestoreMoves
  <2> QED
    BY <1>19, <1>0, <2>1, Constants DEF Places, TableTypes, RestoreSave, RestoreVars, units,
        RestoreAt, Ceases, Restores
<1>20. ASSUME NEW c \in Clusters, SelectNodesForCluster(c) PROVE Places'
  <2>1. \A m \in Nodes, kd \in Kinds : svc'[m][kd] # None => m \in up
    BY <1>20 DEF SelectNodesForCluster, units, Places
  <2>2. UNCHANGED <<req, dep, restore, up>>
    BY <1>20, JobFrame DEF Job
  <2> QED
    BY <2>1, <2>2, PlacesSame
<1>21. ASSUME NEW c \in Clusters, AllocatePortBlock(c) PROVE Places'
  <2>1. \A m \in Nodes, kd \in Kinds : svc'[m][kd] # None => m \in up
    BY <1>21 DEF AllocatePortBlock, units, Places
  <2>2. UNCHANGED <<req, dep, restore, up>>
    BY <1>21, JobFrame DEF Job
  <2> QED
    BY <2>1, <2>2, PlacesSame
<1>22. ASSUME NEW c \in Clusters, AllocationFails(c) PROVE Places'
  <2>1. \A m \in Nodes, kd \in Kinds : svc'[m][kd] # None => m \in up
    BY <1>22 DEF AllocationFails, units, Places
  <2>2. UNCHANGED <<req, dep, restore, up>>
    BY <1>22, JobFrame DEF Job
  <2> QED
    BY <2>1, <2>2, PlacesSame
<1>23. ASSUME NEW c \in Clusters, NEW kind \in {"rqlite", "gateway"}, Spawn(c, kind) PROVE Places'
  <2>1. Went(c, IF kind = "rqlite" THEN "record_rqlite" ELSE "record_gateway", {})
    BY <1>23, SpawnMoves
  <2>2. job[c].pc = kind
    BY <1>23 DEF Spawn, At, Recording
  <2>3. Node(c) \in Nodes /\ kind \in Kinds
    BY <2>2, Names, TeamFacts DEF Kinds
  <2>4. (Node(c) \in up /\ StartService(Node(c), kind, c)) \/ UNCHANGED svc
    BY <1>23, <2>2 DEF Spawn, Reaches, Locks, JobsLive
  <2>5. \A m \in Nodes, kd \in Kinds : svc'[m][kd] # None => m \in up
    BY <1>0, <2>3, <2>4, UnitsPlaced
  <2>6. UNCHANGED <<req, dep, restore, up>>
    BY <1>23, JobFrame DEF Job
  <2> QED
    BY <2>5, <2>6, PlacesSame
<1>24. ASSUME NEW c \in Clusters, NEW kind \in {"rqlite", "gateway"}, SpawnFails(c, kind)
      PROVE Places'
  <2>1. FellBack(c, kind)
    BY <1>24, SpawnFailsMoves
  <2>2. job[c].pc = kind
    BY <1>24 DEF SpawnFails, At, Recording
  <2>3. Node(c) \in Nodes /\ kind \in Kinds
    BY <2>2, Names, TeamFacts DEF Kinds
  <2>4. (Node(c) \in up /\ StartUnconfirmed(Node(c), kind, c)) \/ UNCHANGED svc
    BY <1>24, <2>2 DEF SpawnFails, units, Reaches, Locks, JobsLive
  <2>5. \A m \in Nodes, kd \in Kinds : svc'[m][kd] # None => m \in up
    BY <1>0, <2>3, <2>4, UnitsPlaced
  <2>6. UNCHANGED <<req, dep, restore, up>>
    BY <1>24, JobFrame DEF Job
  <2> QED
    BY <2>5, <2>6, PlacesSame
<1>25. ASSUME NEW c \in Clusters, RecordNode(c, "rqlite", "olric") PROVE Places'
  <2>1. \A m \in Nodes, kd \in Kinds : svc'[m][kd] # None => m \in up
    BY <1>25 DEF RecordNode, units, Places
  <2>2. UNCHANGED <<req, dep, restore, up>>
    BY <1>25, JobFrame DEF Job
  <2> QED
    BY <2>1, <2>2, PlacesSame
<1>26. ASSUME NEW c \in Clusters, RecordNode(c, "olric", "gateway") PROVE Places'
  <2>1. \A m \in Nodes, kd \in Kinds : svc'[m][kd] # None => m \in up
    BY <1>26 DEF RecordNode, units, Places
  <2>2. UNCHANGED <<req, dep, restore, up>>
    BY <1>26, JobFrame DEF Job
  <2> QED
    BY <2>1, <2>2, PlacesSame
<1>27. ASSUME NEW c \in Clusters, RecordNode(c, "gateway", "dns") PROVE Places'
  <2>1. \A m \in Nodes, kd \in Kinds : svc'[m][kd] # None => m \in up
    BY <1>27 DEF RecordNode, units, Places
  <2>2. UNCHANGED <<req, dep, restore, up>>
    BY <1>27, JobFrame DEF Job
  <2> QED
    BY <2>1, <2>2, PlacesSame
<1>28. ASSUME NEW c \in Clusters, SpawnOlric(c) PROVE Places'
  <2>1. PICK n \in job[c].todo :
           OlricAnswers(c, n, FALSE) \/ OlricAnswers(c, n, TRUE)
    BY <1>28 DEF SpawnOlric
  <2>2. job[c].pc = "olric"
    BY <1>28 DEF SpawnOlric, At
  <2>3. Answered(c, n, job[c].bad) \/ Answered(c, n, job[c].bad \cup {n})
    BY <2>1, <2>2, OlricMoves
  <2>4. PICK m \in job[c].todo :
           \/ m \in up /\ (StartService(m, "olric", c) \/ StartUnconfirmed(m, "olric", c))
           \/ UNCHANGED svc
    BY <1>28, <2>2 DEF SpawnOlric, units, Reaches, Locks, JobsLive
  <2>5. m \in Nodes /\ "olric" \in Kinds
    BY <1>0 DEF TaskTypes, JobTypes, Kinds
  <2>6. \A x \in Nodes, kd \in Kinds : svc'[x][kd] # None => x \in up
    BY <1>0, <2>4, <2>5, UnitsPlaced
  <2>7. UNCHANGED <<req, dep, restore, up>>
    BY <1>28, JobFrame DEF Job
  <2> QED
    BY <2>6, <2>7, PlacesSame
<1>29. ASSUME NEW c \in Clusters, ClearDNS(c) PROVE Places'
  <2>1. \A m \in Nodes, kd \in Kinds : svc'[m][kd] # None => m \in up
    BY <1>29 DEF ClearDNS, units, Places
  <2>2. UNCHANGED <<req, dep, restore, up>>
    BY <1>29, JobFrame DEF Job
  <2> QED
    BY <2>1, <2>2, PlacesSame
<1>30. ASSUME NEW c \in Clusters, InsertDNS(c) PROVE Places'
  <2>1. \A m \in Nodes, kd \in Kinds : svc'[m][kd] # None => m \in up
    BY <1>30 DEF InsertDNS, units, Places
  <2>2. UNCHANGED <<req, dep, restore, up>>
    BY <1>30, JobFrame DEF Job
  <2> QED
    BY <2>1, <2>2, PlacesSame
<1>31. ASSUME NEW c \in Clusters, Release(c) PROVE Places'
  <2>1. \A m \in Nodes, kd \in Kinds : svc'[m][kd] # None => m \in up
    BY <1>31 DEF Release, units, Places
  <2>2. UNCHANGED <<req, dep, restore, up>>
    BY <1>31, JobFrame DEF Job
  <2> QED
    BY <2>1, <2>2, PlacesSame
<1>32. ASSUME NEW c \in Clusters, StopOnNode(c) PROVE Places'
  <2>1. job[c].pc \in {"stop_started", "stop_olric", "stop_rqlite"}
    BY <1>32 DEF StopOnNode, At
  <2>2. PICK n \in job[c].todo : UndidOne(c, n)
    BY <1>32, <2>1, UndoneMoves DEF StopOnNode
  <2>3. PICK m \in job[c].todo : UNCHANGED svc \/ \E kd \in Kinds : StopService(m, kd)
    <3>1. (IF At(c, "stop_started") THEN job[c].kind ELSE StopPhase[job[c].pc]) \in Kinds
      BY <1>0, <2>1 DEF StopPhase, Kinds, At, TaskTypes, JobTypes
    <3>2. PICK m \in job[c].todo :
             \/ StopService(m, IF At(c, "stop_started") THEN job[c].kind ELSE StopPhase[job[c].pc])
             \/ UNCHANGED units
      BY <1>32, Zenon DEF StopOnNode
    <3> QED
      BY <3>1, <3>2 DEF units
  <2>4. m \in Nodes
    BY <1>0 DEF TaskTypes, JobTypes
  <2>5. \A x \in Nodes, kd \in Kinds : svc'[x][kd] # None => x \in up
    BY <1>0, <2>3, <2>4, UnitsPlaced DEF Places
  <2>6. UNCHANGED <<req, dep, restore, up>>
    BY <1>32, JobFrame DEF Job
  <2> QED
    BY <2>5, <2>6, PlacesSame
<1>33. ASSUME NEW c \in Clusters, StopLocal(c) PROVE Places'
  <2>1. \A m \in Nodes, kd \in Kinds : svc'[m][kd] # None => m \in up
    BY <1>33, <1>0 DEF StopLocal, StopAll, DiskTypes, Places
  <2>2. UNCHANGED <<req, dep, restore, up>>
    BY <1>33, JobFrame DEF Job
  <2> QED
    BY <2>1, <2>2, PlacesSame
<1>34. ASSUME NEW c \in Clusters, FreePorts(c) PROVE Places'
  <2>1. \A m \in Nodes, kd \in Kinds : svc'[m][kd] # None => m \in up
    BY <1>34 DEF FreePorts, units, Places
  <2>2. UNCHANGED <<req, dep, restore, up>>
    BY <1>34, JobFrame DEF Job
  <2> QED
    BY <2>1, <2>2, PlacesSame
<1>35. ASSUME NEW c \in Clusters, Settle(c) PROVE Places'
  <2>1. \A m \in Nodes, kd \in Kinds : svc'[m][kd] # None => m \in up
    BY <1>35 DEF Settle, units, Places
  <2>2. UNCHANGED <<req, dep, restore, up>>
    BY <1>35, JobFrame DEF Job
  <2> QED
    BY <2>1, <2>2, PlacesSame
<1>36. ASSUME NEW c \in Clusters, Panic(c) PROVE Places'
  <2>1. \A m \in Nodes, kd \in Kinds : svc'[m][kd] # None => m \in up
    BY <1>36 DEF Panic, units, Places
  <2>2. UNCHANGED <<req, dep, restore, up>>
    BY <1>36, JobFrame DEF Job
  <2> QED
    BY <2>1, <2>2, PlacesSame
<1>37. ASSUME NEW c \in Clusters, Expire(c) PROVE Places'
  <2>1. \A m \in Nodes, kd \in Kinds : svc'[m][kd] # None => m \in up
    BY <1>37 DEF Expire, units, Places
  <2>2. UNCHANGED <<req, dep, restore, up>>
    BY <1>37, JobFrame DEF Job
  <2> QED
    BY <2>1, <2>2, PlacesSame
<1>38. CASE UNCHANGED vars
  BY <1>38 DEF vars, disks, Places
<1> QED
  BY <1>1, <1>2, <1>3, <1>4, <1>5, <1>6, <1>7, <1>8, <1>9, <1>10, <1>11, <1>12, <1>13,
      <1>14, <1>15, <1>16, <1>17, <1>18, <1>19, <1>20, <1>21, <1>22, <1>23, <1>24, <1>25,
      <1>26, <1>27, <1>28, <1>29, <1>30, <1>31, <1>32, <1>33, <1>34, <1>35, <1>36, <1>37,
      <1>38 DEF Next, Request, Removal, Restore, Job

\* The map admits one goroutine per manager.
LEMMA LocksStep ==
    ASSUME Types, Places, Locks, [Next]_vars
    PROVE  Locks'
<1>0. TaskTypes /\ TableTypes /\ Clusters \subseteq Nat
  BY Constants DEF Types
<1>1. ASSUME NEW n \in Nodes, CheckNamespaceCluster(n) PROVE Locks'
  <2>1. \/ cluster = None /\ Asks(n, "provision", req[n].c)
        \/ cluster # None /\ status = "failed" /\ Asks(n, "drop", cluster)
    BY <1>1, CheckMoves
  <2>2. job' = job /\ lock' = lock /\ next' = next /\ up \subseteq up'
    BY <1>1 DEF CheckNamespaceCluster, ReqVars, tables
  <2>3. \A m \in Nodes : req'[m].pc = "insert" => req[m].pc = "insert"
    BY <1>0, <2>1 DEF Asks, TaskTypes
  <2> QED
    BY <2>2, <2>3, LocksSame
<1>2. ASSUME NEW n \in Nodes, DropFailed(n) PROVE Locks'
  <2>1. Asks(n, "free", req[n].c)
    BY <1>2, RequestMoves
  <2>2. job' = job /\ lock' = lock /\ next' = next /\ up \subseteq up'
    BY <1>2 DEF DropFailed, DeleteRecord, ReqVars, tables
  <2>3. \A m \in Nodes : req'[m].pc = "insert" => req[m].pc = "insert"
    BY <1>0, <2>1 DEF Asks, TaskTypes
  <2> QED
    BY <2>2, <2>3, LocksSame
<1>3. ASSUME NEW n \in Nodes, FreeFailed(n) PROVE Locks'
  <2>1. Asks(n, "provision", None)
    BY <1>3, RequestMoves
  <2>2. job' = job /\ lock' = lock /\ next' = next /\ up \subseteq up'
    BY <1>3 DEF FreeFailed, SetPorts, ReqVars, tables
  <2>3. \A m \in Nodes : req'[m].pc = "insert" => req[m].pc = "insert"
    BY <1>0, <2>1 DEF Asks, TaskTypes
  <2> QED
    BY <2>2, <2>3, LocksSame
<1>4. ASSUME NEW n \in Nodes, ProvisionNamespaceCluster(n) PROVE Locks'
  <2>1. \/ lock' = lock /\ Asks(n, "idle", None)
        \/ n \notin lock /\ lock' = lock \cup {n} /\ Asks(n, "insert", req[n].c)
    BY <1>4, RequestMoves
  <2>2. next' = next /\ up' = up /\ job' = job
    BY <1>4 DEF ProvisionNamespaceCluster, ReqVars, tables
  <2> QED
    BY <1>0, <2>1, <2>2 DEF Locks, OneGoroutine, JobsLive, Asks
<1>5. ASSUME NEW n \in Nodes, InsertCluster(n) PROVE Locks'
  <2>1. Asks(n, "idle", None)
    BY <1>5, RequestMoves
  <2>2. /\ next \in Clusters /\ job' \in [Clusters -> JobTypes]
        /\ \A d \in Clusters \ {next} : job'[d] = job[d]
        /\ job'[next].pc = "select" /\ job'[next].at = n
        /\ ~job'[next].expired /\ job'[next].bad = {}
    BY <1>5, InsertFacts
  <2>3. req[n].pc = "insert" /\ next' = next + 1 /\ lock' = lock /\ up' = up
    BY <1>5 DEF InsertCluster, CreateRecord, ReqVars
  <2>4. n \in lock /\ n \in up /\ \A d \in JobsLive : job[d].at # n
    BY <2>3 DEF Locks, Places
  <2> QED
    BY <1>0, <2>1, <2>2, <2>3, <2>4 DEF Locks, OneGoroutine, JobsLive, Asks, TableTypes
<1>6. ASSUME NEW n \in Nodes, InsertFails(n) PROVE Locks'
  <2>1. Asks(n, "idle", None)
    BY <1>6, RequestMoves
  <2>2. (next' = next \/ next' = next + 1) /\ lock' = lock \ {n} /\ up' = up /\ job' = job
        /\ req[n].pc = "insert"
    BY <1>6 DEF InsertFails, CreateRecord, ReqVars, tables
  <2>3. \A d \in JobsLive : job[d].at # n
    BY <2>2 DEF Locks
  <2> QED
    BY <1>0, <2>1, <2>2, <2>3 DEF Locks, OneGoroutine, JobsLive, Asks, TableTypes
<1>7. ASSUME NEW n \in Nodes, Deprovision(n) PROVE Locks'
  <2>1. job' = job /\ lock' = lock /\ next' = next /\ up \subseteq up'
    BY <1>7 DEF Deprovision, DepVars, tables
  <2>2. \A m \in Nodes : req'[m].pc = "insert" => req[m].pc = "insert"
    BY <1>7 DEF Deprovision, DepVars
  <2> QED
    BY <2>1, <2>2, LocksSame
<1>8. ASSUME NEW n \in Nodes, DepMark(n) PROVE Locks'
  <2>1. job' = job /\ lock' = lock /\ next' = next /\ up \subseteq up'
    BY <1>8 DEF DepMark, SetStatus, DepVars, tables
  <2>2. \A m \in Nodes : req'[m].pc = "insert" => req[m].pc = "insert"
    BY <1>8 DEF DepMark, DepVars
  <2> QED
    BY <2>1, <2>2, LocksSame
<1>9. ASSUME NEW n \in Nodes, DepNodes(n) PROVE Locks'
  <2>1. job' = job /\ lock' = lock /\ next' = next /\ up \subseteq up'
    BY <1>9 DEF DepNodes, DepVars, tables
  <2>2. \A m \in Nodes : req'[m].pc = "insert" => req[m].pc = "insert"
    BY <1>9 DEF DepNodes, DepVars
  <2> QED
    BY <2>1, <2>2, LocksSame
<1>10. ASSUME NEW n \in Nodes, DepStop(n) PROVE Locks'
  <2>1. job' = job /\ lock' = lock /\ next' = next /\ up \subseteq up'
    BY <1>10 DEF DepStop, DepVars, tables
  <2>2. \A m \in Nodes : req'[m].pc = "insert" => req[m].pc = "insert"
    BY <1>10 DEF DepStop, DepVars
  <2> QED
    BY <2>1, <2>2, LocksSame
<1>11. ASSUME NEW n \in Nodes, DepDelete(n) PROVE Locks'
  <2>1. job' = job /\ lock' = lock /\ next' = next /\ up \subseteq up'
    BY <1>11, Zenon DEF DepDelete, SetPorts, SetRows, SetDNS, DeleteRecord, DepVars, tables
  <2>2. \A m \in Nodes : req'[m].pc = "insert" => req[m].pc = "insert"
    BY <1>11 DEF DepDelete, DepVars
  <2> QED
    BY <2>1, <2>2, LocksSame
<1>12. ASSUME NEW n \in Nodes, Disconnect(n) PROVE Locks'
  <2>1. job' = job /\ lock' = lock /\ next' = next /\ up \subseteq up'
    BY <1>12 DEF Disconnect, DepVars, tables
  <2>2. \A m \in Nodes : req'[m].pc = "insert" => req[m].pc = "insert"
    BY <1>12 DEF Disconnect, DepVars
  <2> QED
    BY <2>1, <2>2, LocksSame
<1>13. ASSUME NEW n \in Nodes, Crash(n) PROVE Locks'
  BY <1>13, <1>0 DEF Crash, Locks, OneGoroutine, JobsLive, NoReq, NoJob, TaskTypes, tables
<1>14. ASSUME NEW n \in Nodes, Restart(n) PROVE Locks'
  <2>1. job' = job /\ lock' = lock /\ next' = next /\ up \subseteq up'
    BY <1>14 DEF Restart, RestoreVars, tables
  <2>2. \A m \in Nodes : req'[m].pc = "insert" => req[m].pc = "insert"
    BY <1>14 DEF Restart, RestoreVars
  <2> QED
    BY <2>1, <2>2, LocksSame
<1>15. ASSUME NEW n \in Nodes, RestoreFromDisk(n) PROVE Locks'
  <2>1. job' = job /\ lock' = lock /\ next' = next /\ up \subseteq up'
    BY <1>15 DEF RestoreFromDisk, RestoreVars, tables
  <2>2. \A m \in Nodes : req'[m].pc = "insert" => req[m].pc = "insert"
    BY <1>15 DEF RestoreFromDisk, RestoreVars
  <2> QED
    BY <2>1, <2>2, LocksSame
<1>16. ASSUME NEW n \in Nodes, RestoreQuery(n) PROVE Locks'
  <2>1. job' = job /\ lock' = lock /\ next' = next /\ up \subseteq up'
    BY <1>16 DEF RestoreQuery, RestoreVars, tables
  <2>2. \A m \in Nodes : req'[m].pc = "insert" => req[m].pc = "insert"
    BY <1>16 DEF RestoreQuery, RestoreVars
  <2> QED
    BY <2>1, <2>2, LocksSame
<1>17. ASSUME NEW n \in Nodes, RestorePorts(n) PROVE Locks'
  <2>1. job' = job /\ lock' = lock /\ next' = next /\ up \subseteq up'
    BY <1>17 DEF RestorePorts, RestoreVars, tables
  <2>2. \A m \in Nodes : req'[m].pc = "insert" => req[m].pc = "insert"
    BY <1>17 DEF RestorePorts, RestoreVars
  <2> QED
    BY <2>1, <2>2, LocksSame
<1>18. ASSUME NEW n \in Nodes, RestoreService(n) PROVE Locks'
  <2>1. job' = job /\ lock' = lock /\ next' = next /\ up \subseteq up'
    BY <1>18 DEF RestoreService, RestoreVars, tables
  <2>2. \A m \in Nodes : req'[m].pc = "insert" => req[m].pc = "insert"
    BY <1>18 DEF RestoreService, RestoreVars
  <2> QED
    BY <2>1, <2>2, LocksSame
<1>19. ASSUME NEW n \in Nodes, RestoreSave(n) PROVE Locks'
  <2>1. job' = job /\ lock' = lock /\ next' = next /\ up \subseteq up'
    BY <1>19 DEF RestoreSave, RestoreVars, tables
  <2>2. \A m \in Nodes : req'[m].pc = "insert" => req[m].pc = "insert"
    BY <1>19 DEF RestoreSave, RestoreVars
  <2> QED
    BY <2>1, <2>2, LocksSame
<1>20. ASSUME NEW c \in Clusters, SelectNodesForCluster(c) PROVE Locks'
  <2>1. Went(c, "failed", {}) \/ Selected(c)
    BY <1>20, SelectMoves
  <2>2. job[c].pc = "select"
    BY <1>20 DEF SelectNodesForCluster, At, Recording
  <2>3. next' = next /\ up' = up /\ req' = req /\ lock' = lock
    BY <1>20, JobFrame DEF Job, SelectNodesForCluster
  <2>4. c \in JobsLive /\ Moves(c)
    BY <2>1, <2>2 DEF JobsLive, Went, Moves, SamePlace, Selected
  <2> QED
    BY <2>3, <2>4, LocksMoved
<1>21. ASSUME NEW c \in Clusters, AllocatePortBlock(c) PROVE Locks'
  <2>1. Advanced(c, "allocate", "rqlite")
    BY <1>21, AllocateMoves
  <2>2. job[c].pc = "allocate"
    BY <1>21 DEF AllocatePortBlock, At, Recording
  <2>3. next' = next /\ up' = up /\ req' = req /\ lock' = lock
    BY <1>21, JobFrame DEF Job, AllocatePortBlock
  <2>4. c \in JobsLive /\ Moves(c)
    BY <2>1, <2>2 DEF JobsLive, Advanced, Moves
  <2> QED
    BY <2>3, <2>4, LocksMoved
<1>22. ASSUME NEW c \in Clusters, AllocationFails(c) PROVE Locks'
  <2>1. (Done(c) = {} /\ Went(c, "failed", {})) \/ Went(c, "release", Done(c))
    BY <1>22, AllocationFailsMoves
  <2>2. job[c].pc = "allocate"
    BY <1>22 DEF AllocationFails, At, Recording
  <2>3. next' = next /\ up' = up /\ req' = req /\ lock' = lock
    BY <1>22, JobFrame DEF Job, AllocationFails
  <2>4. c \in JobsLive /\ Moves(c)
    BY <2>1, <2>2 DEF JobsLive, Went, Moves, SamePlace
  <2> QED
    BY <2>3, <2>4, LocksMoved
<1>23. ASSUME NEW c \in Clusters, NEW kind \in {"rqlite", "gateway"}, Spawn(c, kind) PROVE Locks'
  <2>1. Went(c, IF kind = "rqlite" THEN "record_rqlite" ELSE "record_gateway", {})
    BY <1>23, SpawnMoves
  <2>2. job[c].pc = kind
    BY <1>23 DEF Spawn, At, Recording
  <2>3. next' = next /\ up' = up /\ req' = req /\ lock' = lock
    BY <1>23, JobFrame DEF Job, Spawn
  <2>4. c \in JobsLive /\ Moves(c)
    BY <2>1, <2>2 DEF JobsLive, Went, Moves, SamePlace
  <2> QED
    BY <2>3, <2>4, LocksMoved
<1>24. ASSUME NEW c \in Clusters, NEW kind \in {"rqlite", "gateway"}, SpawnFails(c, kind)
      PROVE Locks'
  <2>1. FellBack(c, kind)
    BY <1>24, SpawnFailsMoves
  <2>2. job[c].pc = kind
    BY <1>24 DEF SpawnFails, At, Recording
  <2>3. next' = next /\ up' = up /\ req' = req /\ lock' = lock
    BY <1>24, JobFrame DEF Job, SpawnFails
  <2>4. c \in JobsLive /\ Moves(c)
    BY <2>1, <2>2 DEF JobsLive, FellBack, Moves, SamePlace
  <2> QED
    BY <2>3, <2>4, LocksMoved
<1>25. ASSUME NEW c \in Clusters, RecordNode(c, "rqlite", "olric") PROVE Locks'
  <2>1. Advanced(c, "rqlite", "olric")
    BY <1>25, RecordMoves
  <2>2. job[c].pc = "record_rqlite"
    BY <1>25 DEF RecordNode, At, Recording
  <2>3. next' = next /\ up' = up /\ req' = req /\ lock' = lock
    BY <1>25, JobFrame DEF Job, RecordNode
  <2>4. c \in JobsLive /\ Moves(c)
    BY <2>1, <2>2 DEF JobsLive, Advanced, Moves
  <2> QED
    BY <2>3, <2>4, LocksMoved
<1>26. ASSUME NEW c \in Clusters, RecordNode(c, "olric", "gateway") PROVE Locks'
  <2>1. Advanced(c, "record_olric", "gateway")
    BY <1>26, RecordMoves
  <2>2. job[c].pc = "record_olric"
    BY <1>26 DEF RecordNode, At, Recording
  <2>3. next' = next /\ up' = up /\ req' = req /\ lock' = lock
    BY <1>26, JobFrame DEF Job, RecordNode
  <2>4. c \in JobsLive /\ Moves(c)
    BY <2>1, <2>2 DEF JobsLive, Advanced, Moves
  <2> QED
    BY <2>3, <2>4, LocksMoved
<1>27. ASSUME NEW c \in Clusters, RecordNode(c, "gateway", "dns") PROVE Locks'
  <2>1. Advanced(c, "gateway", "dns")
    BY <1>27, RecordMoves
  <2>2. job[c].pc = "record_gateway"
    BY <1>27 DEF RecordNode, At, Recording
  <2>3. next' = next /\ up' = up /\ req' = req /\ lock' = lock
    BY <1>27, JobFrame DEF Job, RecordNode
  <2>4. c \in JobsLive /\ Moves(c)
    BY <2>1, <2>2 DEF JobsLive, Advanced, Moves
  <2> QED
    BY <2>3, <2>4, LocksMoved
<1>28. ASSUME NEW c \in Clusters, SpawnOlric(c) PROVE Locks'
  <2>1. PICK n \in job[c].todo :
           OlricAnswers(c, n, FALSE) \/ OlricAnswers(c, n, TRUE)
    BY <1>28 DEF SpawnOlric
  <2>2. job[c].pc = "olric"
    BY <1>28 DEF SpawnOlric, At
  <2>3. Answered(c, n, job[c].bad) \/ Answered(c, n, job[c].bad \cup {n})
    BY <2>1, <2>2, OlricMoves
  <2>4. next' = next /\ up' = up /\ req' = req /\ lock' = lock
    BY <1>28, JobFrame DEF Job, SpawnOlric
  <2>5. c \in JobsLive /\ Moves(c)
    BY <2>1, <2>2, <2>3 DEF JobsLive, Answered, Moves, SamePlace
  <2> QED
    BY <2>4, <2>5, LocksMoved
<1>29. ASSUME NEW c \in Clusters, ClearDNS(c) PROVE Locks'
  <2>1. Went(c, "dns_insert", {})
    BY <1>29, ClearDNSMoves
  <2>2. job[c].pc = "dns"
    BY <1>29 DEF ClearDNS, At, Recording
  <2>3. next' = next /\ up' = up /\ req' = req /\ lock' = lock
    BY <1>29, JobFrame DEF Job, ClearDNS
  <2>4. c \in JobsLive /\ Moves(c)
    BY <2>1, <2>2 DEF JobsLive, Went, Moves, SamePlace
  <2> QED
    BY <2>3, <2>4, LocksMoved
<1>30. ASSUME NEW c \in Clusters, InsertDNS(c) PROVE Locks'
  <2>1. job[c].pc = "dns_insert"
    BY <1>30 DEF InsertDNS, At
  <2>2. Advanced(c, "dns_insert", "ready") \/ Went(c, "ready", {})
    BY <1>30, <2>1, InsertDNSMoves DEF InsertDNS
  <2>3. next' = next /\ up' = up /\ req' = req /\ lock' = lock
    BY <1>30, JobFrame DEF Job, InsertDNS
  <2>4. c \in JobsLive /\ Moves(c)
    BY <2>1, <2>2 DEF JobsLive, Advanced, Went, Moves, SamePlace
  <2> QED
    BY <2>3, <2>4, LocksMoved
<1>31. ASSUME NEW c \in Clusters, Release(c) PROVE Locks'
  <2>1. job[c].pc \in {"release"}
    BY <1>31 DEF Release, At
  <2>2. PICK n \in job[c].todo : UndidOne(c, n)
    BY <1>31, <2>1, UndoneMoves DEF Release
  <2>3. next' = next /\ up' = up /\ req' = req /\ lock' = lock
    BY <1>31, JobFrame DEF Job, Release
  <2>4. c \in JobsLive /\ Moves(c)
    BY <2>1, <2>2 DEF JobsLive, UndidOne, Went, Moves, SamePlace
  <2> QED
    BY <2>3, <2>4, LocksMoved
<1>32. ASSUME NEW c \in Clusters, StopOnNode(c) PROVE Locks'
  <2>1. job[c].pc \in {"stop_started", "stop_olric", "stop_rqlite"}
    BY <1>32 DEF StopOnNode, At
  <2>2. PICK n \in job[c].todo : UndidOne(c, n)
    BY <1>32, <2>1, UndoneMoves DEF StopOnNode
  <2>3. next' = next /\ up' = up /\ req' = req /\ lock' = lock
    BY <1>32, JobFrame DEF Job, StopOnNode
  <2>4. c \in JobsLive /\ Moves(c)
    BY <2>1, <2>2 DEF JobsLive, UndidOne, Went, Moves, SamePlace
  <2> QED
    BY <2>3, <2>4, LocksMoved
<1>33. ASSUME NEW c \in Clusters, StopLocal(c) PROVE Locks'
  <2>1. Went(c, AfterPhase(c), Team(c))
    BY <1>33, StopLocalMoves
  <2>2. job[c].pc = "stop_all"
    BY <1>33 DEF StopLocal, At, Recording
  <2>3. next' = next /\ up' = up /\ req' = req /\ lock' = lock
    BY <1>33, JobFrame DEF Job, StopLocal
  <2>4. c \in JobsLive /\ Moves(c)
    BY <2>1, <2>2 DEF JobsLive, Went, Moves, SamePlace
  <2> QED
    BY <2>3, <2>4, LocksMoved
<1>34. ASSUME NEW c \in Clusters, FreePorts(c) PROVE Locks'
  <2>1. Went(c, "failed", {})
    BY <1>34, FreePortsMoves
  <2>2. job[c].pc = "free_ports"
    BY <1>34 DEF FreePorts, At, Recording
  <2>3. next' = next /\ up' = up /\ req' = req /\ lock' = lock
    BY <1>34, JobFrame DEF Job, FreePorts
  <2>4. c \in JobsLive /\ Moves(c)
    BY <2>1, <2>2 DEF JobsLive, Went, Moves, SamePlace
  <2> QED
    BY <2>3, <2>4, LocksMoved
<1>35. ASSUME NEW c \in Clusters, Settle(c) PROVE Locks'
  <2>1. Over(c)
    BY <1>35, SettleFacts DEF Settle
  <2>2. job[c].pc \in {"ready", "failed"}
    BY <1>35 DEF Settle, At, Recording
  <2>3. next' = next /\ up' = up /\ req' = req /\ lock' = lock \ {job[c].at}
    BY <1>35, JobFrame DEF Job, Settle
  <2> QED
    BY <1>0, <2>1, <2>2, <2>3 DEF Over, Locks, OneGoroutine, JobsLive
<1>36. ASSUME NEW c \in Clusters, Panic(c) PROVE Locks'
  <2>1. Moves(c) /\ job'[c].pc = "failed"
    BY <1>36, PanicFacts
  <2>2. c \in JobsLive
    BY <1>36 DEF Panic, At, Recording
  <2>3. next' = next /\ up' = up /\ req' = req /\ lock' = lock
    BY <1>36, JobFrame DEF Job, Panic
  <2>4. c \in JobsLive /\ Moves(c)
    BY <2>1, <2>2 DEF JobsLive, Moves
  <2> QED
    BY <2>3, <2>4, LocksMoved
<1>37. ASSUME NEW c \in Clusters, Expire(c) PROVE Locks'
  <2>1. Moves(c) /\ SamePlace(c) /\ job'[c].pc = job[c].pc
    BY <1>37, ExpireFacts
  <2>2. c \in JobsLive
    BY <1>37 DEF Expire, At, Recording
  <2>3. next' = next /\ up' = up /\ req' = req /\ lock' = lock
    BY <1>37, JobFrame DEF Job, Expire
  <2>4. c \in JobsLive /\ Moves(c)
    BY <2>1, <2>2 DEF JobsLive, Moves, SamePlace
  <2> QED
    BY <2>3, <2>4, LocksMoved
<1>38. CASE UNCHANGED vars
  BY <1>38 DEF vars, tables, Locks, OneGoroutine, JobsLive
<1> QED
  BY <1>1, <1>2, <1>3, <1>4, <1>5, <1>6, <1>7, <1>8, <1>9, <1>10, <1>11, <1>12, <1>13,
      <1>14, <1>15, <1>16, <1>17, <1>18, <1>19, <1>20, <1>21, <1>22, <1>23, <1>24, <1>25,
      <1>26, <1>27, <1>28, <1>29, <1>30, <1>31, <1>32, <1>33, <1>34, <1>35, <1>36, <1>37,
      <1>38 DEF Next, Request, Removal, Restore, Job

\* A step that leaves the row of the cluster alone keeps what holds of it.
LEMMA RecordSame ==
    ASSUME Record, UNCHANGED <<next, cluster, status, req, dep, file, restore>>,
           JobsLive' \subseteq JobsLive
    PROVE  Record'
BY DEF Record, Used, Open

\* Names of clusters stay unique, and the record stays open for goroutines.
LEMMA RecordStep ==
    ASSUME Types, Places, Locks, Record, [Next]_vars
    PROVE  Record'
<1>0. /\ TaskTypes /\ TableTypes /\ DiskTypes
      /\ next \in Nat /\ None < next /\ cluster \in Clusters \cup {None}
  BY Constants DEF Types, TableTypes
<1>a. Clusters \subseteq Nat /\ None \in Nat /\ None \notin Clusters
  BY Constants
<1>b. /\ \A n \in Nodes : req[n].c \in Nat /\ dep[n].c \in Nat /\ file[n].c \in Nat /\ restore[n].c \in Nat
        /\ file \in [Nodes -> [c : Clusters \cup {None}, gw : BOOLEAN]]
  BY <1>a DEF Types, TaskTypes, DiskTypes
<1>c. NoFile.c = None
  BY DEF NoFile
<1>1. ASSUME NEW n \in Nodes, CheckNamespaceCluster(n) PROVE Record'
  <2>1. \/ cluster = None /\ Asks(n, "provision", req[n].c)
        \/ cluster # None /\ status = "failed" /\ Asks(n, "drop", cluster)
    BY <1>1, CheckMoves
  <2> QED
    BY <1>1, <1>0, <2>1 DEF Record, Used, Open, JobsLive, TableTypes, TaskTypes,
        CheckNamespaceCluster, ReqVars, tables, disks, Asks
<1>2. ASSUME NEW n \in Nodes, DropFailed(n) PROVE Record'
  <2>1. Asks(n, "free", req[n].c)
    BY <1>2, RequestMoves
  <2>2. /\ UNCHANGED <<dep, file, restore, job, next>> /\ req[n].pc = "drop"
        /\ \/ UNCHANGED <<cluster, status>>
           \/ cluster' = None /\ status' = "none"
    BY <1>2, Zenon DEF DropFailed, ReqVars, disks, tables, DeleteRecord
  <2>3. Used'
    BY <1>0, <1>a, <1>b, <2>1, <2>2 DEF Record, Used, Asks
  <2>4. Open'
    BY <1>0, <1>a, <2>1, <2>2 DEF Record, Open, JobsLive, Locks, Places, Asks
  <2> QED
    BY <2>3, <2>4 DEF Record
<1>3. ASSUME NEW n \in Nodes, FreeFailed(n) PROVE Record'
  <2>1. Asks(n, "provision", None)
    BY <1>3, RequestMoves
  <2>2. UNCHANGED <<next, cluster, status, job, dep, file, restore>>
    BY <1>3, Zenon DEF FreeFailed, SetPorts, ReqVars, tables, disks
  <2>3. Used'
    BY <1>0, <1>a, <1>b, <2>1, <2>2 DEF Record, Used, Asks
  <2>4. Open'
    BY <1>0, <1>a, <2>1, <2>2 DEF Record, Open, JobsLive, Locks, Places, Asks
  <2> QED
    BY <2>3, <2>4 DEF Record
<1>4. ASSUME NEW n \in Nodes, ProvisionNamespaceCluster(n) PROVE Record'
  <2>1. \/ lock' = lock /\ Asks(n, "idle", None)
        \/ n \notin lock /\ lock' = lock \cup {n} /\ Asks(n, "insert", req[n].c)
    BY <1>4, RequestMoves
  <2>2. UNCHANGED <<next, cluster, status, job, dep, file, restore>>
    BY <1>4 DEF ProvisionNamespaceCluster, ReqVars, tables, NoReq, disks
  <2>3. Used'
    BY <1>0, <1>a, <1>b, <2>1, <2>2 DEF Record, Used, Asks
  <2>4. Open'
    BY <1>0, <1>a, <2>1, <2>2 DEF Record, Open, JobsLive, Locks, Places, Asks
  <2> QED
    BY <2>3, <2>4 DEF Record
<1>5. ASSUME NEW n \in Nodes, InsertCluster(n) PROVE Record'
  <2>1. Asks(n, "idle", None)
    BY <1>5, RequestMoves
  <2>2. /\ next \in Clusters /\ job' \in [Clusters -> JobTypes]
        /\ \A d \in Clusters \ {next} : job'[d] = job[d]
        /\ job'[next].pc = "select" /\ job'[next].at = n
        /\ ~job'[next].expired /\ job'[next].bad = {}
    BY <1>5, InsertFacts
  <2>3. cluster' = next /\ status' = "provisioning" /\ next' = next + 1
        /\ UNCHANGED <<dep, file, restore>>
    BY <1>5 DEF InsertCluster, CreateRecord, ReqVars, disks
  <2>4. Used'
    BY <1>0, <1>a, <1>b, <2>1, <2>2, <2>3 DEF Record, Used, Asks
  <2>5. Open'
    BY <1>0, <1>a, <2>1, <2>2, <2>3 DEF Record, Open, JobsLive, Locks, Places, Asks
  <2> QED
    BY <2>4, <2>5 DEF Record
<1>6. ASSUME NEW n \in Nodes, InsertFails(n) PROVE Record'
  <2>1. Asks(n, "idle", None)
    BY <1>6, RequestMoves
  <2>2. /\ UNCHANGED <<dep, file, restore, job>>
        /\ \/ UNCHANGED <<cluster, status, next>>
           \/ cluster = None /\ cluster' = next /\ status' = "provisioning" /\ next' = next + 1 /\ next \in Clusters
    BY <1>6 DEF InsertFails, CreateRecord, ReqVars, disks, tables, KeyFree
  <2>3. Used'
    BY <1>0, <1>a, <1>b, <2>1, <2>2 DEF Record, Used, Asks
  <2>4. Open'
    BY <1>0, <1>a, <2>1, <2>2 DEF Record, Open, JobsLive, Locks, Places, Asks
  <2> QED
    BY <2>3, <2>4 DEF Record
<1>7. ASSUME NEW n \in Nodes, Deprovision(n) PROVE Record'
  <2>1. Removes(n, "mark", cluster, {}, {}, FALSE)
    BY <1>7, DepMoves
  <2> QED
    BY <1>7, <1>0, <2>1 DEF Record, Used, Open, JobsLive, TableTypes, TaskTypes,
        Deprovision, DepVars, DepAt, tables, disks, Removes
<1>8. ASSUME NEW n \in Nodes, DepMark(n) PROVE Record'
  <2>1. Goes(n, "nodes")
    BY <1>8, DepMoves
  <2>2. UNCHANGED <<next, cluster, job, req, file, restore>>
        /\ (status' = status \/ (cluster = dep[n].c /\ status' = "deprovisioning")) /\ dep[n].pc = "mark"
    BY <1>8, Zenon DEF DepMark, SetStatus, DepVars, DepAt, tables, disks
  <2>3. Used'
    BY <1>0, <1>a, <1>b, <2>1, <2>2 DEF Record, Used, Goes, Removes
  <2>4. Open'
    BY <1>0, <1>a, <2>1, <2>2 DEF Record, Open, JobsLive, Locks, Places, Goes, Removes
  <2> QED
    BY <2>3, <2>4 DEF Record
<1>9. ASSUME NEW n \in Nodes, DepNodes(n) PROVE Record'
  <2>1. PICK on \in SUBSET Nodes :
           /\ \/ on = {m \in Nodes : \E r \in RowsOf(dep[n].c) : r[2] = m}
              \/ ~calm'
           /\ Removes(n, IF on = {} THEN "ports" ELSE "gateway", dep[n].c, on, on, dep[n].cut)
    BY <1>9, DepNodesMoves
  <2> QED
    BY <1>9, <1>0, <2>1 DEF Record, Used, Open, JobsLive, TableTypes, TaskTypes,
        DepNodes, DepVars, DepAt, tables, disks, Removes
<1>10. ASSUME NEW n \in Nodes, DepStop(n) PROVE Record'
  <2>1. dep[n].pc \in {"gateway", "olric", "rqlite", "file"}
    BY <1>10, DepStopMoves
  <2>2. PICK m \in dep[n].todo :
           /\ StepsOn(n, m)
           /\ \/ /\ dep[n].pc = "file"
                 /\ file' = [file EXCEPT ![m] = NoFile] /\ UNCHANGED units
              \/ /\ dep[n].pc # "file"
                 /\ StopService(m, dep[n].pc) /\ UNCHANGED file
              \/ UNCHANGED <<disks, astray>> /\ (calm' => m \notin up)
    BY <1>10, DepStopMoves
  <2>3. file' = file \/ (m \in Nodes /\ file' = [file EXCEPT ![m] = NoFile])
    BY <1>0, <2>2 DEF disks, TaskTypes
  <2>4. \A x \in Nodes : file'[x].c < next
    BY <1>0, <1>b, <1>c, <2>3 DEF Record, Used
  <2>5. UNCHANGED <<cluster, status, next, req, restore, job>>
    BY <1>10 DEF DepStop, DepVars, tables
  <2> QED
    BY <1>0, <2>2, <2>4, <2>5 DEF Record, Used, Open, JobsLive, StepsOn, Goes, Removes,
        TaskTypes
<1>11. ASSUME NEW n \in Nodes, DepDelete(n) PROVE Record'
  <2>1. \/ dep[n].pc = "ports" /\ Goes(n, "dns")
        \/ dep[n].pc = "dns" /\ Goes(n, "rows")
        \/ dep[n].pc = "rows" /\ Goes(n, "ports2")
        \/ dep[n].pc = "ports2" /\ Goes(n, "delete")
        \/ dep[n].pc = "delete" /\ Removes(n, "idle", None, {}, {}, FALSE)
    BY <1>11, DepMoves
  <2>2. /\ UNCHANGED <<req, file, restore, job, next>>
        /\ \/ UNCHANGED <<cluster, status>>
           \/ cluster' = None /\ status' = "none"
    BY <1>11, Zenon DEF DepDelete, DepVars, disks, tables, SetPorts, SetRows, SetDNS,
        DeleteRecord
  <2>3. Used'
    BY <1>0, <1>a, <1>b, <2>1, <2>2 DEF Record, Used, Goes, Removes
  <2>4. Open'
    BY <1>0, <1>a, <2>1, <2>2 DEF Record, Open, JobsLive, Locks, Places, Goes, Removes
  <2> QED
    BY <2>3, <2>4 DEF Record
<1>12. ASSUME NEW n \in Nodes, Disconnect(n) PROVE Record'
  <2>1. Removes(n, dep[n].pc, dep[n].c, dep[n].on, dep[n].todo, TRUE)
    BY <1>12, DepMoves
  <2> QED
    BY <1>12, <1>0, <2>1 DEF Record, Used, Open, JobsLive, TableTypes, TaskTypes,
        Disconnect, DepVars, DepAt, tables, disks, Removes
<1>13. ASSUME NEW n \in Nodes, Crash(n) PROVE Record'
  <2>1. JobsLive' \subseteq JobsLive
    BY <1>13, <1>0 DEF Crash, JobsLive, NoJob
  <2> QED
    BY <1>13, <1>0, <2>1 DEF Crash, Record, Used, Open, NoReq, NoDep, NoRestore,
        TaskTypes, TableTypes, tables
<1>14. ASSUME NEW n \in Nodes, Restart(n) PROVE Record'
  <2>1. Continues(n, "disk")
    BY <1>14, RestoreMoves
  <2> QED
    BY <1>14, <1>0, <2>1 DEF Record, Used, Open, JobsLive, TableTypes, TaskTypes,
        Restart, RestoreVars, disks, tables, Continues, Restores
<1>15. ASSUME NEW n \in Nodes, RestoreFromDisk(n) PROVE Record'
  <2>1. \/ file[n] = NoFile /\ UNCHANGED <<disks, astray>> /\ Continues(n, "query")
        \/ /\ file[n] = NoFile /\ UNCHANGED disks /\ Ceases(n)
           /\ astray' = [astray EXCEPT ![n] = Kinds]
        \/ /\ file[n] # NoFile /\ ~Assigned(n, file[n].c)
           /\ StopAll(n) /\ file' = [file EXCEPT ![n] = NoFile] /\ Ceases(n)
        \/ /\ file[n] # NoFile /\ (calm' => Assigned(n, file[n].c)) /\ UNCHANGED <<disks, astray>>
           /\ Restores(n, "rqlite", file[n].c, file[n].gw, TRUE)
    BY <1>15, RestoreFromDiskMoves
  <2>2. file' = file \/ file' = [file EXCEPT ![n] = NoFile]
    BY <2>1 DEF disks
  <2>3. \A x \in Nodes : file'[x].c < next
    BY <1>0, <1>b, <1>c, <2>2 DEF Record, Used
  <2>4. UNCHANGED <<cluster, status, next, req, dep, job>>
    BY <1>15 DEF RestoreFromDisk, RestoreVars, tables
  <2> QED
    BY <1>0, <2>1, <2>3, <2>4 DEF Record, Used, Open, JobsLive, Continues, Ceases,
        Restores, TableTypes
<1>16. ASSUME NEW n \in Nodes, RestoreQuery(n) PROVE Record'
  <2>1. \/ /\ status = "ready" /\ Assigned(n, cluster)
           /\ Restores(n, "ports", cluster, FALSE, FALSE)
        \/ /\ calm' => ~(status = "ready" /\ Assigned(n, cluster))
           /\ Ceases(n)
    BY <1>16, RestoreMoves
  <2> QED
    BY <1>16, <1>0, <2>1 DEF Record, Used, Open, JobsLive, TableTypes, TaskTypes,
        RestoreQuery, RestoreVars, RestoreAt, disks, tables, Ceases, Restores
<1>17. ASSUME NEW n \in Nodes, RestorePorts(n) PROVE Record'
  <2>1. \/ /\ <<restore[n].c, n>> \in ports
           /\ Restores(n, "rqlite", restore[n].c,
                       \E r \in RowsOf(restore[n].c) : r[3] = "gateway", restore[n].disk)
        \/ ~calm' /\ Ceases(n)
    BY <1>17, RestoreMoves
  <2>2. UNCHANGED <<next, cluster, status, job, req, dep, file>>
    BY <1>17, Zenon DEF RestorePorts, RestoreVars, RestoreAt, disks, tables
  <2>3. Used'
    BY <1>0, <1>a, <1>b, <2>1, <2>2 DEF Record, Used, Ceases, Restores
  <2>4. Open'
    BY <1>0, <1>a, <2>1, <2>2 DEF Record, Open, JobsLive, Locks, Places, Ceases, Restores
  <2> QED
    BY <2>3, <2>4 DEF Record
<1>18. ASSUME NEW n \in Nodes, RestoreService(n) PROVE Record'
  <2>1. restore[n].pc \in Kinds
    BY <1>18, RestoreServiceMoves
  <2>2. \/ restore[n].pc = "rqlite" /\ Continues(n, "olric")
        \/ restore[n].pc = "olric" /\ restore[n].gw /\ Continues(n, "gateway")
        \/ /\ restore[n].pc # "rqlite" /\ ~(restore[n].pc = "olric" /\ restore[n].gw)
           /\ \/ restore[n].disk /\ Ceases(n)
              \/ ~restore[n].disk /\ Continues(n, "save")
    BY <1>18, RestoreServiceMoves
  <2> QED
    BY <1>18, <1>0, <2>1, <2>2 DEF Record, Used, Open, JobsLive, TableTypes, TaskTypes,
        RestoreService, RestoreVars, tables, Continues, Ceases, Restores
<1>19. ASSUME NEW n \in Nodes, RestoreSave(n) PROVE Record'
  <2>1. Ceases(n)
    BY <1>19, RestoreMoves
  <2>2. UNCHANGED <<next, cluster, status, job, req, dep>>
        /\ (file' = file \/ file' = [file EXCEPT ![n] = [c |-> restore[n].c, gw |-> restore[n].gw]])
    BY <1>19 DEF RestoreSave, RestoreVars, RestoreAt, tables
  <2>3. Used'
    BY <1>0, <1>a, <1>b, <2>1, <2>2 DEF Record, Used, Ceases, Restores
  <2>4. Open'
    BY <1>0, <1>a, <2>1, <2>2 DEF Record, Open, JobsLive, Locks, Places, Ceases, Restores
  <2> QED
    BY <2>3, <2>4 DEF Record
<1>20. ASSUME NEW c \in Clusters, SelectNodesForCluster(c) PROVE Record'
  <2>1. Went(c, "failed", {}) \/ Selected(c)
    BY <1>20, SelectMoves
  <2>2. job[c].pc = "select"
    BY <1>20 DEF SelectNodesForCluster, At, Recording
  <2>3. UNCHANGED <<next, cluster, req, dep, file, restore>>
    BY <1>20, JobFrame DEF Job
  <2>4. status' = status
    BY <1>20 DEF SelectNodesForCluster, tables
  <2>5. JobsLive' \subseteq JobsLive
    BY <2>1, <2>2 DEF JobsLive, Went, Moves, SamePlace, Selected
  <2> QED
    BY <2>3, <2>4, <2>5, RecordSame
<1>21. ASSUME NEW c \in Clusters, AllocatePortBlock(c) PROVE Record'
  <2>1. Advanced(c, "allocate", "rqlite")
    BY <1>21, AllocateMoves
  <2>2. job[c].pc = "allocate"
    BY <1>21 DEF AllocatePortBlock, At, Recording
  <2>3. UNCHANGED <<next, cluster, req, dep, file, restore>>
    BY <1>21, JobFrame DEF Job
  <2>4. status' = status
    BY <1>21 DEF AllocatePortBlock, SetPorts
  <2>5. JobsLive' \subseteq JobsLive
    BY <2>1, <2>2 DEF JobsLive, Advanced, Moves
  <2> QED
    BY <2>3, <2>4, <2>5, RecordSame
<1>22. ASSUME NEW c \in Clusters, AllocationFails(c) PROVE Record'
  <2>1. (Done(c) = {} /\ Went(c, "failed", {})) \/ Went(c, "release", Done(c))
    BY <1>22, AllocationFailsMoves
  <2>2. job[c].pc = "allocate"
    BY <1>22 DEF AllocationFails, At, Recording
  <2>3. UNCHANGED <<next, cluster, req, dep, file, restore>>
    BY <1>22, JobFrame DEF Job
  <2>4. status' = status
    BY <1>22 DEF AllocationFails, SetPorts, tables
  <2>5. JobsLive' \subseteq JobsLive
    BY <2>1, <2>2 DEF JobsLive, Went, Moves, SamePlace
  <2> QED
    BY <2>3, <2>4, <2>5, RecordSame
<1>23. ASSUME NEW c \in Clusters, NEW kind \in {"rqlite", "gateway"}, Spawn(c, kind) PROVE Record'
  <2>1. Went(c, IF kind = "rqlite" THEN "record_rqlite" ELSE "record_gateway", {})
    BY <1>23, SpawnMoves
  <2>2. job[c].pc = kind
    BY <1>23 DEF Spawn, At, Recording
  <2>3. UNCHANGED <<next, cluster, req, dep, file, restore>>
    BY <1>23, JobFrame DEF Job
  <2>4. status' = status
    BY <1>23 DEF Spawn, tables
  <2>5. JobsLive' \subseteq JobsLive
    BY <2>1, <2>2 DEF JobsLive, Went, Moves, SamePlace
  <2> QED
    BY <2>3, <2>4, <2>5, RecordSame
<1>24. ASSUME NEW c \in Clusters, NEW kind \in {"rqlite", "gateway"}, SpawnFails(c, kind)
      PROVE Record'
  <2>1. FellBack(c, kind)
    BY <1>24, SpawnFailsMoves
  <2>2. job[c].pc = kind
    BY <1>24 DEF SpawnFails, At, Recording
  <2>3. UNCHANGED <<next, cluster, req, dep, file, restore>>
    BY <1>24, JobFrame DEF Job
  <2>4. status' = status
    BY <1>24 DEF SpawnFails, tables
  <2>5. JobsLive' \subseteq JobsLive
    BY <2>1, <2>2 DEF JobsLive, FellBack, Moves, SamePlace
  <2> QED
    BY <2>3, <2>4, <2>5, RecordSame
<1>25. ASSUME NEW c \in Clusters, RecordNode(c, "rqlite", "olric") PROVE Record'
  <2>1. Advanced(c, "rqlite", "olric")
    BY <1>25, RecordMoves
  <2>2. job[c].pc = "record_rqlite"
    BY <1>25 DEF RecordNode, At, Recording
  <2>3. UNCHANGED <<next, cluster, req, dep, file, restore>>
    BY <1>25, JobFrame DEF Job
  <2>4. status' = status
    BY <1>25, Zenon DEF RecordNode, SetRows, tables
  <2>5. JobsLive' \subseteq JobsLive
    BY <2>1, <2>2 DEF JobsLive, Advanced, Moves
  <2> QED
    BY <2>3, <2>4, <2>5, RecordSame
<1>26. ASSUME NEW c \in Clusters, RecordNode(c, "olric", "gateway") PROVE Record'
  <2>1. Advanced(c, "record_olric", "gateway")
    BY <1>26, RecordMoves
  <2>2. job[c].pc = "record_olric"
    BY <1>26 DEF RecordNode, At, Recording
  <2>3. UNCHANGED <<next, cluster, req, dep, file, restore>>
    BY <1>26, JobFrame DEF Job
  <2>4. status' = status
    BY <1>26, Zenon DEF RecordNode, SetRows, tables
  <2>5. JobsLive' \subseteq JobsLive
    BY <2>1, <2>2 DEF JobsLive, Advanced, Moves
  <2> QED
    BY <2>3, <2>4, <2>5, RecordSame
<1>27. ASSUME NEW c \in Clusters, RecordNode(c, "gateway", "dns") PROVE Record'
  <2>1. Advanced(c, "gateway", "dns")
    BY <1>27, RecordMoves
  <2>2. job[c].pc = "record_gateway"
    BY <1>27 DEF RecordNode, At, Recording
  <2>3. UNCHANGED <<next, cluster, req, dep, file, restore>>
    BY <1>27, JobFrame DEF Job
  <2>4. status' = status
    BY <1>27, Zenon DEF RecordNode, SetRows, tables
  <2>5. JobsLive' \subseteq JobsLive
    BY <2>1, <2>2 DEF JobsLive, Advanced, Moves
  <2> QED
    BY <2>3, <2>4, <2>5, RecordSame
<1>28. ASSUME NEW c \in Clusters, SpawnOlric(c) PROVE Record'
  <2>1. PICK n \in job[c].todo :
           OlricAnswers(c, n, FALSE) \/ OlricAnswers(c, n, TRUE)
    BY <1>28 DEF SpawnOlric
  <2>2. job[c].pc = "olric"
    BY <1>28 DEF SpawnOlric, At
  <2>3. Answered(c, n, job[c].bad) \/ Answered(c, n, job[c].bad \cup {n})
    BY <2>1, <2>2, OlricMoves
  <2>4. UNCHANGED <<next, cluster, req, dep, file, restore>>
    BY <1>28, JobFrame DEF Job
  <2>5. status' = status
    BY <1>28 DEF SpawnOlric, tables
  <2>6. JobsLive' \subseteq JobsLive
    BY <2>1, <2>2, <2>3 DEF JobsLive, Answered, Moves, SamePlace
  <2> QED
    BY <2>4, <2>5, <2>6, RecordSame
<1>29. ASSUME NEW c \in Clusters, ClearDNS(c) PROVE Record'
  <2>1. Went(c, "dns_insert", {})
    BY <1>29, ClearDNSMoves
  <2>2. job[c].pc = "dns"
    BY <1>29 DEF ClearDNS, At, Recording
  <2>3. UNCHANGED <<next, cluster, req, dep, file, restore>>
    BY <1>29, JobFrame DEF Job
  <2>4. status' = status
    BY <1>29 DEF ClearDNS, SetDNS, tables
  <2>5. JobsLive' \subseteq JobsLive
    BY <2>1, <2>2 DEF JobsLive, Went, Moves, SamePlace
  <2> QED
    BY <2>3, <2>4, <2>5, RecordSame
<1>30. ASSUME NEW c \in Clusters, InsertDNS(c) PROVE Record'
  <2>1. job[c].pc = "dns_insert"
    BY <1>30 DEF InsertDNS, At
  <2>2. Advanced(c, "dns_insert", "ready") \/ Went(c, "ready", {})
    BY <1>30, <2>1, InsertDNSMoves DEF InsertDNS
  <2>3. UNCHANGED <<next, cluster, req, dep, file, restore>>
    BY <1>30, JobFrame DEF Job
  <2>4. status' = status
    BY <1>30 DEF InsertDNS, SetDNS, tables
  <2>5. JobsLive' \subseteq JobsLive
    BY <2>1, <2>2 DEF JobsLive, Advanced, Went, Moves, SamePlace
  <2> QED
    BY <2>3, <2>4, <2>5, RecordSame
<1>31. ASSUME NEW c \in Clusters, Release(c) PROVE Record'
  <2>1. job[c].pc \in {"release"}
    BY <1>31 DEF Release, At
  <2>2. PICK n \in job[c].todo : UndidOne(c, n)
    BY <1>31, <2>1, UndoneMoves DEF Release
  <2>3. UNCHANGED <<next, cluster, req, dep, file, restore>>
    BY <1>31, JobFrame DEF Job
  <2>4. status' = status
    BY <1>31 DEF Release, SetPorts, tables
  <2>5. JobsLive' \subseteq JobsLive
    BY <2>1, <2>2 DEF JobsLive, UndidOne, Went, Moves, SamePlace
  <2> QED
    BY <2>3, <2>4, <2>5, RecordSame
<1>32. ASSUME NEW c \in Clusters, StopOnNode(c) PROVE Record'
  <2>1. job[c].pc \in {"stop_started", "stop_olric", "stop_rqlite"}
    BY <1>32 DEF StopOnNode, At
  <2>2. PICK n \in job[c].todo : UndidOne(c, n)
    BY <1>32, <2>1, UndoneMoves DEF StopOnNode
  <2>3. UNCHANGED <<next, cluster, req, dep, file, restore>>
    BY <1>32, JobFrame DEF Job
  <2>4. status' = status
    BY <1>32 DEF StopOnNode, tables
  <2>5. JobsLive' \subseteq JobsLive
    BY <2>1, <2>2 DEF JobsLive, UndidOne, Went, Moves, SamePlace
  <2> QED
    BY <2>3, <2>4, <2>5, RecordSame
<1>33. ASSUME NEW c \in Clusters, StopLocal(c) PROVE Record'
  <2>1. Went(c, AfterPhase(c), Team(c))
    BY <1>33, StopLocalMoves
  <2>2. job[c].pc = "stop_all"
    BY <1>33 DEF StopLocal, At, Recording
  <2>3. UNCHANGED <<next, cluster, req, dep, file, restore>>
    BY <1>33, JobFrame DEF Job
  <2>4. status' = status
    BY <1>33 DEF StopLocal, tables
  <2>5. JobsLive' \subseteq JobsLive
    BY <2>1, <2>2 DEF JobsLive, Went, Moves, SamePlace
  <2> QED
    BY <2>3, <2>4, <2>5, RecordSame
<1>34. ASSUME NEW c \in Clusters, FreePorts(c) PROVE Record'
  <2>1. Went(c, "failed", {})
    BY <1>34, FreePortsMoves
  <2>2. job[c].pc = "free_ports"
    BY <1>34 DEF FreePorts, At, Recording
  <2>3. UNCHANGED <<next, cluster, req, dep, file, restore>>
    BY <1>34, JobFrame DEF Job
  <2>4. status' = status
    BY <1>34 DEF FreePorts, SetPorts, tables
  <2>5. JobsLive' \subseteq JobsLive
    BY <2>1, <2>2 DEF JobsLive, Went, Moves, SamePlace
  <2> QED
    BY <2>3, <2>4, <2>5, RecordSame
<1>35. ASSUME NEW c \in Clusters, Settle(c) PROVE Record'
  <2>1. Over(c)
    BY <1>35, SettleFacts DEF Settle
  <2>2. job[c].pc \in {"ready", "failed"}
    BY <1>35 DEF Settle, At, Recording
  <2>3. UNCHANGED <<next, cluster, req, dep, file, restore>>
        /\ (status' = status \/ (cluster = c /\ status' = job[c].pc))
    BY <1>35, JobFrame DEF Job, Settle, SetStatus, tables
  <2>4. c < next /\ c \in JobsLive
    BY <2>2 DEF Locks, JobsLive
  <2> QED
    BY <1>0, <2>1, <2>2, <2>3, <2>4 DEF Over, Record, Used, Open, Used, Open, JobsLive
<1>36. ASSUME NEW c \in Clusters, Panic(c) PROVE Record'
  <2>1. Moves(c) /\ job'[c].pc = "failed"
    BY <1>36, PanicFacts
  <2>2. c \in JobsLive
    BY <1>36 DEF Panic, At, Recording
  <2>3. UNCHANGED <<next, cluster, req, dep, file, restore>>
    BY <1>36, JobFrame DEF Job
  <2>4. status' = status
    BY <1>36 DEF Panic, tables
  <2>5. JobsLive' \subseteq JobsLive
    BY <2>1, <2>2 DEF JobsLive, Moves
  <2> QED
    BY <2>3, <2>4, <2>5, RecordSame
<1>37. ASSUME NEW c \in Clusters, Expire(c) PROVE Record'
  <2>1. Moves(c) /\ SamePlace(c) /\ job'[c].pc = job[c].pc
    BY <1>37, ExpireFacts
  <2>2. c \in JobsLive
    BY <1>37 DEF Expire, At, Recording
  <2>3. UNCHANGED <<next, cluster, req, dep, file, restore>>
    BY <1>37, JobFrame DEF Job
  <2>4. status' = status
    BY <1>37 DEF Expire, tables
  <2>5. JobsLive' \subseteq JobsLive
    BY <2>1, <2>2 DEF JobsLive, Moves, SamePlace
  <2> QED
    BY <2>3, <2>4, <2>5, RecordSame
<1>38. CASE UNCHANGED vars
  BY <1>38 DEF vars, tables, disks, Record, Used, Open, JobsLive
<1> QED
  BY <1>1, <1>2, <1>3, <1>4, <1>5, <1>6, <1>7, <1>8, <1>9, <1>10, <1>11, <1>12, <1>13,
      <1>14, <1>15, <1>16, <1>17, <1>18, <1>19, <1>20, <1>21, <1>22, <1>23, <1>24, <1>25,
      <1>26, <1>27, <1>28, <1>29, <1>30, <1>31, <1>32, <1>33, <1>34, <1>35, <1>36, <1>37,
      <1>38 DEF Next, Request, Removal, Restore, Job

-----------------------------------------------------------------------------
(* Units gone astray. *)

\* A step that touches no unit and takes no node down keeps them where they are,
LEMMA StrayedSame ==
    ASSUME Strayed, astray' = astray, up \subseteq up'
    PROVE  Strayed'
BY DEF Strayed

\* and so does one that starts units on nodes that run, or stops some.
LEMMA StrayedMoved ==
    ASSUME Strayed, up' = up, NEW n \in Nodes, NEW k \in Kinds, NEW c,
           \/ n \in up /\ StartUnconfirmed(n, k, c)
           \/ StartService(n, k, c) \/ StopService(n, k) \/ StopAll(n)
           \/ astray' = astray
    PROVE  Strayed'
<1>1. astray \in [Nodes -> SUBSET Kinds] /\ \A m \in Nodes : astray[m] # {} => m \in up
  BY DEF Strayed
<1>2. CASE n \in up /\ StartUnconfirmed(n, k, c)
  BY <1>1, <1>2 DEF StartUnconfirmed, Strayed
<1>3. CASE StartService(n, k, c)
  <2>1. PICK x \in SUBSET Kinds : astray' = [astray EXCEPT ![n] = x] /\ x \subseteq astray[n]
    BY <1>1, <1>3 DEF StartService
  <2> QED
    BY <1>1, <2>1 DEF Strayed
<1>4. CASE StopService(n, k)
  BY <1>1, <1>4 DEF StopService, Strayed
<1>5. CASE StopAll(n)
  BY <1>1, <1>5 DEF StopAll, Strayed
<1>6. CASE astray' = astray
  BY <1>1, <1>6 DEF Strayed
<1> QED
  BY <1>2, <1>3, <1>4, <1>5, <1>6

\* Every action keeps units gone astray on nodes that run.
LEMMA StrayedStep ==
    ASSUME Types, Places, Locks, Strayed, [Next]_vars
    PROVE  Strayed'
<1>0. TaskTypes /\ "rqlite" \in Kinds /\ "olric" \in Kinds /\ "gateway" \in Kinds
  BY DEF Types, Kinds
<1>1. ASSUME NEW n \in Nodes, Request(n) PROVE Strayed'
  <2>1. astray' = astray /\ up' = up
    BY <1>1, Zenon DEF Request, CheckNamespaceCluster, DropFailed, FreeFailed,
       ProvisionNamespaceCluster, InsertCluster, InsertFails, ReqVars
  <2> QED
    BY <2>1, StrayedSame
<1>2. ASSUME NEW n \in Nodes,
             \/ Deprovision(n) \/ DepMark(n) \/ DepNodes(n) \/ DepDelete(n) \/ Disconnect(n)
      PROVE  Strayed'
  <2>1. astray' = astray /\ up' = up
    BY <1>2, Zenon DEF Deprovision, DepMark, DepNodes, DepDelete, Disconnect, DepVars
  <2> QED
    BY <2>1, StrayedSame
<1>3. ASSUME NEW n \in Nodes, DepStop(n) PROVE Strayed'
  <2>1. PICK m \in dep[n].todo : \/ astray' = astray
                                 \/ dep[n].pc # "file" /\ StopService(m, dep[n].pc)
    BY <1>3, DepStopMoves DEF units
  <2>2. dep[n].pc \in {"gateway", "olric", "rqlite", "file"} /\ m \in Nodes /\ up' = up
    BY <1>0, <1>3, DepStopMoves DEF TaskTypes, DepStop, DepVars
  <2> QED
    BY <1>0, <2>1, <2>2, StrayedMoved, StrayedSame
<1>4. ASSUME NEW n \in Nodes, Crash(n) PROVE Strayed'
  BY <1>4 DEF Crash, StopAll, Strayed
<1>5. ASSUME NEW n \in Nodes, Restart(n) \/ RestoreQuery(n) \/ RestorePorts(n) \/ RestoreSave(n)
      PROVE  Strayed'
  <2>1. astray' = astray /\ up \subseteq up'
    BY <1>5 DEF Restart, RestoreQuery, RestorePorts, RestoreSave, units
  <2> QED
    BY <2>1, StrayedSame
<1>6. ASSUME NEW n \in Nodes, RestoreFromDisk(n) PROVE Strayed'
  <2>1. n \in up /\ up' = up
    BY <1>6 DEF RestoreFromDisk, RestoreAt, Places
  <2>2. astray' = astray \/ StopAll(n) \/ astray' = [astray EXCEPT ![n] = Kinds]
    BY <1>6, RestoreFromDiskMoves
  <2>3. CASE astray' = astray \/ StopAll(n)
    BY <1>0, <2>1, <2>3, StrayedMoved
  <2>4. CASE astray' = [astray EXCEPT ![n] = Kinds]
    BY <2>1, <2>4 DEF Strayed
  <2> QED
    BY <2>2, <2>3, <2>4
<1>7. ASSUME NEW n \in Nodes, RestoreService(n) PROVE Strayed'
  <2>1. restore[n].pc \in Kinds /\ up' = up
    BY <1>7 DEF RestoreService
  <2>2. StartService(n, restore[n].pc, restore[n].c) \/ astray' = astray
    BY <1>7 DEF RestoreService, units
  <2> QED
    BY <2>1, <2>2, StrayedMoved
<1>8. ASSUME NEW c \in Clusters, Job(c) \/ Panic(c) \/ Expire(c) PROVE Strayed'
  <2>0. up' = up
    BY <1>8, JobFrame
  <2>1. CASE \/ SelectNodesForCluster(c) \/ AllocatePortBlock(c) \/ AllocationFails(c)
             \/ ClearDNS(c) \/ InsertDNS(c) \/ Release(c) \/ FreePorts(c) \/ Settle(c)
             \/ Panic(c) \/ Expire(c)
    <3>1. astray' = astray
      BY <2>1, Zenon DEF SelectNodesForCluster, AllocatePortBlock, AllocationFails, ClearDNS,
         InsertDNS, Release, FreePorts, Settle, Panic, Expire, units
    <3> QED
      BY <2>0, <3>1, StrayedSame
  <2>2. CASE \/ RecordNode(c, "rqlite", "olric") \/ RecordNode(c, "olric", "gateway")
             \/ RecordNode(c, "gateway", "dns")
    <3>1. astray' = astray
      BY <2>2, Zenon DEF RecordNode, units
    <3> QED
      BY <2>0, <3>1, StrayedSame
  <2>3. ASSUME NEW kind \in {"rqlite", "gateway"}, Spawn(c, kind) \/ SpawnFails(c, kind)
        PROVE  Strayed'
    <3>1. job[c].pc = kind /\ kind \in Kinds
      BY <1>0, <2>3 DEF Spawn, SpawnFails, At
    <3>2. Node(c) \in Nodes
      BY <2>3, <3>1, Names, TeamFacts
    <3>3. \/ StartService(Node(c), kind, c) \/ astray' = astray
          \/ Node(c) \in up /\ StartUnconfirmed(Node(c), kind, c)
      BY <2>3, <3>1 DEF Spawn, SpawnFails, units, Reaches, Locks, JobsLive
    <3> QED
      BY <2>0, <3>1, <3>2, <3>3, StrayedMoved
  <2>4. CASE SpawnOlric(c)
    <3>1. job[c].pc = "olric"
      BY <2>4 DEF SpawnOlric, At
    <3>2. PICK m \in job[c].todo :
             \/ StartService(m, "olric", c) \/ astray' = astray
             \/ m \in up /\ StartUnconfirmed(m, "olric", c)
      BY <2>4, <3>1 DEF SpawnOlric, units, Reaches, Locks, JobsLive
    <3>3. m \in Nodes
      BY <1>0 DEF TaskTypes, JobTypes
    <3> QED
      BY <1>0, <2>0, <3>2, <3>3, StrayedMoved
  <2>5. CASE StopOnNode(c)
    <3>1. job[c].pc \in {"stop_started", "stop_olric", "stop_rqlite"}
      BY <2>5 DEF StopOnNode
    <3>2. PICK m \in job[c].todo :
             \/ astray' = astray
             \/ StopService(m, IF At(c, "stop_started") THEN job[c].kind
                               ELSE StopPhase[job[c].pc])
      BY <2>5, Zenon DEF StopOnNode, units
    <3>3. (IF At(c, "stop_started") THEN job[c].kind ELSE StopPhase[job[c].pc]) \in Kinds
      BY <1>0, <3>1 DEF StopPhase, At, TaskTypes, JobTypes
    <3>4. m \in Nodes
      BY <1>0 DEF TaskTypes, JobTypes
    <3> QED
      BY <1>0, <2>0, <3>2, <3>3, <3>4, StrayedMoved
  <2>6. CASE StopLocal(c)
    <3>1. StopAll(job[c].at) /\ job[c].at \in Nodes
      BY <2>6 DEF StopLocal, At, Locks, JobsLive
    <3> QED
      BY <1>0, <2>0, <3>1, StrayedMoved
  <2> QED
    BY <1>8, <2>1, <2>2, <2>3, <2>4, <2>5, <2>6 DEF Job
<1>9. CASE UNCHANGED vars
  BY <1>9, StrayedSame DEF vars
<1> QED
  BY <1>1, <1>2, <1>3, <1>4, <1>5, <1>6, <1>7, <1>8, <1>9 DEF Next, Removal, Restore

-----------------------------------------------------------------------------
(* The first layer as a whole. *)

\* The first layer holds at first.
LEMMA FirmInit == Init => Firm
<1> SUFFICES ASSUME Init PROVE Firm
  OBVIOUS
<1> USE DEF Init
<1>1. 0 \in 0 .. MaxFailures /\ 0 \in 0 .. MaxCrashes /\ 0 \in 0 .. MaxRemovals
      /\ 1 \in 1 .. MaxClusters + 1
  BY Constants
<1>2. TableTypes
  BY <1>1 DEF TableTypes, Statuses
<1>3. DiskTypes
  BY DEF DiskTypes, NoFile
<1>4. TaskTypes
  BY NoJobTyped, NoTasks DEF TaskTypes, ReqTypes, DepTypes, RestoreTypes
<1>5. CountTypes
  BY <1>1 DEF CountTypes
<1>6. Chosen /\ JobsLive = {}
  BY DEF Chosen, JobsLive, NoJob
<1>7. Places
  BY DEF Places, NoReq, NoDep, NoRestore
<1>8. Locks
  BY <1>6 DEF Locks, OneGoroutine, NoReq
<1>9. Record
  BY <1>6, Constants DEF Record, Used, Open, NoReq, NoDep, NoRestore, NoFile
<1>10. Strayed
  BY DEF Strayed
<1> QED
  BY <1>2, <1>3, <1>4, <1>5, <1>6, <1>7, <1>8, <1>9, <1>10 DEF Firm, Types

\* Every action keeps the first layer.
LEMMA FirmNext == Firm /\ [Next]_vars => Firm'
BY TypesNext, PlacesStep, LocksStep, RecordStep, StrayedStep DEF Firm

\* The first layer holds in every reachable state.
LEMMA AlwaysFirm == Spec => []Firm
BY FirmInit, FirmNext, PTL DEF Spec

\* Every variable has its type in every state.
THEOREM TypeCorrect == Spec => []TypeOK
<1>1. Firm => TypeOK
  <2> SUFFICES ASSUME Firm PROVE TypeOK
    OBVIOUS
  <2>1. TableTypes /\ DiskTypes /\ CountTypes /\ TaskTypes
        /\ astray \in [Nodes -> SUBSET Kinds]
    BY DEF Firm, Types, Strayed
  <2>2. \A c \in Clusters :
           /\ job[c].pc \in JobPhases
           /\ job[c].at \in Nodes \cup {None}
           /\ job[c].todo \subseteq Nodes /\ job[c].bad \subseteq Nodes
           /\ job[c].sel \in SomeSelection
    BY <2>1 DEF TaskTypes, JobTypes
  <2> QED
    BY <2>1, <2>2 DEF TypeOK, TableTypes, DiskTypes, CountTypes, TaskTypes, ReqPhases, SomeSelection
<1> QED
  BY <1>1, AlwaysFirm, PTL

\* A manager never runs two provisionings of the namespace: the map
\* `provisioning` is set before the record is inserted and cleared only by the
\* goroutine that ends, by a failed insert or by a crash
\* (ProvisionNamespaceCluster, provisionClusterAsync).
THEOREM OneAtATime == Spec => []OneGoroutine
<1>1. Firm => OneGoroutine
  BY DEF Firm, Locks
<1> QED
  BY <1>1, AlwaysFirm, PTL

-----------------------------------------------------------------------------
(* The record lives as ClusterLifecycle says. *)

\* The row names a cluster that was created.
LEMMA LifeTyped ==
    ASSUME Firm
    PROVE  /\ next \in Nat /\ Clusters \subseteq Nat /\ None \notin Clusters
           /\ cluster \in Clusters \cup {None}
           /\ (cluster # None => cluster \in Clusters /\ cluster < next)
BY Constants DEF Firm, Types, TableTypes, Record, Used

\* Nothing happens to the record.
LEMMA LifeSame ==
    ASSUME cluster' = cluster, status' = status, next' = next
    PROVE  Life' = Life
BY DEF Life

\* How one cluster lives.
LEMMA LifeIs ==
    /\ \A d \in Clusters : Life[d] = IF d >= next THEN "new"
                                   ELSE IF d = cluster THEN status ELSE "gone"
    /\ \A d \in Clusters : Life'[d] = IF d >= next' THEN "new"
                                   ELSE IF d = cluster' THEN status' ELSE "gone"
    /\ Life = [d \in Clusters |-> Life[d]]
    /\ Life' = [d \in Clusters |-> Life'[d]]
BY DEF Life

\* Only one cluster lives on differently.
LEMMA LifeMoves ==
    ASSUME NEW c \in Clusters, NEW s, Life'[c] = s,
           \A d \in Clusters : d # c => Life'[d] = Life[d]
    PROVE  Life' = [Life EXCEPT ![c] = s]
<1>1. \A d \in Clusters : Life'[d] = [Life EXCEPT ![c] = s][d]
  BY LifeIs
<1>2. [Life EXCEPT ![c] = s] = [d \in Clusters |-> [Life EXCEPT ![c] = s][d]]
  BY LifeIs
<1> QED
  BY <1>1, <1>2, LifeIs

\* A change of the row's status is a change of the cluster's life.
LEMMA LifeSettles ==
    ASSUME Firm, NEW c \in Clusters, cluster = c, NEW s, cluster' = cluster, next' = next,
           status' = s
    PROVE  /\ Life[c] = status
           /\ Life' = [Life EXCEPT ![c] = s]
<1>1. c \in Nat /\ next \in Nat /\ ~(c >= next)
  BY LifeTyped
<1>2. Life[c] = status /\ Life'[c] = s /\ \A d \in Clusters : d # c => Life'[d] = Life[d]
  BY <1>1, LifeIs
<1> QED
  BY <1>2, LifeMoves

\* Deleting the row ends the life of its cluster.
LEMMA LifeEnds ==
    ASSUME Firm, NEW c \in Clusters, cluster = c, cluster' = None, next' = next
    PROVE  /\ Life[c] = status
           /\ Life' = [Life EXCEPT ![c] = "gone"]
<1>1. c \in Nat /\ next \in Nat /\ ~(c >= next) /\ None \notin Clusters
  BY LifeTyped
<1>2. Life[c] = status /\ Life'[c] = "gone" /\ \A d \in Clusters : d # c => Life'[d] = Life[d]
  BY <1>1, LifeIs
<1> QED
  BY <1>2, LifeMoves

\* Inserting a row begins the life of a new cluster.
LEMMA LifeBegins ==
    ASSUME Firm, cluster = None, next \in Clusters,
           cluster' = next, status' = "provisioning", next' = next + 1
    PROVE  Lifecycle!Next
<1>1. Life[next] = "new"
  BY LifeTyped DEF Life
<1>2. Life' = [Life EXCEPT ![next] = "provisioning"]
  <2>1. /\ next \in Nat /\ \A d \in Clusters : d \in Nat
        /\ cluster \notin Clusters
    BY LifeTyped
  <2>2. \A d \in Clusters : d # next => (d >= next + 1 <=> d >= next)
    BY <2>1
  <2>3. ~(next >= next + 1)
    BY <2>1
  <2>4. Life'[next] = "provisioning"
    BY <2>3, LifeIs
  <2>5. \A d \in Clusters : d # next => Life'[d] = Life[d]
    BY <2>1, <2>2, LifeIs
  <2> QED
    BY <2>4, <2>5, LifeMoves
<1>3. Lifecycle!Live = {}
  BY LifeTyped DEF Life, Lifecycle!Live
<1> QED
  BY <1>1, <1>2, <1>3 DEF Lifecycle!Next, Lifecycle!Create

\* Deleting a row is a step of the lifecycle, or none when the row is another one's.
LEMMA RecordDeleted ==
    ASSUME Firm, NEW c, DeleteRecord(c)
    PROVE  [Lifecycle!Next]_Life
<1>1. CASE cluster = c /\ cluster # None
  <2>1. cluster \in Clusters /\ Life[cluster] = status /\ Life' = [Life EXCEPT ![cluster] = "gone"]
    BY <1>1, LifeTyped, LifeEnds DEF DeleteRecord
  <2>2. status \in Statuses /\ status # "none"
    BY <1>1 DEF Firm, Types, TableTypes, Record, Open
  <2>3. cluster \in Lifecycle!Live
    BY <2>1, <2>2 DEF Lifecycle!Live, Statuses
  <2> QED
    BY <2>1, <2>3 DEF Lifecycle!Next, Lifecycle!Remove
<1>2. CASE cluster # c \/ cluster = None
  <2>1. cluster' = cluster /\ status' = status /\ next' = next
    BY <1>2 DEF DeleteRecord, Firm, Record, Open
  <2> QED
    BY <2>1, LifeSame
<1> QED
  BY <1>1, <1>2

\* The clusters of a namespace follow one another, a cluster that is gone stays
\* gone, and an outcome is not exchanged for the other one: whatever requests,
\* goroutines, removals and crashes overlap and whatever fails, each step is a
\* step of ClusterLifecycle or leaves the record alone.
THEOREM ImplementsLifecycle == Spec => LifecycleSpec
<1>1. Init => Lifecycle!Init
  <2> SUFFICES ASSUME Init PROVE Life = [c \in Clusters |-> "new"]
    BY DEF Lifecycle!Init
  <2>1. next = 1 /\ \A c \in Clusters : c >= 1
    BY Constants DEF Init, Clusters
  <2> QED
    BY <2>1 DEF Life
<1>2. Firm /\ [Next]_vars => [Lifecycle!Next]_Life
  <2> SUFFICES ASSUME Firm, [Next]_vars PROVE [Lifecycle!Next]_Life
    OBVIOUS
  <2>1. CASE \E n \in Nodes : DropFailed(n)
    <3>1. \/ cluster' = cluster /\ status' = status /\ next' = next
          \/ \E n \in Nodes : DeleteRecord(req[n].c)
      BY <2>1, Zenon DEF DropFailed, tables
    <3> QED
      BY <3>1, LifeSame, RecordDeleted
  <2>2. CASE \E n \in Nodes : DepDelete(n)
    <3>1. \/ cluster' = cluster /\ status' = status /\ next' = next
          \/ \E n \in Nodes : DeleteRecord(dep[n].c)
      BY <2>2, Zenon DEF DepDelete, tables, SetPorts, SetDNS, SetRows
    <3> QED
      BY <3>1, LifeSame, RecordDeleted
  <2>3. CASE \E n \in Nodes : InsertCluster(n) \/ InsertFails(n)
    <3>1. \/ cluster' = cluster /\ status' = status /\ next' = next
          \/ /\ cluster = None /\ next \in Clusters
             /\ cluster' = next /\ status' = "provisioning" /\ next' = next + 1
      BY <2>3, Zenon DEF InsertCluster, InsertFails, KeyFree, CreateRecord, tables
    <3> QED
      BY <3>1, LifeSame, LifeBegins
  <2>4. CASE \E n \in Nodes : DepMark(n)
    <3>1. \/ cluster' = cluster /\ status' = status /\ next' = next
          \/ \E n \in Nodes : /\ dep[n].pc = "mark" /\ cluster = dep[n].c
                              /\ cluster' = cluster /\ next' = next /\ status' = "deprovisioning"
      BY <2>4 DEF DepMark, SetStatus, tables, DepAt
    <3>2. CASE cluster' = cluster /\ status' = status /\ next' = next
      BY <3>2, LifeSame
    <3>3. CASE \E n \in Nodes : /\ dep[n].pc = "mark" /\ cluster = dep[n].c
                                /\ cluster' = cluster /\ next' = next /\ status' = "deprovisioning"
      <4>1. cluster \in Clusters
        BY <3>3 DEF Firm, Places
      <4>2. Life[cluster] = status /\ Life' = [Life EXCEPT ![cluster] = "deprovisioning"]
        BY <3>3, <4>1, LifeSettles
      <4>3. cluster \in Lifecycle!Live
        BY <4>1, <4>2, Constants DEF Lifecycle!Live, Firm, Types, TableTypes, Record, Open, Statuses
      <4> QED
        BY <4>1, <4>2, <4>3 DEF Lifecycle!Next, Lifecycle!TearDown
    <3> QED
      BY <3>1, <3>2, <3>3
  <2>5. CASE \E c \in Clusters : Settle(c)
    <3>1. \/ cluster' = cluster /\ status' = status /\ next' = next
          \/ \E c \in Clusters : /\ job[c].pc \in {"ready", "failed"} /\ cluster = c
                                 /\ cluster' = cluster /\ next' = next /\ status' = job[c].pc
      BY <2>5 DEF Settle, SetStatus, tables
    <3>2. CASE cluster' = cluster /\ status' = status /\ next' = next
      BY <3>2, LifeSame
    <3>3. CASE \E c \in Clusters : /\ job[c].pc \in {"ready", "failed"} /\ cluster = c
                                   /\ cluster' = cluster /\ next' = next /\ status' = job[c].pc
      <4>1. PICK c \in Clusters : /\ job[c].pc \in {"ready", "failed"} /\ cluster = c
                                  /\ cluster' = cluster /\ next' = next /\ status' = job[c].pc
        BY <3>3
      <4>2. Life[c] = status /\ Life' = [Life EXCEPT ![c] = job[c].pc]
        BY <4>1, LifeSettles
      <4>3. status \in {"provisioning", "deprovisioning"}
        BY <4>1 DEF Firm, Record, Open, JobsLive
      <4> QED
        BY <4>1, <4>2, <4>3 DEF Lifecycle!Next, Lifecycle!Settle
    <3> QED
      BY <3>1, <3>2, <3>3
  <2>6. ASSUME ~ \E n \in Nodes : \/ DropFailed(n) \/ DepDelete(n) \/ InsertCluster(n)
                                  \/ InsertFails(n) \/ DepMark(n),
               ~ \E c \in Clusters : Settle(c)
        PROVE  cluster' = cluster /\ status' = status /\ next' = next
    <3>1. CASE UNCHANGED vars
      BY <3>1 DEF vars, tables
    <3>2. ASSUME NEW n \in Nodes, \/ CheckNamespaceCluster(n) \/ FreeFailed(n)
                                  \/ ProvisionNamespaceCluster(n)
          PROVE  cluster' = cluster /\ status' = status /\ next' = next
      BY <3>2 DEF CheckNamespaceCluster, FreeFailed, ProvisionNamespaceCluster, tables, SetPorts
    <3>3. ASSUME NEW n \in Nodes, \/ Deprovision(n) \/ DepNodes(n) \/ DepStop(n) \/ Disconnect(n)
          PROVE  cluster' = cluster /\ status' = status /\ next' = next
      BY <3>3, Zenon DEF Deprovision, DepNodes, DepStop, Disconnect, tables
    <3>4. ASSUME NEW n \in Nodes, Crash(n) \/ Restart(n) \/ Restore(n)
          PROVE  cluster' = cluster /\ status' = status /\ next' = next
      BY <3>4, Zenon DEF Crash, Restart, Restore, RestoreFromDisk, RestoreQuery, RestorePorts,
                         RestoreService, RestoreSave, RestoreVars, tables
    <3>5. ASSUME NEW c \in Clusters, Job(c) \/ Panic(c) \/ Expire(c)
          PROVE  cluster' = cluster /\ status' = status /\ next' = next
      <4> USE DEF tables
      <4>1. CASE SelectNodesForCluster(c)
        BY <4>1 DEF SelectNodesForCluster
      <4>2. CASE AllocatePortBlock(c) \/ AllocationFails(c)
        BY <4>2 DEF AllocatePortBlock, AllocationFails, SetPorts
      <4>3. CASE \E kind \in {"rqlite", "gateway"} : Spawn(c, kind) \/ SpawnFails(c, kind)
        BY <4>3 DEF Spawn, SpawnFails
      <4>4. CASE \/ RecordNode(c, "rqlite", "olric") \/ RecordNode(c, "olric", "gateway")
                 \/ RecordNode(c, "gateway", "dns")
        BY <4>4, Zenon DEF RecordNode, SetRows
      <4>5. CASE SpawnOlric(c)
        BY <4>5 DEF SpawnOlric
      <4>6. CASE ClearDNS(c) \/ InsertDNS(c)
        BY <4>6 DEF ClearDNS, InsertDNS, SetDNS
      <4>7. CASE Release(c) \/ FreePorts(c)
        BY <4>7 DEF Release, FreePorts, SetPorts
      <4>8. CASE StopOnNode(c) \/ StopLocal(c)
        BY <4>8 DEF StopOnNode, StopLocal
      <4>9. CASE Panic(c) \/ Expire(c)
        BY <4>9 DEF Panic, Expire
      <4> QED
        BY <2>6, <3>5, <4>1, <4>2, <4>3, <4>4, <4>5, <4>6, <4>7, <4>8, <4>9 DEF Job
    <3> QED
      BY <2>6, <3>1, <3>2, <3>3, <3>4, <3>5 DEF Next, Request, Removal
  <2> QED
    BY <2>1, <2>2, <2>3, <2>4, <2>5, <2>6, LifeSame
<1> QED
  BY <1>1, <1>2, AlwaysFirm, PTL DEF Spec, LifecycleSpec, Lifecycle!Spec

-----------------------------------------------------------------------------
(* What starting and stopping a unit does, kind by kind. *)

Starts(n, k, c) == \A m \in Nodes :
    /\ astray'[m] \subseteq astray[m]
    /\ svc'[m]["rqlite"] = IF m = n /\ k = "rqlite" /\ svc[m]["rqlite"] = None
                           THEN c ELSE svc[m]["rqlite"]
    /\ svc'[m]["olric"] = IF m = n /\ k = "olric" /\ svc[m]["olric"] = None
                          THEN c ELSE svc[m]["olric"]
    /\ svc'[m]["gateway"] = IF m = n /\ k = "gateway" /\ svc[m]["gateway"] = None
                            THEN c ELSE svc[m]["gateway"]
    /\ \/ m = n /\ k = "rqlite" /\ svc[m]["rqlite"] = None
       \/ "rqlite" \in astray'[m] \/ "rqlite" \notin astray[m]
    /\ \/ m = n /\ k = "olric" /\ svc[m]["olric"] = None
       \/ "olric" \in astray'[m] \/ "olric" \notin astray[m]
    /\ \/ m = n /\ k = "gateway" /\ svc[m]["gateway"] = None
       \/ "gateway" \in astray'[m] \/ "gateway" \notin astray[m]

Stops(n, k) == \A m \in Nodes :
    /\ svc'[m]["rqlite"] = IF m = n /\ k = "rqlite" THEN None ELSE svc[m]["rqlite"]
    /\ svc'[m]["olric"] = IF m = n /\ k = "olric" THEN None ELSE svc[m]["olric"]
    /\ svc'[m]["gateway"] = IF m = n /\ k = "gateway" THEN None ELSE svc[m]["gateway"]
    /\ (m = n /\ k = "rqlite") \/ "rqlite" \in astray'[m] \/ "rqlite" \notin astray[m]
    /\ (m = n /\ k = "olric") \/ "olric" \in astray'[m] \/ "olric" \notin astray[m]
    /\ (m = n /\ k = "gateway") \/ "gateway" \in astray'[m] \/ "gateway" \notin astray[m]

StopsAll(n) == \A m \in Nodes :
    /\ svc'[m]["rqlite"] = IF m = n THEN None ELSE svc[m]["rqlite"]
    /\ svc'[m]["olric"] = IF m = n THEN None ELSE svc[m]["olric"]
    /\ svc'[m]["gateway"] = IF m = n THEN None ELSE svc[m]["gateway"]
    /\ astray'[m] = IF m = n THEN {} ELSE astray[m]

\* A start that failed: one unit at most is touched, and then it is astray.
MayStray(n, k) == \A m \in Nodes :
    /\ \/ m = n /\ k = "rqlite" /\ "rqlite" \in astray'[m]
       \/ /\ svc'[m]["rqlite"] = svc[m]["rqlite"]
          /\ "rqlite" \in astray'[m] \/ "rqlite" \notin astray[m]
    /\ \/ m = n /\ k = "olric" /\ "olric" \in astray'[m]
       \/ /\ svc'[m]["olric"] = svc[m]["olric"]
          /\ "olric" \in astray'[m] \/ "olric" \notin astray[m]
    /\ \/ m = n /\ k = "gateway" /\ "gateway" \in astray'[m]
       \/ /\ svc'[m]["gateway"] = svc[m]["gateway"]
          /\ "gateway" \in astray'[m] \/ "gateway" \notin astray[m]

\* Starting and stopping a unit touches the unit and nothing else.
LEMMA UnitFacts ==
    ASSUME DiskTypes, Strayed, NEW n \in Nodes, NEW k \in Kinds, NEW c
    PROVE  /\ StartService(n, k, c) => Starts(n, k, c)
           /\ StopService(n, k) => Stops(n, k)
           /\ StopAll(n) => StopsAll(n)
           /\ StartUnconfirmed(n, k, c) \/ UNCHANGED units => MayStray(n, k)
<1>1. /\ svc \in [Nodes -> [Kinds -> Clusters \cup {None}]]
      /\ svc[n] \in [Kinds -> Clusters \cup {None}]
      /\ astray \in [Nodes -> SUBSET Kinds]
      /\ "rqlite" \in Kinds /\ "olric" \in Kinds /\ "gateway" \in Kinds
  BY DEF DiskTypes, Strayed, Kinds
<1>2. \A m \in Nodes : svc[m] \in [Kinds -> Clusters \cup {None}]
  BY <1>1
<1>3. ASSUME StartService(n, k, c) PROVE Starts(n, k, c)
  <2> SUFFICES ASSUME NEW m \in Nodes, NEW kind \in Kinds
               PROVE  /\ svc'[m][kind] = IF m = n /\ k = kind /\ svc[m][kind] = None
                                         THEN c ELSE svc[m][kind]
                      /\ astray'[m] \subseteq astray[m]
                      /\ \/ m = n /\ k = kind /\ svc[m][kind] = None
                         \/ kind \in astray'[m] \/ kind \notin astray[m]
    BY <1>1 DEF Starts
  <2>1. svc'[m][kind] = IF m = n /\ k = kind /\ svc[m][kind] = None
                        THEN c ELSE svc[m][kind]
    BY <1>1, <1>2, <1>3 DEF StartService
  <2>2. astray'[m] = IF m = n THEN IF svc[n][k] = None THEN astray[n] \ {k} ELSE astray[n]
                     ELSE astray[m]
    BY <1>1, <1>3 DEF StartService
  <2> QED
    BY <2>1, <2>2
<1>4. ASSUME StopService(n, k) PROVE Stops(n, k)
  <2> SUFFICES ASSUME NEW m \in Nodes, NEW kind \in Kinds
               PROVE  /\ svc'[m][kind] = IF m = n /\ k = kind THEN None ELSE svc[m][kind]
                      /\ (m = n /\ k = kind) \/ kind \in astray'[m] \/ kind \notin astray[m]
    BY <1>1 DEF Stops
  <2>1. svc'[m][kind] = IF m = n /\ k = kind THEN None ELSE svc[m][kind]
    BY <1>1, <1>2, <1>4 DEF StopService
  <2>2. astray'[m] = IF m = n THEN astray[n] \ {k} ELSE astray[m]
    BY <1>1, <1>4 DEF StopService
  <2> QED
    BY <2>1, <2>2
<1>5. ASSUME StopAll(n) PROVE StopsAll(n)
  BY <1>1, <1>2, <1>5 DEF StopAll, StopsAll
<1>6. ASSUME StartUnconfirmed(n, k, c) PROVE MayStray(n, k)
  <2> SUFFICES ASSUME NEW m \in Nodes, NEW kind \in Kinds
               PROVE  \/ m = n /\ k = kind /\ kind \in astray'[m]
                      \/ /\ svc'[m][kind] = svc[m][kind]
                         /\ kind \in astray'[m] \/ kind \notin astray[m]
    BY <1>1 DEF MayStray
  <2>1. (m = n /\ k = kind) \/ svc'[m][kind] = svc[m][kind]
    BY <1>1, <1>2, <1>6 DEF StartUnconfirmed
  <2>2. astray'[m] = IF m = n THEN astray[n] \cup {k} ELSE astray[m]
    BY <1>1, <1>6 DEF StartUnconfirmed
  <2> QED
    BY <2>1, <2>2
<1>7. ASSUME UNCHANGED units PROVE MayStray(n, k)
  BY <1>7 DEF units, MayStray
<1> QED
  BY <1>3, <1>4, <1>5, <1>6, <1>7

\* Units, kind by kind.
LEMMA NoUnitsFacts ==
    NoUnits <=> \A n \in Nodes : /\ svc[n]["rqlite"] = None \/ "rqlite" \in astray[n]
                                 /\ svc[n]["olric"] = None \/ "olric" \in astray[n]
                                 /\ svc[n]["gateway"] = None \/ "gateway" \in astray[n]
BY DEF NoUnits, Kinds

\* No unit runs exactly when none of the three kinds does.
LEMMA NoUnitsNext ==
    NoUnits' <=> \A n \in Nodes : /\ svc'[n]["rqlite"] = None \/ "rqlite" \in astray'[n]
                                  /\ svc'[n]["olric"] = None \/ "olric" \in astray'[n]
                                  /\ svc'[n]["gateway"] = None \/ "gateway" \in astray'[n]
BY DEF NoUnits, Kinds

\* What was noted is so, if nothing is noted against it.
LEMMA Noted ==
    ASSUME NEW fine, Note(fine), calm'
    PROVE  calm /\ fine
BY Zenon DEF Note

-----------------------------------------------------------------------------
(* A goroutine at work, undisturbed. *)

\* Who else is there while a goroutine lives: nobody.
LEMMA JobAlone ==
    ASSUME Undisturbed, NEW c \in JobsLive
    PROVE  /\ c = cluster /\ status = "provisioning" /\ ~job[c].expired
           /\ JobsLive = {c} /\ Built(c)
           /\ \A n \in Nodes : dep[n].pc = "idle" /\ restore[n].pc = "idle"
           /\ \A n \in Nodes : file[n].c # c /\ (n \in up => file[n] = NoFile)
           /\ ~Removing
BY DEF Undisturbed, Alone, Building, Removing

\* A step that keeps to the plan.
Keeps(c) ==
    /\ Moves(c) /\ job'[c].pc \notin {"none", "done"} /\ job'[c].expired = job[c].expired
    /\ status' = status /\ \A r \in rows' : r \in rows \/ r[1] = c
    /\ Built(c)'

\* A step of the goroutine that keeps to its plan disturbs nothing else.
LEMMA JobStays ==
    ASSUME Firm, Undisturbed, NEW c \in JobsLive, Keeps(c),
           UNCHANGED <<cluster, file, up, req, dep, restore>>
    PROVE  Undisturbed'
<1>1. /\ c = cluster /\ status = "provisioning" /\ ~job[c].expired
      /\ JobsLive = {c} /\ c \in Clusters
      /\ \A n \in Nodes : dep[n].pc = "idle" /\ restore[n].pc = "idle"
      /\ \A n \in Nodes : file[n].c # c /\ (n \in up => file[n] = NoFile)
      /\ ~Removing
  BY JobAlone DEF JobsLive
<1>2. /\ Moves(c) /\ job'[c].pc \notin {"none", "done"} /\ job'[c].expired = job[c].expired
      /\ status' = status /\ (\A r \in rows' : r \in rows \/ r[1] = c) /\ Built(c)'
  BY DEF Keeps
<1>3. JobsLive' = {c}
  BY <1>1, <1>2 DEF JobsLive, Moves
<1>4. Alone'
  BY <1>1, <1>2, <1>3 DEF Alone
<1>5. Replacing'
  BY <1>2 DEF Replacing, Undisturbed
<1>6. Files'
  <2> SUFFICES ASSUME NEW n \in Nodes, file[n] # NoFile
               PROVE  /\ file[n].c # None /\ file[n].gw
                      /\ file[n].c # c /\ \A m \in Nodes : ~HasRow(m, file[n].c)'
    BY <1>1, <1>2 DEF Files
  <2>1. /\ file[n].c # None /\ file[n].gw /\ file[n].c # c
        /\ \A m \in Nodes : ~HasRow(m, file[n].c)
    BY <1>1 DEF Undisturbed, Files
  <2>2. \A m \in Nodes : HasRow(m, file[n].c)' => HasRow(m, file[n].c)
    BY <1>2, <2>1 DEF HasRow
  <2> QED
    BY <2>1, <2>2
<1>7. Standing' /\ Restoring' /\ Leaving'
  BY <1>1, <1>2 DEF Standing, Restoring, RestoreHas, Leaving
<1>8. Building'
  BY <1>1, <1>2, <1>3 DEF Building
<1> QED
  BY <1>4, <1>5, <1>6, <1>7, <1>8 DEF Undisturbed

-----------------------------------------------------------------------------
(* Each step of the goroutine leaves what its next phase expects. *)

\* Phase by phase, an undisturbed goroutine keeps to its plan: selecting the nodes,
LEMMA SelectBuilds ==
    ASSUME Firm, Undisturbed, NEW c \in JobsLive, SelectNodesForCluster(c), calm'
    PROVE  Keeps(c)
<1>1. job[c].pc = "select" /\ c \in Clusters /\ Types
  BY DEF SelectNodesForCluster, At, Recording, Firm, JobsLive
<1>2. UNCHANGED <<ports, rows, dns, svc, astray>> /\ status' = status
  BY <1>1 DEF SelectNodesForCluster, tables, units
<1>3. Went(c, "failed", {}) \/ Selected(c)
  BY <1>1, SelectMoves
<1>4. Built(c)
  BY JobAlone
<1>5. PortsBuilt(c)'
  BY <1>1, <1>2, <1>3, <1>4 DEF Built, PortsBuilt, PortsAre, Went, Moves, SamePlace,
      Selected
<1>6. DNSBuilt(c)'
  BY <1>1, <1>2, <1>3, <1>4 DEF Built, DNSBuilt, Went, Moves, SamePlace, Selected
<1>7. RowsBuilt(c)'
  BY <1>1, <1>2, <1>3, <1>4 DEF Built, RowsBuilt, Recorded, Went, Moves, SamePlace, Selected
<1>8. UnitsBuilt(c)'
  BY <1>1, <1>2, <1>3, <1>4, NoUnitsFacts, NoUnitsNext DEF Built, UnitsBuilt, UnitsAre,
      Went, Moves, SamePlace, Selected
<1>9. UnitsUndone(c)'
  BY <1>1, <1>2, <1>3, <1>4, NoUnitsFacts, NoUnitsNext DEF Built, UnitsUndone,
      UnitsWithin, Went, Moves, SamePlace, Selected
<1>10. job'[c].pc \notin {"none", "done"} /\ job'[c].expired = job[c].expired /\ Moves(c)
  BY <1>1, <1>3 DEF Went, Moves, SamePlace, Selected
<1> QED
  BY <1>2, <1>5, <1>6, <1>7, <1>8, <1>9, <1>10 DEF Keeps, Built

\* allocating the port blocks,
LEMMA AllocateBuilds ==
    ASSUME Firm, Undisturbed, NEW c \in JobsLive, AllocatePortBlock(c), calm'
    PROVE  Keeps(c)
<1>1. job[c].pc = "allocate" /\ c \in Clusters /\ Types
  BY DEF AllocatePortBlock, At, Recording, Firm, JobsLive
<1>2. ports' = ports \cup {<<c, Current(c)>>} /\ UNCHANGED <<rows, dns, svc, astray>> /\ status' = status
  BY <1>1, Names DEF AllocatePortBlock, SetPorts, units
<1>3. Advanced(c, "allocate", "rqlite")
  BY <1>1, AllocateMoves
<1>4. Built(c)
  BY JobAlone
<1>5. Current(c) \notin Done(c) /\ Current(c) \in Team(c) /\ Done(c) \subseteq Team(c)
      /\ Current(c) \in Nodes
  BY <1>1, TeamFacts
<1>6. PortsBuilt(c)'
  BY <1>1, <1>2, <1>3, <1>4, <1>5 DEF Built, PortsBuilt, PortsAre, Advanced, Moves
<1>7. DNSBuilt(c)'
  BY <1>1, <1>2, <1>3, <1>4, <1>5 DEF Built, DNSBuilt, Advanced, Moves
<1>8. RowsBuilt(c)'
  BY <1>1, <1>2, <1>3, <1>4, <1>5 DEF Built, RowsBuilt, Recorded, Advanced, Moves
<1>9. UnitsBuilt(c)'
  BY <1>1, <1>2, <1>3, <1>4, <1>5, NoUnitsFacts, NoUnitsNext DEF Built, UnitsBuilt,
      UnitsAre, Advanced, Moves
<1>10. UnitsUndone(c)'
  BY <1>1, <1>2, <1>3, <1>4, <1>5, NoUnitsFacts, NoUnitsNext DEF Built, UnitsUndone,
      UnitsWithin, Advanced, Moves
<1>11. job'[c].pc \notin {"none", "done"} /\ job'[c].expired = job[c].expired /\ Moves(c)
  BY <1>1, <1>3 DEF Advanced, Moves
<1> QED
  BY <1>2, <1>6, <1>7, <1>8, <1>9, <1>10, <1>11 DEF Keeps, Built

\* failing to,
LEMMA AllocationFailsBuilds ==
    ASSUME Firm, Undisturbed, NEW c \in JobsLive, AllocationFails(c), calm'
    PROVE  Keeps(c)
<1>1. job[c].pc = "allocate" /\ c \in Clusters /\ Types
  BY DEF AllocationFails, At, Recording, Firm, JobsLive
<1>2. UNCHANGED <<ports, rows, dns, svc, astray>> /\ status' = status
  BY <1>1, Zenon DEF AllocationFails, tables, Note, units
<1>3. (Done(c) = {} /\ Went(c, "failed", {})) \/ Went(c, "release", Done(c))
  BY <1>1, AllocationFailsMoves
<1>4. Built(c)
  BY JobAlone
<1>5. Current(c) \notin Done(c) /\ Current(c) \in Team(c) /\ Done(c) \subseteq Team(c)
      /\ Current(c) \in Nodes
  BY <1>1, TeamFacts
<1>6. PortsBuilt(c)'
  BY <1>1, <1>2, <1>3, <1>4, <1>5 DEF Built, PortsBuilt, PortsAre, Went, Moves, SamePlace
<1>7. DNSBuilt(c)'
  BY <1>1, <1>2, <1>3, <1>4, <1>5 DEF Built, DNSBuilt, Went, Moves, SamePlace
<1>8. RowsBuilt(c)'
  BY <1>1, <1>2, <1>3, <1>4, <1>5 DEF Built, RowsBuilt, Recorded, Went, Moves, SamePlace
<1>9. UnitsBuilt(c)'
  BY <1>1, <1>2, <1>3, <1>4, <1>5, NoUnitsFacts, NoUnitsNext DEF Built, UnitsBuilt,
      UnitsAre, Went, Moves, SamePlace
<1>10. UnitsUndone(c)'
  BY <1>1, <1>2, <1>3, <1>4, <1>5, NoUnitsFacts, NoUnitsNext DEF Built, UnitsUndone,
      UnitsWithin, Went, Moves, SamePlace
<1>11. job'[c].pc \notin {"none", "done"} /\ job'[c].expired = job[c].expired /\ Moves(c)
  BY <1>1, <1>3 DEF Went, Moves, SamePlace
<1> QED
  BY <1>2, <1>6, <1>7, <1>8, <1>9, <1>10, <1>11 DEF Keeps, Built

\* spawning RQLite,
LEMMA SpawnRQLiteBuilds ==
    ASSUME Firm, Undisturbed, NEW c \in JobsLive, Spawn(c, "rqlite"), calm'
    PROVE  Keeps(c)
<1>1. job[c].pc = "rqlite" /\ c \in Clusters /\ Types
  BY DEF Spawn, At, Recording, Firm, JobsLive
<1>2. Starts(Current(c), "rqlite", c) /\ UNCHANGED <<ports, rows, dns>> /\ status' = status
  <2>1. /\ StartService(Current(c), "rqlite", c) /\ UNCHANGED <<ports, rows, dns, status>>
        /\ Current(c) \in Nodes /\ "rqlite" \in Kinds /\ DiskTypes /\ Strayed
    BY <1>1, Names, TeamFacts DEF Spawn, tables, Kinds, Types, Firm
  <2> QED
    BY <2>1, UnitFacts
<1>3. Went(c, "record_rqlite", {})
  BY <1>1, SpawnMoves
<1>4. Built(c)
  BY JobAlone
<1>5. Current(c) \notin Done(c) /\ Current(c) \in Team(c) /\ Done(c) \subseteq Team(c)
      /\ Current(c) \in Nodes
  BY <1>1, TeamFacts
<1>6. PortsBuilt(c)'
  BY <1>1, <1>2, <1>3, <1>4, <1>5 DEF Built, PortsBuilt, PortsAre, Went, Moves, SamePlace
<1>7. DNSBuilt(c)'
  BY <1>1, <1>2, <1>3, <1>4, <1>5 DEF Built, DNSBuilt, Went, Moves, SamePlace
<1>8. RowsBuilt(c)'
  BY <1>1, <1>2, <1>3, <1>4, <1>5 DEF Built, RowsBuilt, Recorded, Went, Moves, SamePlace
<1>9. UnitsBuilt(c)'
  BY <1>1, <1>2, <1>3, <1>4, <1>5, NoUnitsFacts, NoUnitsNext DEF Built, UnitsBuilt,
      UnitsAre, Went, Moves, SamePlace, Starts
<1>10. UnitsUndone(c)'
  BY <1>1, <1>2, <1>3, <1>4, <1>5, NoUnitsFacts, NoUnitsNext DEF Built, UnitsUndone,
      UnitsWithin, Went, Moves, SamePlace, Starts
<1>11. job'[c].pc \notin {"none", "done"} /\ job'[c].expired = job[c].expired /\ Moves(c)
  BY <1>1, <1>3 DEF Went, Moves, SamePlace
<1> QED
  BY <1>2, <1>6, <1>7, <1>8, <1>9, <1>10, <1>11 DEF Keeps, Built

\* and the gateways,
LEMMA SpawnGatewayBuilds ==
    ASSUME Firm, Undisturbed, NEW c \in JobsLive, Spawn(c, "gateway"), calm'
    PROVE  Keeps(c)
<1>1. job[c].pc = "gateway" /\ c \in Clusters /\ Types
  BY DEF Spawn, At, Recording, Firm, JobsLive
<1>2. Starts(Current(c), "gateway", c) /\ UNCHANGED <<ports, rows, dns>> /\ status' = status
  <2>1. /\ StartService(Current(c), "gateway", c) /\ UNCHANGED <<ports, rows, dns, status>>
        /\ Current(c) \in Nodes /\ "gateway" \in Kinds /\ DiskTypes /\ Strayed
    BY <1>1, Names, TeamFacts DEF Spawn, tables, Kinds, Types, Firm
  <2> QED
    BY <2>1, UnitFacts
<1>3. Went(c, "record_gateway", {})
  BY <1>1, SpawnMoves
<1>4. Built(c)
  BY JobAlone
<1>5. Current(c) \notin Done(c) /\ Current(c) \in Team(c) /\ Done(c) \subseteq Team(c)
      /\ Current(c) \in Nodes
  BY <1>1, TeamFacts
<1>6. PortsBuilt(c)'
  BY <1>1, <1>2, <1>3, <1>4, <1>5 DEF Built, PortsBuilt, PortsAre, Went, Moves, SamePlace
<1>7. DNSBuilt(c)'
  BY <1>1, <1>2, <1>3, <1>4, <1>5 DEF Built, DNSBuilt, Went, Moves, SamePlace
<1>8. RowsBuilt(c)'
  BY <1>1, <1>2, <1>3, <1>4, <1>5 DEF Built, RowsBuilt, Recorded, Went, Moves, SamePlace
<1>9. UnitsBuilt(c)'
  BY <1>1, <1>2, <1>3, <1>4, <1>5, NoUnitsFacts, NoUnitsNext DEF Built, UnitsBuilt,
      UnitsAre, Went, Moves, SamePlace, Starts
<1>10. UnitsUndone(c)'
  BY <1>1, <1>2, <1>3, <1>4, <1>5, NoUnitsFacts, NoUnitsNext DEF Built, UnitsUndone,
      UnitsWithin, Went, Moves, SamePlace, Starts
<1>11. job'[c].pc \notin {"none", "done"} /\ job'[c].expired = job[c].expired /\ Moves(c)
  BY <1>1, <1>3 DEF Went, Moves, SamePlace
<1> QED
  BY <1>2, <1>6, <1>7, <1>8, <1>9, <1>10, <1>11 DEF Keeps, Built

\* failing to spawn RQLite,
LEMMA SpawnRQLiteFailsBuilds ==
    ASSUME Firm, Undisturbed, NEW c \in JobsLive, SpawnFails(c, "rqlite"), calm'
    PROVE  Keeps(c)
<1>1. job[c].pc = "rqlite" /\ c \in Clusters /\ Types
  BY DEF SpawnFails, At, Recording, Firm, JobsLive
<1>2. MayStray(Current(c), "rqlite") /\ UNCHANGED <<ports, rows, dns>> /\ status' = status
  <2>1. /\ UNCHANGED <<ports, rows, dns, status>>
        /\ StartUnconfirmed(Current(c), "rqlite", c) \/ UNCHANGED units
        /\ Current(c) \in Nodes /\ "rqlite" \in Kinds /\ DiskTypes /\ Strayed
    BY <1>1, Names, TeamFacts DEF SpawnFails, tables, Kinds, Types, Firm
  <2> QED
    BY <2>1, UnitFacts
<1>3. FellBack(c, "rqlite")
  BY <1>1, SpawnFailsMoves
<1>4. Built(c)
  BY JobAlone
<1>5. Current(c) \notin Done(c) /\ Current(c) \in Team(c) /\ Done(c) \subseteq Team(c)
      /\ Current(c) \in Nodes
  BY <1>1, TeamFacts
<1>6. PortsBuilt(c)'
  BY <1>1, <1>2, <1>3, <1>4, <1>5 DEF Built, PortsBuilt, PortsAre, FellBack, Moves,
      SamePlace
<1>7. DNSBuilt(c)'
  BY <1>1, <1>2, <1>3, <1>4, <1>5 DEF Built, DNSBuilt, FellBack, Moves, SamePlace
<1>8. RowsBuilt(c)'
  BY <1>1, <1>2, <1>3, <1>4, <1>5 DEF Built, RowsBuilt, Recorded, FellBack, Moves, SamePlace
<1>9. UnitsBuilt(c)'
  BY <1>1, <1>2, <1>3, <1>4, <1>5, NoUnitsFacts, NoUnitsNext DEF Built, UnitsBuilt,
      UnitsAre, FellBack, Moves, SamePlace, MayStray
<1>10. UnitsUndone(c)'
  BY <1>1, <1>2, <1>3, <1>4, <1>5, NoUnitsFacts, NoUnitsNext DEF Built, UnitsBuilt,
      UnitsAre, UnitsUndone, UnitsWithin, FellBack, Moves, SamePlace, MayStray
<1>11. job'[c].pc \notin {"none", "done"} /\ job'[c].expired = job[c].expired /\ Moves(c)
  BY <1>1, <1>3 DEF FellBack, Moves, SamePlace
<1> QED
  BY <1>2, <1>6, <1>7, <1>8, <1>9, <1>10, <1>11 DEF Keeps, Built

\* or a gateway,
LEMMA SpawnGatewayFailsBuilds ==
    ASSUME Firm, Undisturbed, NEW c \in JobsLive, SpawnFails(c, "gateway"), calm'
    PROVE  Keeps(c)
<1>1. job[c].pc = "gateway" /\ c \in Clusters /\ Types
  BY DEF SpawnFails, At, Recording, Firm, JobsLive
<1>2. MayStray(Current(c), "gateway") /\ UNCHANGED <<ports, rows, dns>> /\ status' = status
  <2>1. /\ UNCHANGED <<ports, rows, dns, status>>
        /\ StartUnconfirmed(Current(c), "gateway", c) \/ UNCHANGED units
        /\ Current(c) \in Nodes /\ "gateway" \in Kinds /\ DiskTypes /\ Strayed
    BY <1>1, Names, TeamFacts DEF SpawnFails, tables, Kinds, Types, Firm
  <2> QED
    BY <2>1, UnitFacts
<1>3. FellBack(c, "gateway")
  BY <1>1, SpawnFailsMoves
<1>4. Built(c)
  BY JobAlone
<1>5. Current(c) \notin Done(c) /\ Current(c) \in Team(c) /\ Done(c) \subseteq Team(c)
      /\ Current(c) \in Nodes
  BY <1>1, TeamFacts
<1>6. PortsBuilt(c)'
  BY <1>1, <1>2, <1>3, <1>4, <1>5 DEF Built, PortsBuilt, PortsAre, FellBack, Moves,
      SamePlace
<1>7. DNSBuilt(c)'
  BY <1>1, <1>2, <1>3, <1>4, <1>5 DEF Built, DNSBuilt, FellBack, Moves, SamePlace
<1>8. RowsBuilt(c)'
  BY <1>1, <1>2, <1>3, <1>4, <1>5 DEF Built, RowsBuilt, Recorded, FellBack, Moves, SamePlace
<1>9. UnitsBuilt(c)'
  BY <1>1, <1>2, <1>3, <1>4, <1>5, NoUnitsFacts, NoUnitsNext DEF Built, UnitsBuilt,
      UnitsAre, FellBack, Moves, SamePlace, MayStray
<1>10. UnitsUndone(c)'
  BY <1>1, <1>2, <1>3, <1>4, <1>5, NoUnitsFacts, NoUnitsNext DEF Built, UnitsBuilt,
      UnitsAre, UnitsUndone, UnitsWithin, FellBack, Moves, SamePlace, MayStray
<1>11. job'[c].pc \notin {"none", "done"} /\ job'[c].expired = job[c].expired /\ Moves(c)
  BY <1>1, <1>3 DEF FellBack, Moves, SamePlace
<1> QED
  BY <1>2, <1>6, <1>7, <1>8, <1>9, <1>10, <1>11 DEF Keeps, Built

\* recording RQLite,
LEMMA RecordRQLiteBuilds ==
    ASSUME Firm, Undisturbed, NEW c \in JobsLive, RecordNode(c, "rqlite", "olric"), calm'
    PROVE  Keeps(c)
<1>1. job[c].pc = "record_rqlite" /\ c \in Clusters /\ Types
  BY DEF RecordNode, At, Recording, Firm, JobsLive
<1>2. rows' = rows \cup {<<c, Current(c), "rqlite">>} /\ UNCHANGED <<ports, dns, svc, astray>>
      /\ status' = status
  BY <1>1, Names, Zenon DEF RecordNode, SetRows, Note, units
<1>3. Advanced(c, "rqlite", "olric")
  BY <1>1, RecordMoves
<1>4. Built(c)
  BY JobAlone
<1>5. Current(c) \notin Done(c) /\ Current(c) \in Team(c) /\ Done(c) \subseteq Team(c)
      /\ Current(c) \in Nodes
  BY <1>1, TeamFacts
<1>6. PortsBuilt(c)'
  BY <1>1, <1>2, <1>3, <1>4, <1>5 DEF Built, PortsBuilt, PortsAre, Advanced, Moves
<1>7. DNSBuilt(c)'
  BY <1>1, <1>2, <1>3, <1>4, <1>5 DEF Built, DNSBuilt, Advanced, Moves
<1>8. RowsBuilt(c)'
  BY <1>1, <1>2, <1>3, <1>4, <1>5 DEF Built, RowsBuilt, Recorded, Advanced, Moves
<1>9. UnitsBuilt(c)'
  BY <1>1, <1>2, <1>3, <1>4, <1>5, NoUnitsFacts, NoUnitsNext DEF Built, UnitsBuilt,
      UnitsAre, Advanced, Moves
<1>10. UnitsUndone(c)'
  BY <1>1, <1>2, <1>3, <1>4, <1>5, NoUnitsFacts, NoUnitsNext DEF Built, UnitsUndone,
      UnitsWithin, Advanced, Moves
<1>11. job'[c].pc \notin {"none", "done"} /\ job'[c].expired = job[c].expired /\ Moves(c)
  BY <1>1, <1>3 DEF Advanced, Moves
<1> QED
  BY <1>2, <1>6, <1>7, <1>8, <1>9, <1>10, <1>11 DEF Keeps, Built

\* Olric,
LEMMA RecordOlricBuilds ==
    ASSUME Firm, Undisturbed, NEW c \in JobsLive, RecordNode(c, "olric", "gateway"), calm'
    PROVE  Keeps(c)
<1>1. job[c].pc = "record_olric" /\ c \in Clusters /\ Types
  BY DEF RecordNode, At, Recording, Firm, JobsLive
<1>2. rows' = rows \cup {<<c, Current(c), "olric">>} /\ UNCHANGED <<ports, dns, svc, astray>>
      /\ status' = status
  BY <1>1, Names, Zenon DEF RecordNode, SetRows, Note, units
<1>3. Advanced(c, "record_olric", "gateway")
  BY <1>1, RecordMoves
<1>4. Built(c)
  BY JobAlone
<1>5. Current(c) \notin Done(c) /\ Current(c) \in Team(c) /\ Done(c) \subseteq Team(c)
      /\ Current(c) \in Nodes
  BY <1>1, TeamFacts
<1>6. PortsBuilt(c)'
  BY <1>1, <1>2, <1>3, <1>4, <1>5 DEF Built, PortsBuilt, PortsAre, Advanced, Moves
<1>7. DNSBuilt(c)'
  BY <1>1, <1>2, <1>3, <1>4, <1>5 DEF Built, DNSBuilt, Advanced, Moves
<1>8. RowsBuilt(c)'
  BY <1>1, <1>2, <1>3, <1>4, <1>5 DEF Built, RowsBuilt, Recorded, Advanced, Moves
<1>9. UnitsBuilt(c)'
  BY <1>1, <1>2, <1>3, <1>4, <1>5, NoUnitsFacts, NoUnitsNext DEF Built, UnitsBuilt,
      UnitsAre, Advanced, Moves
<1>10. UnitsUndone(c)'
  BY <1>1, <1>2, <1>3, <1>4, <1>5, NoUnitsFacts, NoUnitsNext DEF Built, UnitsUndone,
      UnitsWithin, Advanced, Moves
<1>11. job'[c].pc \notin {"none", "done"} /\ job'[c].expired = job[c].expired /\ Moves(c)
  BY <1>1, <1>3 DEF Advanced, Moves
<1> QED
  BY <1>2, <1>6, <1>7, <1>8, <1>9, <1>10, <1>11 DEF Keeps, Built

\* and a gateway,
LEMMA RecordGatewayBuilds ==
    ASSUME Firm, Undisturbed, NEW c \in JobsLive, RecordNode(c, "gateway", "dns"), calm'
    PROVE  Keeps(c)
<1>1. job[c].pc = "record_gateway" /\ c \in Clusters /\ Types
  BY DEF RecordNode, At, Recording, Firm, JobsLive
<1>2. rows' = rows \cup {<<c, Current(c), "gateway">>} /\ UNCHANGED <<ports, dns, svc, astray>>
      /\ status' = status
  BY <1>1, Names, Zenon DEF RecordNode, SetRows, Note, units
<1>3. Advanced(c, "gateway", "dns")
  BY <1>1, RecordMoves
<1>4. Built(c)
  BY JobAlone
<1>5. Current(c) \notin Done(c) /\ Current(c) \in Team(c) /\ Done(c) \subseteq Team(c)
      /\ Current(c) \in Nodes
  BY <1>1, TeamFacts
<1>6. PortsBuilt(c)'
  BY <1>1, <1>2, <1>3, <1>4, <1>5 DEF Built, PortsBuilt, PortsAre, Advanced, Moves
<1>7. DNSBuilt(c)'
  BY <1>1, <1>2, <1>3, <1>4, <1>5 DEF Built, DNSBuilt, Advanced, Moves
<1>8. RowsBuilt(c)'
  BY <1>1, <1>2, <1>3, <1>4, <1>5 DEF Built, RowsBuilt, Recorded, Advanced, Moves
<1>9. UnitsBuilt(c)'
  BY <1>1, <1>2, <1>3, <1>4, <1>5, NoUnitsFacts, NoUnitsNext DEF Built, UnitsBuilt,
      UnitsAre, Advanced, Moves
<1>10. UnitsUndone(c)'
  BY <1>1, <1>2, <1>3, <1>4, <1>5, NoUnitsFacts, NoUnitsNext DEF Built, UnitsUndone,
      UnitsWithin, Advanced, Moves
<1>11. job'[c].pc \notin {"none", "done"} /\ job'[c].expired = job[c].expired /\ Moves(c)
  BY <1>1, <1>3 DEF Advanced, Moves
<1> QED
  BY <1>2, <1>6, <1>7, <1>8, <1>9, <1>10, <1>11 DEF Keeps, Built

\* deleting the old records,
LEMMA ClearDNSBuilds ==
    ASSUME Firm, Undisturbed, NEW c \in JobsLive, ClearDNS(c), calm'
    PROVE  Keeps(c)
<1>1. job[c].pc = "dns" /\ c \in Clusters /\ Types
  BY DEF ClearDNS, At, Recording, Firm, JobsLive
<1>2. dns' = {} /\ UNCHANGED <<ports, rows, svc, astray>> /\ status' = status
  BY <1>1, Zenon DEF ClearDNS, SetDNS, Note, units
<1>3. Went(c, "dns_insert", {})
  BY <1>1, ClearDNSMoves
<1>4. Built(c)
  BY JobAlone
<1>5. Current(c) \notin Done(c) /\ Current(c) \in Team(c) /\ Done(c) \subseteq Team(c)
      /\ Current(c) \in Nodes
  BY <1>1, TeamFacts
<1>6. PortsBuilt(c)'
  BY <1>1, <1>2, <1>3, <1>4, <1>5 DEF Built, PortsBuilt, PortsAre, Went, Moves, SamePlace
<1>7. DNSBuilt(c)'
  BY <1>1, <1>2, <1>3, <1>4, <1>5 DEF Built, DNSBuilt, Went, Moves, SamePlace
<1>8. RowsBuilt(c)'
  BY <1>1, <1>2, <1>3, <1>4, <1>5 DEF Built, RowsBuilt, Recorded, Went, Moves, SamePlace
<1>9. UnitsBuilt(c)'
  BY <1>1, <1>2, <1>3, <1>4, <1>5, NoUnitsFacts, NoUnitsNext DEF Built, UnitsBuilt,
      UnitsAre, Went, Moves, SamePlace
<1>10. UnitsUndone(c)'
  BY <1>1, <1>2, <1>3, <1>4, <1>5, NoUnitsFacts, NoUnitsNext DEF Built, UnitsUndone,
      UnitsWithin, Went, Moves, SamePlace
<1>11. job'[c].pc \notin {"none", "done"} /\ job'[c].expired = job[c].expired /\ Moves(c)
  BY <1>1, <1>3 DEF Went, Moves, SamePlace
<1> QED
  BY <1>2, <1>6, <1>7, <1>8, <1>9, <1>10, <1>11 DEF Keeps, Built

\* releasing all ports,
LEMMA FreePortsBuilds ==
    ASSUME Firm, Undisturbed, NEW c \in JobsLive, FreePorts(c), calm'
    PROVE  Keeps(c)
<1>1. job[c].pc = "free_ports" /\ c \in Clusters /\ Types
  BY DEF FreePorts, At, Recording, Firm, JobsLive
<1>2. ports' = ports \ PortsOf(c) /\ UNCHANGED <<dns, rows, svc, astray>> /\ status' = status
  BY <1>1, Zenon DEF FreePorts, SetPorts, Note, units
<1>3. Went(c, "failed", {})
  BY <1>1, FreePortsMoves
<1>4. Built(c)
  BY JobAlone
<1>5. Current(c) \notin Done(c) /\ Current(c) \in Team(c) /\ Done(c) \subseteq Team(c)
      /\ Current(c) \in Nodes
  BY <1>1, TeamFacts
<1>6. PortsBuilt(c)'
  BY <1>1, <1>2, <1>3, <1>4, <1>5 DEF Built, PortsBuilt, PortsAre, Went, Moves,
      SamePlace, PortsOf
<1>7. DNSBuilt(c)'
  BY <1>1, <1>2, <1>3, <1>4, <1>5 DEF Built, DNSBuilt, Went, Moves, SamePlace
<1>8. RowsBuilt(c)'
  BY <1>1, <1>2, <1>3, <1>4, <1>5 DEF Built, RowsBuilt, Recorded, Went, Moves, SamePlace
<1>9. UnitsBuilt(c)'
  BY <1>1, <1>2, <1>3, <1>4, <1>5, NoUnitsFacts, NoUnitsNext DEF Built, UnitsBuilt,
      UnitsAre, Went, Moves, SamePlace
<1>10. UnitsUndone(c)'
  BY <1>1, <1>2, <1>3, <1>4, <1>5, NoUnitsFacts, NoUnitsNext DEF Built, UnitsUndone,
      UnitsWithin, Went, Moves, SamePlace
<1>11. job'[c].pc \notin {"none", "done"} /\ job'[c].expired = job[c].expired /\ Moves(c)
  BY <1>1, <1>3 DEF Went, Moves, SamePlace
<1> QED
  BY <1>2, <1>6, <1>7, <1>8, <1>9, <1>10, <1>11 DEF Keeps, Built

\* inserting the records,
LEMMA InsertDNSBuilds ==
    ASSUME Firm, Undisturbed, NEW c \in JobsLive, InsertDNS(c), calm'
    PROVE  Keeps(c)
<1>1. job[c].pc = "dns_insert" /\ c \in Clusters /\ Types
  BY DEF InsertDNS, At, Firm, JobsLive
<1>2. /\ dns' = dns \cup {Current(c)} /\ UNCHANGED <<ports, rows, svc, astray, status>>
      /\ Advance(c, "dns_insert", "ready")
  BY <1>1, Names, Zenon DEF InsertDNS, SetDNS, Note, units
<1>3. Advanced(c, "dns_insert", "ready")
  BY <1>1, <1>2, InsertDNSMoves
<1>4. Built(c)
  BY JobAlone
<1>5. PortsBuilt(c)'
  BY <1>1, <1>2, <1>3, <1>4 DEF Built, PortsBuilt, PortsAre, Advanced
<1>6. DNSBuilt(c)'
  BY <1>1, <1>2, <1>3, <1>4 DEF Built, DNSBuilt, Advanced
<1>7. RowsBuilt(c)'
  BY <1>1, <1>2, <1>3, <1>4 DEF Built, RowsBuilt, Recorded, Advanced
<1>8. UnitsBuilt(c)'
  BY <1>1, <1>2, <1>3, <1>4 DEF Built, UnitsBuilt, UnitsAre, Advanced
<1>9. UnitsUndone(c)'
  BY <1>1, <1>2, <1>3, <1>4 DEF UnitsUndone, Advanced
<1> QED
  BY <1>1, <1>2, <1>3, <1>5, <1>6, <1>7, <1>8, <1>9 DEF Keeps, Built, Advanced

\* releasing the blocks of a failed allocation,
LEMMA ReleaseBuilds ==
    ASSUME Firm, Undisturbed, NEW c \in JobsLive, Release(c), calm'
    PROVE  Keeps(c)
<1>1. job[c].pc = "release" /\ c \in Clusters /\ Types
  BY DEF Release, At, Firm, JobsLive
<1>2. PICK n \in job[c].todo : /\ ports' = ports \ {<<c, n>>}
                              /\ UNCHANGED <<dns, rows, svc, astray, status>> /\ Undone(c, n)
  BY Zenon DEF Release, SetPorts, Note, units
<1>3. \/ Went(c, "release", job[c].todo \ {n})
      \/ job[c].todo \subseteq {n} /\ Went(c, "failed", Team(c))
  <2>1. UndidOne(c, n) /\ AfterPhase(c) = "failed"
    BY <1>1, <1>2, UndoneMoves, AfterFacts
  <2> QED
    BY <1>1, <2>1 DEF UndidOne
<1>4. Built(c)
  BY JobAlone
<1>5. PortsBuilt(c)'
  BY <1>1, <1>2, <1>3, <1>4 DEF Built, PortsBuilt, PortsAre, Went, SamePlace
<1>6. DNSBuilt(c)'
  BY <1>1, <1>2, <1>3, <1>4 DEF Built, DNSBuilt, Went, SamePlace
<1>7. RowsBuilt(c)'
  BY <1>1, <1>3 DEF RowsBuilt, Went
<1>8. UnitsBuilt(c)'
  BY <1>1, <1>2, <1>3, <1>4, NoUnitsFacts, NoUnitsNext DEF Built, UnitsBuilt, Went
<1>9. UnitsUndone(c)'
  BY <1>1, <1>3 DEF UnitsUndone, Went
<1> QED
  BY <1>1, <1>2, <1>3, <1>5, <1>6, <1>7, <1>8, <1>9 DEF Keeps, Built, Went

\* stopping the local services,
LEMMA StopLocalBuilds ==
    ASSUME Firm, Undisturbed, NEW c \in JobsLive, StopLocal(c), calm'
    PROVE  Keeps(c)
<1>1. job[c].pc = "stop_all" /\ c \in Clusters /\ Types /\ job[c].at \in Nodes
  BY DEF StopLocal, At, Firm, JobsLive, Locks
<1>2. StopsAll(job[c].at) /\ UNCHANGED <<ports, rows, dns, status>>
  <2>1. "rqlite" \in Kinds /\ DiskTypes /\ Strayed
    BY <1>1 DEF Kinds, Types, Firm
  <2> QED
    BY <1>1, <2>1, UnitFacts DEF StopLocal, tables
<1>3. \/ job[c].kind = "rqlite" /\ Went(c, "free_ports", Team(c))
      \/ job[c].kind = "olric" /\ Went(c, "stop_rqlite", Team(c))
      \/ job[c].kind = "gateway" /\ Went(c, "stop_olric", Team(c))
  BY <1>1, StopLocalMoves, AfterFacts
<1>4. Built(c)
  BY JobAlone
<1>5. PortsBuilt(c)'
  BY <1>1, <1>2, <1>3, <1>4 DEF Built, PortsBuilt, PortsAre, Went, SamePlace
<1>6. DNSBuilt(c)'
  BY <1>1, <1>2, <1>3, <1>4 DEF Built, DNSBuilt, Went, SamePlace
<1>7. RowsBuilt(c)'
  BY <1>1, <1>3 DEF RowsBuilt, Went
<1>8. UnitsBuilt(c)'
  BY <1>1, <1>2, <1>3, <1>4, NoUnitsFacts, NoUnitsNext
     DEF Built, UnitsBuilt, UnitsUndone, UnitsWithin, Went, StopsAll
<1>9. UnitsUndone(c)'
  BY <1>1, <1>2, <1>3, <1>4
     DEF Built, UnitsUndone, UnitsWithin, Went, SamePlace, StopsAll
<1> QED
  BY <1>1, <1>2, <1>3, <1>5, <1>6, <1>7, <1>8, <1>9 DEF Keeps, Built, Went

\* stopping the services of a node,
LEMMA StopOnNodeBuilds ==
    ASSUME Firm, Undisturbed, NEW c \in JobsLive, StopOnNode(c), calm'
    PROVE  Keeps(c)
<1> DEFINE kind == IF job[c].pc = "stop_started" THEN job[c].kind
                   ELSE IF job[c].pc = "stop_olric" THEN "olric" ELSE "rqlite"
<1>1. /\ job[c].pc \in {"stop_started", "stop_olric", "stop_rqlite"}
      /\ c \in Clusters /\ Types /\ kind \in Kinds /\ job[c].todo \subseteq Nodes
  <2>1. /\ job[c].pc \in {"stop_started", "stop_olric", "stop_rqlite"}
        /\ c \in Clusters /\ Types
    BY DEF StopOnNode, At, Firm, JobsLive
  <2> QED
    BY <2>1, AfterFacts DEF Kinds, Types, TaskTypes, JobTypes
<1>2. PICK n \in job[c].todo : /\ StopService(n, kind) \/ (UNCHANGED units /\ n \notin up)
                              /\ UNCHANGED <<ports, dns, rows, status>> /\ Undone(c, n)
  <2>1. (IF At(c, "stop_started") THEN job[c].kind ELSE StopPhase[job[c].pc]) = kind
    BY <1>1 DEF At, StopPhase
  <2> QED
    BY <2>1, Zenon DEF StopOnNode, tables, Note
<1>3. Stops(n, kind)
  <2>1. n \in Nodes /\ DiskTypes /\ Strayed
    BY <1>1 DEF Types, Firm
  <2>2. CASE StopService(n, kind)
    BY <1>1, <2>1, <2>2, UnitFacts
  <2>3. CASE UNCHANGED units /\ n \notin up
    <3>1. svc[n]["rqlite"] = None /\ svc[n]["olric"] = None /\ svc[n]["gateway"] = None
      BY <2>1, <2>3 DEF Firm, Places, Kinds
    <3> QED
      BY <2>3, <3>1 DEF Stops, units
  <2> QED
    BY <1>2, <2>2, <2>3
<1>4. \/ Went(c, job[c].pc, job[c].todo \ {n})
      \/ job[c].todo \subseteq {n} /\ Went(c, AfterPhase(c), Team(c))
  <2>1. UndidOne(c, n)
    BY <1>1, <1>2, UndoneMoves
  <2> QED
    BY <2>1, Zenon DEF UndidOne
<1>5. /\ job[c].pc = "stop_started" => AfterPhase(c) = "stop_all"
      /\ job[c].pc = "stop_olric" => AfterPhase(c) = "stop_rqlite"
      /\ job[c].pc = "stop_rqlite" => AfterPhase(c) = "free_ports"
      /\ job[c].kind \in {"rqlite", "olric", "gateway"}
  BY <1>1, AfterFacts
<1>6. Built(c)
  BY JobAlone
<1>7. PortsBuilt(c)'
  BY <1>1, <1>2, <1>4, <1>5, <1>6 DEF Built, PortsBuilt, PortsAre, Went, SamePlace
<1>8. DNSBuilt(c)'
  BY <1>1, <1>2, <1>4, <1>5, <1>6 DEF Built, DNSBuilt, Went, SamePlace
<1>9. RowsBuilt(c)'
  BY <1>1, <1>4, <1>5 DEF RowsBuilt, Went
<1>10. UnitsBuilt(c)'
  BY <1>1, <1>2, <1>3, <1>4, <1>5, <1>6, NoUnitsFacts, NoUnitsNext
     DEF Built, UnitsBuilt, UnitsUndone, UnitsWithin, Went, Stops
<1>11. UnitsUndone(c)'
  <2>1. CASE job[c].pc = "stop_started"
    BY <1>3, <1>4, <1>5, <1>6, <2>1 DEF Built, UnitsUndone, UnitsWithin, Went, SamePlace, Stops
  <2>2. CASE job[c].pc = "stop_olric"
    BY <1>3, <1>4, <1>5, <1>6, <2>2 DEF Built, UnitsUndone, UnitsWithin, Went, SamePlace, Stops
  <2>3. CASE job[c].pc = "stop_rqlite"
    BY <1>3, <1>4, <1>5, <1>6, <2>3 DEF Built, UnitsUndone, UnitsWithin, Went, SamePlace, Stops
  <2> QED
    BY <1>1, <2>1, <2>2, <2>3
<1> QED
  BY <1>1, <1>2, <1>4, <1>5, <1>7, <1>8, <1>9, <1>10, <1>11 DEF Keeps, Built, Went

\* and spawning Olric.
LEMMA SpawnOlricBuilds ==
    ASSUME Firm, Undisturbed, NEW c \in JobsLive, SpawnOlric(c), calm'
    PROVE  Keeps(c)
<1>1. job[c].pc = "olric" /\ c \in Clusters /\ Types /\ job[c].todo \subseteq Nodes
  <2>1. job[c].pc = "olric" /\ c \in Clusters /\ Types
    BY DEF SpawnOlric, At, Firm, JobsLive
  <2> QED
    BY <2>1 DEF Types, TaskTypes, JobTypes
<1>2. PICK n \in job[c].todo :
         /\ \/ StartService(n, "olric", c) /\ OlricAnswers(c, n, FALSE)
            \/ /\ StartUnconfirmed(n, "olric", c) \/ UNCHANGED units
               /\ OlricAnswers(c, n, TRUE)
         /\ UNCHANGED <<ports, dns, rows, status>>
  BY Zenon DEF SpawnOlric, tables
<1>3. \/ Starts(n, "olric", c) /\ Answered(c, n, job[c].bad)
      \/ MayStray(n, "olric") /\ Answered(c, n, job[c].bad \cup {n})
  <2>1. n \in Nodes /\ DiskTypes /\ Strayed /\ "olric" \in Kinds
    BY <1>1 DEF Types, Kinds, Firm
  <2>2. /\ StartService(n, "olric", c) => Starts(n, "olric", c)
        /\ StartUnconfirmed(n, "olric", c) \/ UNCHANGED units => MayStray(n, "olric")
    BY <2>1, UnitFacts
  <2> QED
    BY <1>1, <1>2, <2>2, OlricMoves
<1>4. Built(c) /\ c # None
  BY <1>1, JobAlone, Constants
<1>5. Done(c) = {} /\ Team(c) \subseteq Nodes /\ n \in Team(c) /\ n \notin job[c].bad
  BY <1>1, <1>4, TeamFacts DEF Built, UnitsBuilt
<1>6. PortsBuilt(c)'
  BY <1>1, <1>2, <1>3, <1>4 DEF Built, PortsBuilt, PortsAre, Answered, SamePlace
<1>7. DNSBuilt(c)'
  BY <1>1, <1>2, <1>3, <1>4 DEF Built, DNSBuilt, Answered, SamePlace
<1>8. RowsBuilt(c)'
  BY <1>1, <1>2, <1>3, <1>4, <1>5 DEF Built, RowsBuilt, Recorded, Answered, SamePlace
<1>9. CASE Starts(n, "olric", c) /\ Answered(c, n, job[c].bad)
  <2>1. UnitsBuilt(c)'
    BY <1>1, <1>4, <1>5, <1>9 DEF Built, UnitsBuilt, UnitsAre, Answered, SamePlace, Starts
  <2>2. UnitsUndone(c)'
    BY <1>1, <1>4, <1>5, <1>9
       DEF Built, UnitsBuilt, UnitsAre, UnitsUndone, UnitsWithin, Answered, SamePlace, Starts
  <2> QED
    BY <2>1, <2>2, <1>2, <1>6, <1>7, <1>8, <1>9 DEF Keeps, Built, Answered
<1>10. CASE MayStray(n, "olric") /\ Answered(c, n, job[c].bad \cup {n})
  <2>1. UnitsBuilt(c)'
    BY <1>1, <1>4, <1>5, <1>10 DEF Built, UnitsBuilt, UnitsAre, Answered, SamePlace, MayStray
  <2>2. UnitsUndone(c)'
    BY <1>1, <1>4, <1>5, <1>10
       DEF Built, UnitsBuilt, UnitsAre, UnitsUndone, UnitsWithin, Answered, SamePlace, MayStray
  <2> QED
    BY <2>1, <2>2, <1>2, <1>6, <1>7, <1>8, <1>10 DEF Keeps, Built, Answered
<1> QED
  BY <1>3, <1>9, <1>10

\* The outcome is what was built, or nothing.
LEMMA SettleCalm ==
    ASSUME Firm, Undisturbed, NEW c \in JobsLive, Settle(c), calm'
    PROVE  Undisturbed'
<1>1. /\ c = cluster /\ status = "provisioning" /\ JobsLive = {c} /\ c \in Clusters /\ c # None
      /\ \A n \in Nodes : dep[n].pc = "idle" /\ restore[n].pc = "idle"
      /\ \A n \in Nodes : file[n].c # c /\ (n \in up => file[n] = NoFile)
      /\ ~Removing /\ Types /\ job[c].pc \in {"ready", "failed"} /\ Built(c)
  BY JobAlone, Constants DEF JobsLive, Firm, Settle
<1>2. /\ status' = job[c].pc /\ UNCHANGED <<cluster, ports, rows, dns, svc, astray>>
      /\ UNCHANGED <<file, up, req, dep, restore>>
  <2>1. SetStatus(c, job[c].pc) /\ UNCHANGED <<svc, astray, file, up, req, dep, restore>>
    BY Zenon DEF Settle, JobVars, Note, units
  <2> QED
    BY <1>1, <2>1 DEF SetStatus
<1>3. JobsLive' = {}
  <2>1. Over(c)
    BY <1>1, SettleFacts DEF Settle
  <2> QED
    BY <1>1, <2>1 DEF JobsLive, Over
<1>4. Alone'
  BY <1>1, <1>2, <1>3 DEF Alone
<1>5. Replacing'
  BY <1>1, <1>2 DEF Replacing, Undisturbed
<1>6. Files'
  BY <1>1, <1>2 DEF Files, Undisturbed, HasRow
<1>7. Restoring' /\ Leaving' /\ Building'
  BY <1>1, <1>2, <1>3 DEF Restoring, RestoreHas, Leaving, Building
<1>8. Standing'
  <2>1. CASE job[c].pc = "failed"
    <3>1. ports = {} /\ dns = {} /\ NoUnits
      BY <1>1, <2>1 DEF Built, PortsBuilt, DNSBuilt, UnitsBuilt
    <3>2. NoUnits'
      BY <1>2, <3>1 DEF NoUnits
    <3>3. Clean'
      BY <1>1, <1>2, <3>1, <3>2 DEF Clean, Idle
    <3> QED
      BY <1>2, <2>1, <3>3 DEF Standing
  <2>2. CASE job[c].pc = "ready"
    <3>1. /\ job[c].sel \in Selections /\ Team(c) \subseteq Nodes /\ Cardinality(Team(c)) = NodeCount
      BY <1>1, <2>2, TeamFacts, AllCounted DEF Team
    <3>2. /\ ports = {c} \X Team(c) /\ dns = Team(c)
          /\ \A n \in Team(c) : /\ <<c, n, "rqlite">> \in rows /\ <<c, n, "olric">> \in rows
                                /\ <<c, n, "gateway">> \in rows
          /\ \A n \in Nodes :
                /\ "rqlite" \in astray[n] \/ svc[n]["rqlite"] = IF n \in Team(c) THEN c ELSE None
                /\ "olric" \in astray[n] \/ svc[n]["olric"] = IF n \in Team(c) THEN c ELSE None
                /\ "gateway" \in astray[n] \/ svc[n]["gateway"] = IF n \in Team(c) THEN c ELSE None
      BY <1>1, <2>2 DEF Built, PortsBuilt, PortsAre, DNSBuilt, RowsBuilt, Recorded,
        UnitsBuilt, UnitsAre
    <3>3. Team0' = Team(c)
      BY <1>1, <1>2, <3>1, <3>2 DEF Team0
    <3>4. \A n \in Team(c), k \in Kinds : <<c, n, k>> \in rows
      BY <3>2 DEF Kinds
    <3>5. \A n \in Nodes, k \in Kinds :
             k \in astray[n] \/ svc[n][k] = IF n \in Team(c) THEN c ELSE None
      BY <3>2 DEF Kinds
    <3>6. \A n \in Team(c) : n \in up
      <4>1. "rqlite" \in Kinds
        BY DEF Kinds
      <4> QED
        BY <1>1, <3>1, <3>5, <4>1 DEF Firm, Places, Strayed
    <3>7. \A n \in Nodes : /\ n \in Team(c) \/ Idle(n)' => file[n] = NoFile
                           /\ file[n].c # c
      BY <1>1, <1>2, <3>6 DEF Idle
    <3>8. \A p \in ports : p[1] = c
      BY <3>2
    <3>9. Served'
      BY <1>1, <1>2, <3>1, <3>2, <3>3, <3>4, <3>5, <3>7, <3>8 DEF Served
    <3> QED
      BY <1>2, <2>2, <3>9 DEF Standing
  <2> QED
    BY <1>1, <2>1, <2>2
<1> QED
  BY <1>4, <1>5, <1>6, <1>7, <1>8 DEF Undisturbed

\* Every step of a goroutine keeps an undisturbed system as the invariant says.
LEMMA JobCalm ==
    ASSUME Firm, Undisturbed, NEW c \in Clusters, Job(c), calm'
    PROVE  Undisturbed'
<1>1. c \in JobsLive
  <2>1. \/ job[c].pc \in {"select", "allocate", "rqlite", "gateway", "record_rqlite",
                          "record_olric", "record_gateway", "olric", "dns", "dns_insert"}
        \/ job[c].pc \in {"release", "stop_started", "stop_olric", "stop_rqlite",
                          "stop_all", "free_ports", "ready", "failed"}
    BY DEF Job, SelectNodesForCluster, AllocatePortBlock, AllocationFails, Spawn, SpawnFails,
       RecordNode, Recording, SpawnOlric, ClearDNS, InsertDNS, Release, StopOnNode,
       StopLocal, FreePorts, Settle, At
  <2> QED
    BY <2>1 DEF JobsLive
<1>2. file' = file /\ up' = up /\ req' = req /\ dep' = dep /\ restore' = restore
      /\ cluster' = cluster
  BY JobFrame
<1>3. Keeps(c) => Undisturbed'
  BY <1>1, <1>2, JobStays
<1>4. CASE SelectNodesForCluster(c) \/ AllocatePortBlock(c) \/ AllocationFails(c)
  BY <1>1, <1>3, <1>4, SelectBuilds, AllocateBuilds, AllocationFailsBuilds
<1>5. CASE \E kind \in {"rqlite", "gateway"} : Spawn(c, kind) \/ SpawnFails(c, kind)
  <2>1. Spawn(c, "rqlite") \/ Spawn(c, "gateway") \/ SpawnFails(c, "rqlite") \/ SpawnFails(c, "gateway")
    BY <1>5
  <2> QED
    BY <1>1, <1>3, <2>1, SpawnRQLiteBuilds, SpawnGatewayBuilds, SpawnRQLiteFailsBuilds,
       SpawnGatewayFailsBuilds
<1>6. CASE \/ RecordNode(c, "rqlite", "olric") \/ RecordNode(c, "olric", "gateway")
           \/ RecordNode(c, "gateway", "dns")
  BY <1>1, <1>3, <1>6, RecordRQLiteBuilds, RecordOlricBuilds, RecordGatewayBuilds
<1>7. CASE SpawnOlric(c) \/ ClearDNS(c) \/ InsertDNS(c)
  BY <1>1, <1>3, <1>7, SpawnOlricBuilds, ClearDNSBuilds, InsertDNSBuilds
<1>8. CASE Release(c) \/ StopOnNode(c) \/ StopLocal(c) \/ FreePorts(c)
  BY <1>1, <1>3, <1>8, ReleaseBuilds, StopOnNodeBuilds, StopLocalBuilds, FreePortsBuilds
<1>9. CASE Settle(c)
  BY <1>1, <1>9, SettleCalm
<1> QED
  BY <1>4, <1>5, <1>6, <1>7, <1>8, <1>9 DEF Job

-----------------------------------------------------------------------------
(* A removal at work, undisturbed. *)

\* An undisturbed deprovisioning is the only task.
LEMMA DepAlone ==
    ASSUME Firm, Undisturbed, NEW p \in Nodes, dep[p].pc # "idle"
    PROVE  /\ JobsLive = {} /\ ~dep[p].cut /\ cluster \in {None, dep[p].c}
           /\ \A m \in Nodes : restore[m].pc = "idle" /\ (dep[m].pc # "idle" => m = p)
           /\ status # "provisioning" /\ Leaves(p)
           /\ Types /\ p \in up /\ dep[p].c \in Clusters
BY DEF Firm, Places, Undisturbed, Alone, Leaving

\* A step of the removal that keeps to its plan disturbs nothing else.
LEMMA DepStays ==
    ASSUME Firm, Undisturbed, NEW p \in Nodes, dep[p].pc # "idle",
           NEW pc, NEW on, NEW todo, Removes(p, pc, dep[p].c, on, todo, dep[p].cut), pc # "idle",
           UNCHANGED <<cluster, up, req, job, restore>>,
           status' = status \/ status' = "deprovisioning",
           rows' \subseteq rows,
           \A n \in Nodes : file'[n] = file[n] \/ file'[n] = NoFile,
           Leaves(p)'
    PROVE  Undisturbed'
<1>1. /\ JobsLive = {} /\ ~dep[p].cut /\ cluster \in {None, dep[p].c}
      /\ \A m \in Nodes : restore[m].pc = "idle" /\ (dep[m].pc # "idle" => m = p)
      /\ status # "provisioning" /\ None \notin Clusters
  BY DepAlone, Constants
<1>2. JobsLive' = {} /\ Removing'
  BY <1>1 DEF JobsLive, Removing, Removes
<1>3. \A m \in Nodes : dep'[m].pc # "idle" => m = p
  BY <1>1 DEF Removes
<1>4. Alone'
  BY <1>1, <1>2, <1>3 DEF Alone, Removes
<1>5. Replacing'
  <2>1. \A n \in Nodes : req[n].pc \in {"drop", "free"} => req[n].c # NoFile.c
    BY <1>1 DEF Firm, Record, Used, NoFile
  <2> QED
    BY <2>1 DEF Replacing, Undisturbed
<1>6. Files'
  <2>1. \A n \in Nodes : \A c : HasRow(n, c)' => HasRow(n, c)
    BY DEF HasRow
  <2> QED
    BY <2>1 DEF Files, Undisturbed
<1>7. Standing' /\ Restoring' /\ Building'
  BY <1>1, <1>2 DEF Standing, Restoring, RestoreHas, Building
<1>8. Leaving'
  BY <1>3 DEF Leaving
<1> QED
  BY <1>4, <1>5, <1>6, <1>7, <1>8 DEF Undisturbed

\* Step by step, it keeps what it is done with: marking the row,
LEMMA DepMarkCalm ==
    ASSUME Firm, Undisturbed, NEW p \in Nodes, DepMark(p), calm'
    PROVE  Undisturbed'
<1>1. dep[p].pc = "mark" /\ Types
  BY DEF DepMark, DepAt, Firm
<1>2. Leaves(p)
  BY <1>1, DepAlone
<1>3. /\ UNCHANGED <<cluster, ports, rows, dns, svc, astray, file, up, req, job, restore>>
      /\ status' = status \/ status' = "deprovisioning"
  <2>1. /\ SetStatus(dep[p].c, "deprovisioning")
        /\ UNCHANGED <<svc, astray, file, up, req, job, restore>>
    BY Zenon DEF DepMark, DepVars, disks, Note
  <2> QED
    BY <2>1 DEF SetStatus
<1>4. Goes(p, "nodes")
  BY <1>1, DepMoves
<1>5. Leaves(p)'
  BY <1>1, <1>2, <1>3, <1>4 DEF Leaves, UnitsWithin, Goes, Removes, HasRow
<1> QED
  BY <1>1, <1>3, <1>4, <1>5, DepStays DEF Goes

\* reading the nodes,
LEMMA DepNodesCalm ==
    ASSUME Firm, Undisturbed, NEW p \in Nodes, DepNodes(p), calm'
    PROVE  Undisturbed'
<1>1. dep[p].pc = "nodes" /\ Types
  BY DEF DepNodes, DepAt, Firm
<1>2. Leaves(p) /\ dep[p].c \in Clusters
  BY <1>1, DepAlone
<1>3. UNCHANGED <<cluster, status, ports, rows, dns, svc, astray, file, up, req, job, restore>>
  BY DEF DepNodes, DepVars, disks, tables
<1>4. PICK on \in SUBSET Nodes :
         /\ on = {m \in Nodes : \E r \in RowsOf(dep[p].c) : r[2] = m}
         /\ Removes(p, IF on = {} THEN "ports" ELSE "gateway", dep[p].c, on, on, dep[p].cut)
  BY <1>1, DepNodesMoves
<1>5. on = {m \in Nodes : HasRow(m, dep[p].c)}
  <2>1. \A r \in rows : r = <<r[1], r[2], r[3]>> /\ r[3] \in Kinds
    BY <1>1 DEF Types, TableTypes
  <2>2. ASSUME NEW m \in Nodes
        PROVE  (\E r \in RowsOf(dep[p].c) : r[2] = m) <=> HasRow(m, dep[p].c)
    <3>1. ASSUME NEW r \in RowsOf(dep[p].c), r[2] = m PROVE HasRow(m, dep[p].c)
      <4>1. r \in rows /\ r[1] = dep[p].c
        BY DEF RowsOf
      <4>2. r = <<dep[p].c, m, r[3]>> /\ r[3] \in Kinds
        BY <2>1, <3>1, <4>1
      <4> QED
        BY <4>1, <4>2 DEF HasRow
    <3>2. ASSUME NEW k \in Kinds, <<dep[p].c, m, k>> \in rows
          PROVE  \E r \in RowsOf(dep[p].c) : r[2] = m
      <4>1. <<dep[p].c, m, k>> \in RowsOf(dep[p].c)
        BY <3>2 DEF RowsOf
      <4> QED
        BY <4>1
    <3> QED
      BY <3>1, <3>2 DEF HasRow
  <2> QED
    BY <1>4, <2>2
<1>6. Leaves(p)'
  <2>1. /\ \A n \in Nodes, k \in Kinds : svc[n][k] = None \/ k \in astray[n] \/ n \in on
        /\ \A n \in up : file[n] # NoFile => n \in on
        /\ \A x \in ports : x[1] = dep[p].c
    BY <1>1, <1>2, <1>5 DEF Leaves
  <2>2. \A n \in Nodes : n \notin on => /\ svc[n]["rqlite"] = None \/ "rqlite" \in astray[n]
                                        /\ svc[n]["olric"] = None \/ "olric" \in astray[n]
                                        /\ svc[n]["gateway"] = None \/ "gateway" \in astray[n]
    BY <2>1 DEF Kinds
  <2>3. /\ dep'[p].pc = IF on = {} THEN "ports" ELSE "gateway"
        /\ dep'[p].c = dep[p].c /\ dep'[p].on = on /\ dep'[p].todo = on
    BY <1>4 DEF Removes
  <2>4. CASE on = {}
    BY <1>3, <2>1, <2>2, <2>3, <2>4 DEF Leaves, UnitsWithin
  <2>5. CASE on # {}
    BY <1>3, <2>1, <2>2, <2>3, <2>5 DEF Leaves, UnitsWithin
  <2> QED
    BY <2>4, <2>5
<1> QED
  BY <1>1, <1>3, <1>4, <1>6, DepStays

\* stopping the services and deleting the state files,
LEMMA DepStopCalm ==
    ASSUME Firm, Undisturbed, NEW p \in Nodes, DepStop(p), calm'
    PROVE  Undisturbed'
<1>1. dep[p].pc \in {"gateway", "olric", "rqlite", "file"} /\ Types
      /\ dep[p].todo \subseteq Nodes
  <2>1. Types
    BY DEF Firm
  <2> QED
    BY <2>1, DepStopMoves DEF Types, TaskTypes
<1>2. Leaves(p)
  BY <1>1, DepAlone
<1>3. UNCHANGED <<cluster, status, ports, rows, dns, up, req, job, restore>>
  BY DEF DepStop, DepVars, tables
<1>4. PICK m \in dep[p].todo :
         /\ StepsOn(p, m)
         /\ \/ /\ dep[p].pc = "file"
               /\ file' = [file EXCEPT ![m] = NoFile] /\ UNCHANGED units
            \/ /\ dep[p].pc # "file"
               /\ StopService(m, dep[p].pc) /\ UNCHANGED file
            \/ UNCHANGED <<disks, astray>> /\ m \notin up
  BY <1>1, DepStopMoves
<1>5. file \in [Nodes -> [c : Clusters \cup {None}, gw : BOOLEAN]] /\ m \in Nodes
  BY <1>1 DEF Types, DiskTypes
<1>6. /\ \A n \in Nodes : IF dep[p].pc = "file" /\ n = m
                         THEN file'[n] = NoFile \/ (file'[n] = file[n] /\ n \notin up)
                         ELSE file'[n] = file[n]
  BY <1>4, <1>5 DEF disks
<1>7. Stops(m, dep[p].pc)
  <2>1. CASE dep[p].pc # "file" /\ StopService(m, dep[p].pc)
    <3>1. DiskTypes /\ Strayed /\ dep[p].pc \in Kinds
      BY <1>1, <2>1 DEF Types, Kinds, Firm
    <3> QED
      BY <1>5, <2>1, <3>1, UnitFacts
  <2>2. CASE UNCHANGED units /\ dep[p].pc = "file"
    BY <2>2 DEF Stops, units
  <2>3. CASE UNCHANGED <<disks, astray>> /\ m \notin up
    <3>1. svc[m]["rqlite"] = None /\ svc[m]["olric"] = None /\ svc[m]["gateway"] = None
      BY <1>5, <2>3 DEF Firm, Places, Kinds
    <3> QED
      BY <2>3, <3>1 DEF Stops, disks
  <2> QED
    BY <1>4, <2>1, <2>2, <2>3
<1>8. \E pc, todo : /\ Removes(p, pc, dep[p].c, dep[p].on, todo, dep[p].cut) /\ pc # "idle"
  BY <1>1, <1>4 DEF StepsOn, Goes
<1>9. Leaves(p)'
  <2>1. /\ \A n \in Nodes : n \notin dep[p].on =>
              /\ svc[n]["rqlite"] = None \/ "rqlite" \in astray[n]
              /\ svc[n]["olric"] = None \/ "olric" \in astray[n]
              /\ svc[n]["gateway"] = None \/ "gateway" \in astray[n]
        /\ \A n \in up : file[n] # NoFile => n \in dep[p].on
        /\ \A x \in ports : x[1] = dep[p].c
    BY <1>1, <1>2 DEF Leaves, Kinds
  <2>2. /\ \A n \in Nodes, k \in Kinds :
              svc'[n][k] = None \/ k \in astray'[n] \/ n \in dep[p].on
        /\ \A n \in up : file'[n] # NoFile => n \in dep[p].on
    <3>1. up \subseteq Nodes
      BY <1>1 DEF Types, TaskTypes
    <3> QED
      BY <1>6, <1>7, <2>1, <3>1 DEF Kinds, Stops
  <2>3. dep'[p].c = dep[p].c /\ dep'[p].on = dep[p].on
    BY <1>8 DEF Removes
  <2>4. CASE dep[p].pc = "gateway"
    <3>1. \/ dep'[p].pc = "gateway" /\ dep'[p].todo = dep[p].todo \ {m}
          \/ dep[p].todo = {m} /\ dep'[p].pc = "olric" /\ dep'[p].todo = dep[p].on
      BY <1>4, <2>4 DEF StepsOn, Goes, Removes
    <3> QED
      BY <1>2, <1>3, <1>7, <2>1, <2>2, <2>3, <2>4, <3>1 DEF Leaves, UnitsWithin, Stops
  <2>5. CASE dep[p].pc = "olric"
    <3>1. \/ dep'[p].pc = "olric" /\ dep'[p].todo = dep[p].todo \ {m}
          \/ dep[p].todo = {m} /\ dep'[p].pc = "rqlite" /\ dep'[p].todo = dep[p].on
      BY <1>4, <2>5 DEF StepsOn, Goes, Removes
    <3> QED
      BY <1>2, <1>3, <1>7, <2>1, <2>2, <2>3, <2>5, <3>1 DEF Leaves, UnitsWithin, Stops
  <2>6. CASE dep[p].pc = "rqlite"
    <3>1. \/ dep'[p].pc = "rqlite" /\ dep'[p].todo = dep[p].todo \ {m}
          \/ dep[p].todo = {m} /\ dep'[p].pc = "file" /\ dep'[p].todo = dep[p].on
      BY <1>4, <2>6 DEF StepsOn, Goes, Removes
    <3> QED
      BY <1>2, <1>3, <1>7, <2>1, <2>2, <2>3, <2>6, <3>1 DEF Leaves, UnitsWithin, Stops
  <2>7. CASE dep[p].pc = "file"
    <3>1. \/ dep'[p].pc = "file" /\ dep'[p].todo = dep[p].todo \ {m}
          \/ dep[p].todo = {m} /\ dep'[p].pc = "ports" /\ dep'[p].todo = dep[p].on
      BY <1>4, <2>7 DEF StepsOn, Goes, Removes
    <3>2. \A n \in up : file'[n] # NoFile => n \in dep[p].todo \ {m}
      <4>1. \A n \in up : n \in Nodes /\ (file[n] # NoFile => n \in dep[p].todo)
        BY <1>1, <1>2, <2>7 DEF Leaves, Types, TaskTypes
      <4> QED
        BY <1>6, <2>7, <4>1
    <3> QED
      BY <1>2, <1>3, <1>7, <2>1, <2>2, <2>3, <2>7, <3>1, <3>2 DEF Leaves, UnitsWithin, Stops
  <2> QED
    BY <1>1, <2>4, <2>5, <2>6, <2>7
<1>10. \A n \in Nodes : file'[n] = file[n] \/ file'[n] = NoFile
  BY <1>6
<1> QED
  BY <1>1, <1>3, <1>8, <1>9, <1>10, DepStays

\* and deleting the rows.
LEMMA DepDeleteCalm ==
    ASSUME Firm, Undisturbed, NEW p \in Nodes, DepDelete(p), calm'
    PROVE  Undisturbed'
<1>1. dep[p].pc \in {"ports", "dns", "rows", "ports2", "delete"} /\ Types
  BY DEF DepDelete, DepAt, Firm
<1>2. Leaves(p) /\ ~dep[p].cut /\ dep[p].c \in Clusters
  BY <1>1, DepAlone
<1>3. UNCHANGED <<svc, astray, file, up, req, job, restore>>
  BY DEF DepDelete, DepVars, disks
<1>4. \/ /\ dep[p].pc \in {"ports", "ports2"}
         /\ ports' = ports \ PortsOf(dep[p].c) /\ UNCHANGED <<cluster, status, rows, dns>>
      \/ /\ dep[p].pc = "dns" /\ dns' = {} /\ UNCHANGED <<cluster, status, ports, rows>>
      \/ /\ dep[p].pc = "rows" /\ rows' = rows \ RowsOf(dep[p].c)
         /\ UNCHANGED <<cluster, status, ports, dns>>
      \/ /\ dep[p].pc = "delete" /\ DeleteRecord(dep[p].c)
      \/ /\ dep[p].pc = "ports" /\ UNCHANGED <<cluster, status, ports, rows, dns>>
  BY Zenon DEF DepDelete, DepAt, SetPorts, SetDNS, SetRows, tables, Note
<1>5. \/ dep[p].pc = "ports" /\ Goes(p, "dns")
      \/ dep[p].pc = "dns" /\ Goes(p, "rows")
      \/ dep[p].pc = "rows" /\ Goes(p, "ports2")
      \/ dep[p].pc = "ports2" /\ Goes(p, "delete")
      \/ dep[p].pc = "delete" /\ Removes(p, "idle", None, {}, {}, FALSE)
  BY <1>1, DepMoves
<1>6. CASE dep[p].pc # "delete"
  <2>1. PICK pc \in {"dns", "rows", "ports2", "delete"} :
           /\ Goes(p, pc)
           /\ pc = "dns" => dep[p].pc = "ports"
           /\ pc = "rows" => dep[p].pc = "dns"
           /\ pc = "ports2" => dep[p].pc = "rows"
           /\ pc = "delete" => dep[p].pc = "ports2"
    BY <1>5, <1>6
  <2>2. /\ UNCHANGED <<cluster, status>> /\ rows' \subseteq rows /\ ports' \subseteq ports
    BY <1>4, <1>6
  <2>3. dep'[p].c = dep[p].c /\ dep'[p].on = dep[p].on /\ dep'[p].pc = pc
    BY <2>1 DEF Goes, Removes
  <2>4. pc \in {"rows", "ports2", "delete"} => dns' = {}
    BY <1>2, <1>4, <2>1 DEF Leaves
  <2>5. pc \in {"ports2", "delete"} => \A n \in Nodes : ~HasRow(n, dep[p].c)'
    <3>1. \A n \in Nodes, k \in Kinds : <<dep[p].c, n, k>> \notin rows \ RowsOf(dep[p].c)
      BY DEF RowsOf
    <3>2. CASE pc = "ports2"
      BY <1>4, <2>1, <2>3, <3>1, <3>2 DEF HasRow
    <3>3. CASE pc = "delete"
      BY <1>2, <1>4, <2>1, <2>3, <3>3 DEF HasRow, Leaves
    <3> QED
      BY <3>2, <3>3
  <2>6. pc = "delete" => ports' = {}
    BY <1>2, <1>4, <2>1 DEF Leaves, PortsOf
  <2>7. Leaves(p)'
    <3>1. /\ \A x \in ports' : x[1] = dep[p].c
          /\ \A n \in Nodes, k \in Kinds :
                svc[n][k] = None \/ k \in astray[n] \/ n \in dep[p].on
          /\ \A n \in up : file[n] = NoFile
          /\ UnitsWithin("gateway", {}) /\ UnitsWithin("olric", {}) /\ UnitsWithin("rqlite", {})
      BY <1>1, <1>2, <2>2 DEF Leaves
    <3>2. UnitsWithin("gateway", {})' /\ UnitsWithin("olric", {})' /\ UnitsWithin("rqlite", {})'
      BY <1>3, <3>1 DEF UnitsWithin
    <3> QED
      BY <1>3, <2>1, <2>3, <2>4, <2>5, <2>6, <3>1, <3>2 DEF Leaves
  <2> QED
    BY <1>1, <1>3, <2>1, <2>2, <2>7, DepStays DEF Goes
<1>7. CASE dep[p].pc = "delete"
  <2>1. /\ JobsLive = {} /\ cluster \in {None, dep[p].c}
        /\ \A m \in Nodes : restore[m].pc = "idle" /\ (dep[m].pc # "idle" => m = p)
    BY <1>7, DepAlone
  <2>2. cluster' = None /\ status' = "none" /\ UNCHANGED <<ports, rows, dns>>
    BY <1>4, <1>7, <2>1 DEF DeleteRecord, Firm, Record, Open
  <2>3. \A m \in Nodes : dep'[m].pc = "idle"
    BY <1>5, <1>7, <2>1 DEF Removes
  <2>4. /\ ports = {} /\ dns = {} /\ \A n \in up : file[n] = NoFile
        /\ \A n \in Nodes : ~HasRow(n, dep[p].c)
        /\ UnitsWithin("gateway", {}) /\ UnitsWithin("olric", {}) /\ UnitsWithin("rqlite", {})
    BY <1>2, <1>7 DEF Leaves
  <2>5. NoUnits'
    BY <1>3, <2>4, NoUnitsNext DEF UnitsWithin
  <2>6. Clean' /\ ~Removing' /\ JobsLive' = {}
    BY <1>3, <2>1, <2>2, <2>3, <2>4, <2>5 DEF Clean, Idle, Removing, JobsLive
  <2>7. Alone'
    BY <1>3, <2>1, <2>2, <2>3, <2>6 DEF Alone
  <2>8. Replacing'
    <3>1. \A n \in Nodes : req[n].pc \in {"drop", "free"} => req[n].c # None
      BY Constants DEF Firm, Record, Used
    <3> QED
      BY <1>3, <2>2, <3>1 DEF Replacing, Undisturbed
  <2>9. Files'
    BY <1>3, <2>1, <2>2, <2>4 DEF Files, Undisturbed, HasRow
  <2>10. Standing' /\ Restoring' /\ Building' /\ Leaving'
    BY <1>3, <2>1, <2>2, <2>3, <2>6 DEF Standing, Restoring, RestoreHas, Building, Leaving
  <2> QED
    BY <2>7, <2>8, <2>9, <2>10 DEF Undisturbed
<1> QED
  BY <1>6, <1>7

\* A removal begins with a cluster that is ready or failed.
LEMMA DeprovisionCalm ==
    ASSUME Firm, Undisturbed, NEW p \in Nodes, Deprovision(p), calm'
    PROVE  Undisturbed'
<1>1. /\ Quiet /\ cluster # None /\ p \in up /\ Types
      /\ UNCHANGED <<cluster, status, ports, rows, dns, svc, astray, file, up, req, job, restore>>
  <2>1. Note(Quiet)
    BY DEF Deprovision
  <2>2. Quiet
    BY <2>1, Noted
  <2> QED
    BY <2>2 DEF Deprovision, DepVars, tables, disks, Firm
<1>2. Removes(p, "mark", cluster, {}, {}, FALSE)
  BY <1>1, DepMoves
<1>3. JobsLive = {} /\ (\A n \in Nodes : dep[n].pc = "idle" /\ restore[n].pc = "idle") /\ ~Removing
  BY <1>1 DEF Quiet, Removing
<1>4. JobsLive' = {} /\ Removing' /\ \A n \in Nodes : dep'[n].pc # "idle" => n = p
  BY <1>1, <1>2, <1>3 DEF JobsLive, Removing, Removes
<1>5. status \in {"ready", "failed"}
  BY <1>1, <1>3 DEF Undisturbed, Alone, Firm, Types, TableTypes, Statuses, Record, Open
<1>6. Alone'
  BY <1>1, <1>2, <1>3, <1>4, <1>5 DEF Alone, Removes
<1>7. Replacing' /\ Files'
  BY <1>1 DEF Replacing, Files, Undisturbed, HasRow
<1>8. Standing' /\ Restoring' /\ Building'
  BY <1>1, <1>3, <1>4 DEF Standing, Restoring, RestoreHas, Building
<1>9. Leaves(p)'
  <2>1. dep'[p].pc = "mark" /\ dep'[p].c = cluster
    BY <1>2 DEF Removes
  <2>2. up \subseteq Nodes
    BY <1>1 DEF Types, TaskTypes
  <2>3. CASE status = "failed"
    <3>1. Clean
      BY <1>3, <2>3 DEF Undisturbed, Standing
    <3> QED
      BY <1>1, <1>3, <2>1, <2>2, <3>1 DEF Clean, NoUnits, Idle, Leaves
  <2>4. CASE status = "ready"
    <3>1. Served
      BY <1>3, <2>4 DEF Undisturbed, Standing
    <3>2. \A n \in Team0 : HasRow(n, cluster)'
      BY <1>1, <3>1 DEF Served, HasRow, Kinds
    <3>3. \A n \in Nodes, k \in Kinds : svc[n][k] = None \/ k \in astray[n] \/ n \in Team0
      BY <3>1 DEF Served
    <3>4. \A n \in up : file[n] # NoFile => n \in Team0
      BY <1>3, <2>2, <3>1 DEF Served, Idle
    <3>5. \A x \in ports : x[1] = cluster
      BY <3>1 DEF Served
    <3> QED
      BY <1>1, <2>1, <2>2, <3>2, <3>3, <3>4, <3>5 DEF Leaves
  <2> QED
    BY <1>5, <2>3, <2>4
<1>10. Leaving'
  BY <1>4, <1>9 DEF Leaving
<1> QED
  BY <1>6, <1>7, <1>8, <1>10 DEF Undisturbed

-----------------------------------------------------------------------------
(* A restore at work, undisturbed. *)

\* An undisturbed restore is the only task.
LEMMA RestoreAlone ==
    ASSUME Firm, Undisturbed, NEW n \in Nodes, restore[n].pc # "idle"
    PROVE  /\ JobsLive = {} /\ ~Removing /\ Types /\ n \in up /\ RestoreHas(n)
           /\ \A m \in Nodes : dep[m].pc = "idle" /\ (restore[m].pc # "idle" => m = n)
           /\ status \in {"none", "failed", "ready"}
           /\ status = "ready" => Served
           /\ status # "ready" => Clean
           /\ status = "ready" => cluster # None
<1>1. JobsLive = {} /\ \A m \in Nodes : dep[m].pc = "idle" /\ (restore[m].pc # "idle" => m = n)
  BY DEF Undisturbed, Alone
<1>2. ~Removing
  BY <1>1 DEF Removing
<1>3. status \in {"none", "failed", "ready"}
  BY <1>1, <1>2 DEF Undisturbed, Alone, Firm, Types, TableTypes, Statuses
<1> QED
  BY <1>1, <1>2, <1>3 DEF Undisturbed, Standing, Restoring, Firm, Places, Record, Open

\* A step of the restore that keeps to its plan disturbs nothing else.
LEMMA RestoreStays ==
    ASSUME Firm, Undisturbed, NEW n \in Nodes, restore[n].pc # "idle",
           NEW pc, NEW c, NEW gw, NEW disk, Restores(n, pc, c, gw, disk),
           UNCHANGED <<cluster, status, ports, rows, dns, up, req, job, dep>>,
           \A m \in Nodes : \/ file'[m] = file[m] \/ file'[m] = NoFile
                            \/ status = "ready" /\ file'[m].c = cluster /\ file'[m].gw,
           status = "ready" => Served',
           status # "ready" => Clean',
           RestoreHas(n)'
    PROVE  Undisturbed'
<1>1. /\ JobsLive = {} /\ ~Removing
      /\ \A m \in Nodes : dep[m].pc = "idle" /\ (restore[m].pc # "idle" => m = n)
      /\ status \in {"none", "failed", "ready"}
      /\ status = "ready" => cluster # None
  BY RestoreAlone
<1>2. JobsLive' = {} /\ ~Removing'
  BY <1>1 DEF JobsLive, Removing
<1>3. \A m \in Nodes \ {n} : restore'[m].pc = "idle"
  BY <1>1 DEF Restores
<1>4. Alone'
  BY <1>1, <1>2, <1>3 DEF Alone
<1>5. Replacing'
  <2>1. \A m \in Nodes : req[m].pc \in {"drop", "free"} => req[m].c # NoFile.c
    BY Constants DEF Firm, Record, Used, NoFile
  <2> QED
    BY <2>1 DEF Replacing, Undisturbed
<1>6. Files'
  <2>1. \A m \in Nodes : \A d : HasRow(m, d)' <=> HasRow(m, d)
    BY DEF HasRow
  <2> QED
    BY <1>1, <2>1 DEF Files, Undisturbed
<1>7. Standing'
  BY <1>1 DEF Standing
<1>8. Restoring' /\ Building' /\ Leaving'
  BY <1>1, <1>2, <1>3 DEF Restoring, RestoreHas, Building, Leaving
<1> QED
  BY <1>4, <1>5, <1>6, <1>7, <1>8 DEF Undisturbed

\* Nothing that is said of a cluster that stands depends on the phase of a
\* restore before it ends.
LEMMA StandingKept ==
    ASSUME NEW n \in Nodes, restore[n].pc # "idle", restore'[n].pc # "idle",
           \A m \in Nodes \ {n} : restore'[m] = restore[m],
           UNCHANGED <<cluster, ports, rows, dns, up, svc, astray, file>>
    PROVE  /\ Served => Served'
           /\ Clean => Clean'
<1>1. \A m \in Nodes : Idle(m)' <=> Idle(m)
  BY DEF Idle
<1>2. Team0' = Team0
  BY DEF Team0
<1>3. Clean => Clean'
  BY <1>1 DEF Clean, NoUnits
<1> QED
  BY <1>1, <1>2, <1>3 DEF Served

\* The rows of a node that has ports.
LEMMA ServedFacts ==
    ASSUME Served, NEW n \in Nodes
    PROVE  /\ <<cluster, n>> \in ports => Assigned(n, cluster) /\ HasRow(n, cluster)
           /\ <<cluster, n>> \in ports => \E r \in RowsOf(cluster) : r[3] = "gateway"
<1>1. "gateway" \in Kinds
  BY DEF Kinds
<1>2. <<cluster, n>> \in ports => <<cluster, n, "gateway">> \in rows
  BY <1>1 DEF Served, Team0
<1>3. /\ <<cluster, n, "gateway">>[1] = cluster /\ <<cluster, n, "gateway">>[2] = n
      /\ <<cluster, n, "gateway">>[3] = "gateway"
  OBVIOUS
<1> QED
  BY <1>1, <1>2, <1>3 DEF Assigned, HasRow, RowsOf

\* A node is assigned to a cluster that has a row for it.
LEMMA AssignedFacts ==
    ASSUME Types, NEW n \in Nodes, NEW c, Assigned(n, c)
    PROVE  HasRow(n, c)
<1>1. PICK r \in rows : r[1] = c /\ r[2] = n
  BY DEF Assigned
<1>2. r = <<r[1], r[2], r[3]>> /\ r[3] \in Kinds
  BY DEF Types, TableTypes
<1> QED
  BY <1>1, <1>2 DEF HasRow

\* Step by step, an undisturbed restore brings back what the tables say: from the
\* file,
LEMMA RestoreFromDiskCalm ==
    ASSUME Firm, Undisturbed, NEW n \in Nodes, RestoreFromDisk(n), calm'
    PROVE  Undisturbed'
<1>1. restore[n].pc = "disk" /\ Types
  BY DEF RestoreFromDisk, RestoreAt, Firm
<1>2. UNCHANGED <<cluster, status, ports, rows, dns, up, req, job, dep>>
  BY DEF RestoreFromDisk, RestoreVars, tables
<1>3. /\ ~Removing /\ RestoreHas(n) /\ status \in {"none", "failed", "ready"}
      /\ (status = "ready" => Served) /\ (status # "ready" => Clean)
      /\ (status = "ready" => cluster # None)
  BY <1>1, RestoreAlone
<1>4. CASE file[n] = NoFile /\ UNCHANGED <<disks, astray>> /\ Continues(n, "query")
  <2>1. UNCHANGED <<svc, astray, file>> /\ restore'[n].pc = "query"
        /\ \A m \in Nodes \ {n} : restore'[m] = restore[m]
    BY <1>4 DEF disks, Continues, Restores
  <2>2. RestoreHas(n)'
    BY <1>1, <1>3, <1>4, <2>1 DEF RestoreHas
  <2>3. (status = "ready" => Served') /\ (status # "ready" => Clean')
    BY <1>1, <1>2, <1>3, <2>1, StandingKept
  <2> QED
    BY <1>1, <1>2, <1>4, <2>1, <2>2, <2>3, RestoreStays DEF Continues
<1>7. CASE /\ file[n] = NoFile /\ UNCHANGED disks /\ Ceases(n)
           /\ astray' = [astray EXCEPT ![n] = Kinds]
  <2>1. UNCHANGED <<svc, file>> /\ restore'[n].pc = "idle"
        /\ \A m \in Nodes \ {n} : restore'[m] = restore[m]
    BY <1>7 DEF disks, Ceases, Restores
  <2>2. astray'[n] = Kinds /\ \A m \in Nodes \ {n} : astray'[m] = astray[m]
    BY <1>7 DEF Firm, Strayed
  <2>3. \A m \in Nodes \ {n} : Idle(m)' <=> Idle(m)
    BY <1>2, <2>1 DEF Idle
  <2>4. status # "ready" => Clean'
    <3>1. Clean => NoUnits'
      BY <2>1, <2>2 DEF Clean, NoUnits
    <3> QED
      BY <1>2, <1>3, <1>7, <2>1, <2>3, <3>1 DEF Clean
  <2>5. status = "ready" => Served'
    <3> SUFFICES ASSUME status = "ready" PROVE Served'
      OBVIOUS
    <3>1. Served /\ Team0' = Team0
      BY <1>2, <1>3 DEF Team0
    <3> QED
      BY <1>2, <1>7, <2>1, <2>2, <2>3, <3>1 DEF Served
  <2>6. RestoreHas(n)'
    BY <2>1 DEF RestoreHas
  <2> QED
    BY <1>1, <1>2, <1>7, <2>1, <2>4, <2>5, <2>6, RestoreStays DEF Ceases
<1>5. CASE /\ file[n] # NoFile /\ ~Assigned(n, file[n].c)
           /\ StopAll(n) /\ file' = [file EXCEPT ![n] = NoFile] /\ Ceases(n)
  <2>1. file \in [Nodes -> [c : Clusters \cup {None}, gw : BOOLEAN]] /\ DiskTypes
        /\ Strayed /\ "rqlite" \in Kinds
    BY <1>1 DEF Types, DiskTypes, Kinds, Firm
  <2>2. file'[n] = NoFile /\ \A m \in Nodes \ {n} : file'[m] = file[m]
    BY <1>5, <2>1
  <2>3. \A m \in Nodes, k \in Kinds : svc'[m][k] = svc[m][k] /\ astray'[m] = astray[m]
    <3>1. StopsAll(n)
      BY <1>5, <2>1, UnitFacts
    <3>2. astray[n] = {} /\ \A k \in Kinds : svc[n][k] = None
      BY <1>1, <1>3 DEF RestoreHas
    <3> QED
      BY <3>1, <3>2 DEF StopsAll, Kinds
  <2>4. restore'[n].pc = "idle" /\ \A m \in Nodes \ {n} : restore'[m] = restore[m]
    BY <1>5 DEF Ceases, Restores
  <2>5. \A m \in Nodes \ {n} : Idle(m)' <=> Idle(m)
    BY <1>2, <2>4 DEF Idle
  <2>6. status # "ready" => Clean'
    BY <1>2, <1>3, <2>2, <2>3, <2>5 DEF Clean, NoUnits
  <2>7. status = "ready" => Served'
    <3> SUFFICES ASSUME status = "ready" PROVE Served'
      OBVIOUS
    <3>1. Served /\ Team0' = Team0 /\ cluster # None
      BY <1>2, <1>3 DEF Team0
    <3>2. n \notin Team0
      BY <1>5, <3>1, ServedFacts DEF Served, Team0
    <3>3. NoFile.c = None
      BY DEF NoFile
    <3> QED
      BY <1>2, <2>2, <2>3, <2>5, <3>1, <3>2, <3>3 DEF Served
  <2>8. RestoreHas(n)'
    BY <2>4 DEF RestoreHas
  <2> QED
    BY <1>1, <1>2, <1>5, <2>2, <2>6, <2>7, <2>8, RestoreStays DEF Ceases
<1>6. CASE /\ file[n] # NoFile /\ Assigned(n, file[n].c) /\ UNCHANGED <<disks, astray>>
           /\ Restores(n, "rqlite", file[n].c, file[n].gw, TRUE)
  <2>1. UNCHANGED <<svc, astray, file>>
        /\ restore'[n].pc = "rqlite" /\ restore'[n].c = file[n].c
        /\ restore'[n].gw = file[n].gw /\ restore'[n].disk = TRUE
        /\ \A m \in Nodes \ {n} : restore'[m] = restore[m]
    BY <1>6 DEF disks, Restores
  <2>2. file[n].c = cluster /\ status = "ready" /\ file[n].gw
    <3>1. HasRow(n, file[n].c)
      BY <1>1, <1>6, AssignedFacts
    <3> QED
      BY <1>3, <1>6, <3>1 DEF Undisturbed, Files
  <2>3. <<cluster, n>> \in ports
    BY <1>3, <2>2 DEF Served, Team0
  <2>4. RestoreHas(n)'
    BY <1>1, <1>2, <1>3, <2>1, <2>2, <2>3 DEF RestoreHas
  <2>5. (status = "ready" => Served') /\ (status # "ready" => Clean')
    BY <1>1, <1>2, <1>3, <2>1, StandingKept
  <2> QED
    BY <1>1, <1>2, <1>6, <2>1, <2>4, <2>5, RestoreStays
<1> QED
  BY <1>1, <1>4, <1>5, <1>6, <1>7, RestoreFromDiskMoves

\* or from the tables,
LEMMA RestoreQueryCalm ==
    ASSUME Firm, Undisturbed, NEW n \in Nodes, RestoreQuery(n), calm'
    PROVE  Undisturbed'
<1>1. restore[n].pc = "query" /\ Types
  BY DEF RestoreQuery, RestoreAt, Firm
<1>2. UNCHANGED <<cluster, status, ports, rows, dns, up, req, job, dep, svc, astray, file>>
  BY DEF RestoreQuery, RestoreVars, tables, disks
<1>3. /\ ~Removing /\ RestoreHas(n) /\ status \in {"none", "failed", "ready"}
      /\ (status = "ready" => Served) /\ (status # "ready" => Clean)
      /\ (status = "ready" => cluster # None)
  BY <1>1, RestoreAlone
<1>4. CASE status = "ready" /\ Assigned(n, cluster) /\ Restores(n, "ports", cluster, FALSE, FALSE)
  <2>1. /\ restore'[n].pc = "ports" /\ restore'[n].c = cluster /\ restore'[n].disk = FALSE
        /\ \A m \in Nodes \ {n} : restore'[m] = restore[m]
    BY <1>4 DEF Restores
  <2>2. RestoreHas(n)'
    BY <1>1, <1>2, <1>3, <1>4, <2>1 DEF RestoreHas
  <2>3. (status = "ready" => Served') /\ (status # "ready" => Clean')
    BY <1>1, <1>2, <1>3, <2>1, StandingKept
  <2> QED
    BY <1>1, <1>2, <1>4, <2>2, <2>3, RestoreStays
<1>5. CASE ~(status = "ready" /\ Assigned(n, cluster)) /\ Ceases(n)
  <2>1. restore'[n].pc = "idle" /\ \A m \in Nodes \ {n} : restore'[m] = restore[m]
    BY <1>5 DEF Ceases, Restores
  <2>2. \A m \in Nodes \ {n} : Idle(m)' <=> Idle(m)
    BY <1>2, <2>1 DEF Idle
  <2>3. file[n] = NoFile
    BY <1>1, <1>3 DEF RestoreHas
  <2>4. status # "ready" => Clean'
    BY <1>2, <1>3, <2>2, <2>3 DEF Clean, NoUnits
  <2>5. status = "ready" => Served'
    <3> SUFFICES ASSUME status = "ready" PROVE Served'
      OBVIOUS
    <3>1. Served /\ Team0' = Team0
      BY <1>2, <1>3 DEF Team0
    <3>2. n \notin Team0
      BY <1>5, <3>1, ServedFacts DEF Team0
    <3> QED
      BY <1>2, <2>2, <2>3, <3>1, <3>2 DEF Served
  <2>6. RestoreHas(n)'
    BY <2>1 DEF RestoreHas
  <2> QED
    BY <1>1, <1>2, <1>5, <2>4, <2>5, <2>6, RestoreStays DEF Ceases
<1> QED
  BY <1>1, <1>4, <1>5, RestoreMoves

\* with the ports of its block,
LEMMA RestorePortsCalm ==
    ASSUME Firm, Undisturbed, NEW n \in Nodes, RestorePorts(n), calm'
    PROVE  Undisturbed'
<1>1. restore[n].pc = "ports" /\ Types
  BY DEF RestorePorts, RestoreAt, Firm
<1>2. UNCHANGED <<cluster, status, ports, rows, dns, up, req, job, dep, svc, astray, file>>
  BY DEF RestorePorts, RestoreVars, tables, disks
<1>3. /\ RestoreHas(n) /\ (status = "ready" => Served) /\ (status # "ready" => Clean)
  BY <1>1, RestoreAlone
<1>4. /\ status = "ready" /\ restore[n].c = cluster /\ file[n] = NoFile /\ ~restore[n].disk
      /\ astray[n] = {} /\ \A k \in Kinds : svc[n][k] = None
  BY <1>1, <1>3 DEF RestoreHas
<1>5. /\ <<cluster, n>> \in ports
      /\ Restores(n, "rqlite", cluster, \E r \in RowsOf(cluster) : r[3] = "gateway", restore[n].disk)
  BY <1>1, <1>4, RestoreMoves
<1>6. /\ restore'[n].pc = "rqlite" /\ restore'[n].c = cluster /\ restore'[n].disk = restore[n].disk
      /\ restore'[n].gw = (\E r \in RowsOf(cluster) : r[3] = "gateway")
      /\ \A m \in Nodes \ {n} : restore'[m] = restore[m]
  BY <1>5, Zenon DEF Restores
<1>7. restore'[n].gw
  BY <1>3, <1>4, <1>5, <1>6, ServedFacts
<1>8. RestoreHas(n)'
  BY <1>2, <1>4, <1>5, <1>6, <1>7 DEF RestoreHas
<1>9. (status = "ready" => Served') /\ (status # "ready" => Clean')
  BY <1>1, <1>2, <1>3, <1>6, StandingKept
<1> QED
  BY <1>1, <1>2, <1>5, <1>8, <1>9, RestoreStays

\* one service after the other,
LEMMA RestoreServiceCalm ==
    ASSUME Firm, Undisturbed, NEW n \in Nodes, RestoreService(n), calm'
    PROVE  Undisturbed'
<1>1. restore[n].pc \in {"rqlite", "olric", "gateway"} /\ Types
  BY DEF RestoreService, Kinds, Firm
<1>2. UNCHANGED <<cluster, status, ports, rows, dns, up, req, job, dep, file>>
  BY DEF RestoreService, RestoreVars, tables
<1>3. /\ RestoreHas(n) /\ (status = "ready" => Served) /\ (status = "ready" => cluster # None)
  BY <1>1, RestoreAlone
<1>4. /\ status = "ready" /\ restore[n].c = cluster /\ <<cluster, n>> \in ports /\ restore[n].gw
      /\ IF restore[n].disk THEN file[n].c = cluster ELSE file[n] = NoFile
  BY <1>1, <1>3 DEF RestoreHas
<1>5. Starts(n, restore[n].pc, cluster)
  <2>1. StartService(n, restore[n].pc, restore[n].c)
    BY Zenon DEF RestoreService, Note
  <2>2. restore[n].pc \in Kinds /\ DiskTypes /\ Strayed
    BY <1>1 DEF Kinds, Types, Firm
  <2> QED
    BY <1>4, <2>1, <2>2, UnitFacts
<1>6. \/ restore[n].pc = "rqlite" /\ Continues(n, "olric")
      \/ restore[n].pc = "olric" /\ Continues(n, "gateway")
      \/ restore[n].pc = "gateway" /\ restore[n].disk /\ Ceases(n)
      \/ restore[n].pc = "gateway" /\ ~restore[n].disk /\ Continues(n, "save")
  BY <1>1, <1>4, RestoreServiceMoves
<1>7. Served /\ Team0' = Team0 /\ n \in Team0
  BY <1>2, <1>3, <1>4 DEF Team0
<1>8. \A m \in Nodes \ {n} : restore'[m] = restore[m] /\ (Idle(m)' <=> Idle(m))
                            /\ \A k \in Kinds : /\ svc'[m][k] = svc[m][k]
                                                /\ k \in astray'[m] \/ k \notin astray[m]
  <2>1. \A m \in Nodes \ {n} : restore'[m] = restore[m]
    BY <1>6 DEF Continues, Ceases, Restores
  <2>2. \A m \in Nodes \ {n} : Idle(m)' <=> Idle(m)
    BY <1>2, <2>1 DEF Idle
  <2>3. \A m \in Nodes \ {n} : \A k \in Kinds : /\ svc'[m][k] = svc[m][k]
                                                /\ k \in astray'[m] \/ k \notin astray[m]
    BY <1>5 DEF Starts, Kinds
  <2> QED
    BY <2>1, <2>2, <2>3
<1>9. Idle(n)' => \A k \in Kinds : svc'[n][k] = cluster
  <2>1. CASE restore[n].pc = "gateway"
    <3>1. svc'[n]["rqlite"] = cluster /\ svc'[n]["olric"] = cluster /\ svc'[n]["gateway"] = cluster
      BY <1>3, <1>5, <2>1 DEF RestoreHas, Starts
    <3> QED
      BY <3>1 DEF Kinds
  <2>2. CASE restore[n].pc # "gateway"
    BY <1>6, <2>2 DEF Idle, Continues, Restores
  <2> QED
    BY <2>1, <2>2
<1>10. Served'
  BY <1>2, <1>7, <1>8, <1>9 DEF Served
<1>11. RestoreHas(n)'
  <2>0. astray'[n] = {}
    <3>1. astray[n] = {}
      BY <1>1, <1>3 DEF RestoreHas
    <3> QED
      BY <1>5, <3>1 DEF Starts
  <2>1. CASE restore[n].pc = "rqlite"
    <3>1. /\ restore'[n].pc = "olric" /\ restore'[n].c = restore[n].c
          /\ restore'[n].gw = restore[n].gw /\ restore'[n].disk = restore[n].disk
      BY <1>6, <2>1 DEF Continues, Restores
    <3>2. svc[n]["rqlite"] = None /\ svc[n]["olric"] = None /\ svc[n]["gateway"] = None
      BY <1>3, <2>1 DEF RestoreHas, Kinds
    <3> QED
      BY <1>2, <1>4, <1>5, <2>0, <2>1, <3>1, <3>2 DEF RestoreHas, Starts
  <2>2. CASE restore[n].pc = "olric"
    <3>1. /\ restore'[n].pc = "gateway" /\ restore'[n].c = restore[n].c
          /\ restore'[n].gw = restore[n].gw /\ restore'[n].disk = restore[n].disk
      BY <1>6, <2>2 DEF Continues, Restores
    <3>2. svc[n]["rqlite"] = cluster /\ svc[n]["olric"] = None /\ svc[n]["gateway"] = None
      BY <1>3, <2>2 DEF RestoreHas
    <3> QED
      BY <1>2, <1>4, <1>5, <2>0, <2>2, <3>1, <3>2 DEF RestoreHas, Starts
  <2>3. CASE restore[n].pc = "gateway" /\ restore[n].disk
    <3>1. restore'[n].pc = "idle"
      BY <1>6, <2>3 DEF Ceases, Restores
    <3> QED
      BY <3>1 DEF RestoreHas
  <2>4. CASE restore[n].pc = "gateway" /\ ~restore[n].disk
    <3>1. /\ restore'[n].pc = "save" /\ restore'[n].c = restore[n].c
          /\ restore'[n].gw = restore[n].gw /\ restore'[n].disk = restore[n].disk
      BY <1>6, <2>4 DEF Continues, Restores
    <3>2. svc[n]["rqlite"] = cluster /\ svc[n]["olric"] = cluster /\ svc[n]["gateway"] = None
      BY <1>3, <2>4 DEF RestoreHas
    <3> QED
      BY <1>2, <1>4, <1>5, <2>0, <2>4, <3>1, <3>2 DEF RestoreHas, Starts
  <2> QED
    BY <1>1, <2>1, <2>2, <2>3, <2>4
<1>12. \E pc, c, gw, disk : Restores(n, pc, c, gw, disk)
  BY <1>6 DEF Continues, Ceases
<1> QED
  BY <1>1, <1>2, <1>4, <1>10, <1>11, <1>12, RestoreStays

\* and saves the file.
LEMMA RestoreSaveCalm ==
    ASSUME Firm, Undisturbed, NEW n \in Nodes, RestoreSave(n), calm'
    PROVE  Undisturbed'
<1>1. restore[n].pc = "save" /\ Types
  BY DEF RestoreSave, RestoreAt, Firm
<1>2. UNCHANGED <<cluster, status, ports, rows, dns, up, req, job, dep, svc, astray>>
  BY DEF RestoreSave, RestoreVars, tables, units
<1>3. /\ RestoreHas(n) /\ (status = "ready" => Served)
  BY <1>1, RestoreAlone
<1>4. /\ status = "ready" /\ restore[n].c = cluster /\ <<cluster, n>> \in ports /\ restore[n].gw
      /\ svc[n]["rqlite"] = cluster /\ svc[n]["olric"] = cluster /\ svc[n]["gateway"] = cluster
  BY <1>1, <1>3 DEF RestoreHas
<1>5. /\ \A m \in Nodes \ {n} : file'[m] = file[m]
      /\ file'[n].c = cluster /\ file'[n].gw
  <2>1. file' = [file EXCEPT ![n] = [c |-> restore[n].c, gw |-> restore[n].gw]]
    BY Zenon DEF RestoreSave, Note
  <2>2. file \in [Nodes -> [c : Clusters \cup {None}, gw : BOOLEAN]]
    BY <1>1 DEF Types, DiskTypes
  <2> QED
    BY <1>4, <2>1, <2>2
<1>6. Ceases(n)
  BY <1>1, RestoreMoves
<1>7. restore'[n].pc = "idle" /\ \A m \in Nodes \ {n} : restore'[m] = restore[m]
  BY <1>6 DEF Ceases, Restores
<1>8. \A m \in Nodes \ {n} : Idle(m)' <=> Idle(m)
  BY <1>2, <1>7 DEF Idle
<1>9. Served /\ Team0' = Team0 /\ n \in Team0 /\ \A k \in Kinds : svc[n][k] = cluster
  BY <1>2, <1>3, <1>4 DEF Team0, Kinds
<1>10. Served'
  BY <1>2, <1>5, <1>8, <1>9 DEF Served
<1>11. RestoreHas(n)'
  BY <1>7 DEF RestoreHas
<1> QED
  BY <1>1, <1>2, <1>4, <1>5, <1>6, <1>10, <1>11, RestoreStays DEF Ceases

\* A node that comes back begins to restore; nobody else is at work.
LEMMA RestartCalm ==
    ASSUME Firm, Undisturbed, NEW n \in Nodes, Restart(n), calm'
    PROVE  Undisturbed'
<1>1. /\ Quiet /\ n \notin up /\ up' = up \cup {n} /\ Types
      /\ UNCHANGED <<cluster, status, ports, rows, dns, svc, astray, file, req, job, dep>>
  <2>1. Note(Quiet)
    BY DEF Restart
  <2>2. Quiet
    BY <2>1, Noted
  <2> QED
    BY <2>2 DEF Restart, RestoreVars, tables, disks, Firm
<1>2. /\ restore'[n].pc = "disk" /\ \A m \in Nodes \ {n} : restore'[m] = restore[m]
  <2>1. Continues(n, "disk")
    BY <1>1, RestoreMoves
  <2> QED
    BY <2>1 DEF Continues, Restores
<1>3. JobsLive = {} /\ (\A m \in Nodes : dep[m].pc = "idle" /\ restore[m].pc = "idle")
  BY <1>1 DEF Quiet
<1>4. JobsLive' = {} /\ (Removing' <=> Removing)
  BY <1>1, <1>3 DEF JobsLive, Removing
<1>5. Alone'
  BY <1>1, <1>2, <1>3, <1>4 DEF Undisturbed, Alone
<1>6. Replacing' /\ Files'
  BY <1>1 DEF Replacing, Files, Undisturbed, HasRow
<1>7. \A m \in Nodes : Idle(m)' <=> Idle(m)
  BY <1>1, <1>2, <1>3 DEF Idle
<1>8. Standing'
  <2>1. Team0' = Team0
    BY <1>1 DEF Team0
  <2>2. Clean => Clean'
    BY <1>1, <1>7 DEF Clean, NoUnits
  <2>3. Served => Served'
    BY <1>1, <1>7, <2>1 DEF Served
  <2> QED
    BY <1>1, <1>4, <2>2, <2>3 DEF Undisturbed, Standing
<1>9. Restoring'
  <2>1. astray[n] = {} /\ \A k \in Kinds : svc[n][k] = None
    BY <1>1 DEF Firm, Places, Strayed
  <2>2. RestoreHas(n)'
    BY <1>1, <1>2, <2>1 DEF RestoreHas
  <2>3. ASSUME NEW m \in Nodes, m # n PROVE RestoreHas(m)'
    BY <1>2, <1>3, <2>3 DEF RestoreHas
  <2> QED
    BY <2>2, <2>3 DEF Restoring
<1>10. Building' /\ Leaving'
  BY <1>1, <1>3, <1>4 DEF Building, Leaving
<1> QED
  BY <1>5, <1>6, <1>8, <1>9, <1>10 DEF Undisturbed

\* A node that goes down takes its units with it and nothing else.
LEMMA CrashCalm ==
    ASSUME Firm, Undisturbed, NEW n \in Nodes, Crash(n), calm'
    PROVE  Undisturbed'
<1>1. /\ JobsLive = {} /\ dep[n].pc = "idle" /\ req[n].pc = "idle"
      /\ up' = up \ {n} /\ Types /\ UNCHANGED <<cluster, status, ports, rows, dns, file>>
  <2>1. Note(JobsLive = {} /\ DepAt(n, "idle") /\ req[n].pc = "idle")
    BY DEF Crash
  <2>2. JobsLive = {} /\ DepAt(n, "idle") /\ req[n].pc = "idle"
    BY <2>1, Noted
  <2> QED
    BY <2>2 DEF Crash, DepAt, tables, Firm
<1>2. TaskTypes /\ DiskTypes /\ Strayed
  BY <1>1 DEF Types, Firm
<1>3. /\ req'[n].pc = "idle" /\ \A m \in Nodes \ {n} : req'[m] = req[m]
      /\ restore'[n].pc = "idle" /\ \A m \in Nodes \ {n} : restore'[m] = restore[m]
      /\ dep'[n].pc = "idle" /\ \A m \in Nodes \ {n} : dep'[m] = dep[m]
  BY <1>2 DEF Crash, TaskTypes, NoReq, NoDep, NoRestore
<1>4. JobsLive' = {}
  BY <1>1 DEF Crash, JobsLive
<1>5. StopsAll(n)
  <2>1. StopAll(n) /\ "rqlite" \in Kinds
    BY DEF Crash, Kinds
  <2> QED
    BY <1>2, <2>1, UnitFacts
<1>6. \A m \in Nodes, k \in Kinds : /\ svc'[m][k] = IF m = n THEN None ELSE svc[m][k]
                                    /\ m = n \/ astray'[m] = astray[m]
  BY <1>5 DEF StopsAll, Kinds
<1>7. Removing' <=> Removing
  BY <1>1, <1>3 DEF Removing
<1>8. Alone'
  BY <1>1, <1>3, <1>4, <1>7 DEF Undisturbed, Alone
<1>9. Replacing' /\ Files'
  BY <1>1, <1>3 DEF Replacing, Files, Undisturbed, HasRow
<1>10. ~Idle(n)' /\ \A m \in Nodes \ {n} : Idle(m)' <=> Idle(m)
  BY <1>1, <1>3 DEF Idle
<1>11. Standing'
  <2>1. Team0' = Team0
    BY <1>1 DEF Team0
  <2>2. Clean => Clean'
    BY <1>1, <1>6, <1>10 DEF Clean, NoUnits
  <2>3. Served => Served'
    BY <1>1, <1>6, <1>10, <2>1 DEF Served
  <2> QED
    BY <1>1, <1>7, <2>2, <2>3 DEF Undisturbed, Standing
<1>12. Restoring'
  <2>1. RestoreHas(n)'
    BY <1>3 DEF RestoreHas
  <2>2. ASSUME NEW m \in Nodes, m # n PROVE RestoreHas(m)'
    <3>1. RestoreHas(m) /\ restore'[m] = restore[m]
      BY <1>3, <2>2 DEF Undisturbed, Restoring
    <3>2. /\ svc'[m]["rqlite"] = svc[m]["rqlite"] /\ svc'[m]["olric"] = svc[m]["olric"]
          /\ svc'[m]["gateway"] = svc[m]["gateway"] /\ \A k \in Kinds : svc'[m][k] = svc[m][k]
          /\ astray'[m] = astray[m]
      BY <1>5, <1>6, <2>2 DEF StopsAll
    <3> QED
      BY <1>1, <3>1, <3>2 DEF RestoreHas
  <2> QED
    BY <2>1, <2>2 DEF Restoring
<1>13. Building'
  BY <1>4 DEF Building
<1>14. Leaving'
  <2> SUFFICES ASSUME NEW p \in Nodes, dep'[p].pc # "idle" PROVE Leaves(p)'
    BY DEF Leaving
  <2>1. p # n /\ dep'[p] = dep[p] /\ Leaves(p)
    BY <1>3 DEF Undisturbed, Leaving
  <2>2. /\ UnitsWithin("gateway", dep[p].todo) => UnitsWithin("gateway", dep[p].todo)'
        /\ UnitsWithin("gateway", {}) => UnitsWithin("gateway", {})'
        /\ UnitsWithin("olric", dep[p].todo) => UnitsWithin("olric", dep[p].todo)'
        /\ UnitsWithin("olric", {}) => UnitsWithin("olric", {})'
        /\ UnitsWithin("rqlite", dep[p].todo) => UnitsWithin("rqlite", dep[p].todo)'
        /\ UnitsWithin("rqlite", {}) => UnitsWithin("rqlite", {})'
    BY <1>5, <2>1 DEF UnitsWithin, StopsAll
  <2>3. \A m \in Nodes : \A c : HasRow(m, c)' <=> HasRow(m, c)
    BY <1>1 DEF HasRow
  <2> QED
    BY <1>1, <1>6, <2>1, <2>2, <2>3 DEF Leaves
<1> QED
  BY <1>8, <1>9, <1>11, <1>12, <1>13, <1>14 DEF Undisturbed

-----------------------------------------------------------------------------
(* Requests, undisturbed. *)

\* A request by itself changes nothing that the second layer is about.
LEMMA RequestStays ==
    ASSUME Undisturbed, UNCHANGED <<cluster, status, ports, rows, dns, svc, astray, file, up>>,
           UNCHANGED <<job, dep, restore>>, Replacing'
    PROVE  Undisturbed'
<1>1. JobsLive' = JobsLive /\ (Removing' <=> Removing) /\ Team0' = Team0
  BY DEF JobsLive, Removing, Team0
<1>2. Alone' /\ Files'
  BY <1>1 DEF Undisturbed, Alone, Files, HasRow
<1>3. Standing'
  BY <1>1 DEF Undisturbed, Standing, Clean, Served, NoUnits, Idle
<1>4. Restoring'
  BY DEF Undisturbed, Restoring, RestoreHas
<1>5. Building'
  <2>1. \A c \in Clusters : Built(c)' <=> Built(c)
    BY DEF Built, PortsBuilt, DNSBuilt, RowsBuilt, UnitsBuilt, UnitsUndone, PortsAre,
       Recorded, UnitsAre, UnitsWithin, NoUnits, Done, Team, Current
  <2> QED
    BY <1>1, <2>1 DEF Undisturbed, Building, JobsLive
<1>6. Leaving'
  BY DEF Undisturbed, Leaving, Leaves, UnitsWithin, HasRow
<1> QED
  BY <1>2, <1>3, <1>4, <1>5, <1>6 DEF Undisturbed

\* Requests that insert nothing keep an undisturbed system as the invariant says.
LEMMA CheckCalm ==
    ASSUME Firm, Undisturbed, NEW n \in Nodes,
           \/ CheckNamespaceCluster(n) \/ ProvisionNamespaceCluster(n) \/ InsertFails(n),
           calm'
    PROVE  Undisturbed'
<1>1. /\ UNCHANGED <<cluster, status, ports, rows, dns, svc, astray, file, up, job, dep, restore>>
      /\ Types
  BY Zenon DEF CheckNamespaceCluster, ProvisionNamespaceCluster, InsertFails, ReqVars, tables,
     disks, Note, Firm
<1>2. \A m \in Nodes : \/ req'[m] = req[m]
                       \/ req'[m].pc \notin {"drop", "free"}
                       \/ req'[m].c = cluster /\ status = "failed" /\ cluster # None
  <2>1. CASE CheckNamespaceCluster(n)
    BY <1>1, <2>1, CheckMoves DEF Asks
  <2>2. CASE ProvisionNamespaceCluster(n) \/ InsertFails(n)
    BY <1>1, <2>2, RequestMoves DEF Asks
  <2> QED
    BY <2>1, <2>2
<1>3. status = "failed" /\ cluster # None => \A m \in Nodes : file[m].c # cluster
  BY DEF Undisturbed, Files, NoFile
<1>4. Replacing'
  BY <1>1, <1>2, <1>3 DEF Undisturbed, Replacing
<1> QED
  BY <1>1, <1>4, RequestStays

\* A failed cluster is dropped, its ports are given back.
LEMMA DropFailedCalm ==
    ASSUME Firm, Undisturbed, NEW n \in Nodes, DropFailed(n), calm'
    PROVE  Undisturbed'
<1>1. /\ req[n].pc = "drop" /\ DeleteRecord(req[n].c) /\ Types
      /\ UNCHANGED <<svc, astray, file, up, job, dep, restore>>
  BY Zenon DEF DropFailed, ReqVars, disks, Note, Firm
<1>2. /\ \A m \in Nodes : req'[m].pc \in {"drop", "free"} =>
            req[m].pc \in {"drop", "free"} /\ req'[m].c = req[m].c
  BY <1>1, RequestMoves DEF Asks
<1>3. \A m \in Nodes : req[m].pc \in {"drop", "free"} => req[m].c \in Clusters /\ req[m].c # None
  BY Constants DEF Firm, Record, Used
<1>4. CASE cluster # req[n].c
  <2>1. UNCHANGED <<cluster, status, ports, rows, dns>>
    BY <1>1, <1>4 DEF DeleteRecord
  <2>2. Replacing'
    BY <1>1, <1>2, <2>1 DEF Undisturbed, Replacing
  <2> QED
    BY <1>1, <2>1, <2>2, RequestStays
<1>5. CASE cluster = req[n].c
  <2>1. /\ cluster' = None /\ status' = "none" /\ UNCHANGED <<ports, rows, dns>>
        /\ status \in {"failed", "deprovisioning"} /\ cluster # None
        /\ \A m \in Nodes : file[m].c # cluster
    BY <1>1, <1>3, <1>5 DEF DeleteRecord, Undisturbed, Replacing
  <2>2. JobsLive = {}
    BY <2>1 DEF Undisturbed, Alone
  <2>3. JobsLive' = {} /\ (Removing' <=> Removing)
    BY <1>1, <2>2 DEF JobsLive, Removing
  <2>4. Alone'
    BY <1>1, <2>1, <2>2, <2>3 DEF Undisturbed, Alone
  <2>5. Replacing'
    BY <1>1, <1>2, <1>3, <2>1 DEF Undisturbed, Replacing
  <2>6. Files'
    BY <1>1, <2>1 DEF Undisturbed, Files, HasRow
  <2>7. Standing'
    <3>1. ~Removing => Clean
      BY <2>1 DEF Undisturbed, Standing, Alone
    <3>2. Clean => Clean'
      BY <1>1, <2>1 DEF Clean, NoUnits, Idle
    <3> QED
      BY <2>1, <2>3, <3>1, <3>2 DEF Standing
  <2>8. Restoring'
    <3>1. \A m \in Nodes : restore[m].pc \in {"idle", "disk", "query"}
      BY <2>1 DEF Undisturbed, Restoring, RestoreHas
    <3> QED
      BY <1>1, <3>1 DEF Undisturbed, Restoring, RestoreHas
  <2>9. Building'
    BY <2>3 DEF Building
  <2>10. Leaving'
    BY <1>1, <2>1 DEF Undisturbed, Leaving, Leaves, UnitsWithin, HasRow
  <2> QED
    BY <2>4, <2>5, <2>6, <2>7, <2>8, <2>9, <2>10 DEF Undisturbed
<1> QED
  BY <1>4, <1>5

\* Releasing the ports of a failed cluster keeps it so.
LEMMA FreeFailedCalm ==
    ASSUME Firm, Undisturbed, NEW n \in Nodes, FreeFailed(n), calm'
    PROVE  Undisturbed'
<1>1. /\ req[n].pc = "free" /\ ports' = ports \ PortsOf(req[n].c) /\ Types
      /\ UNCHANGED <<cluster, status, rows, dns, svc, astray, file, up, job, dep, restore>>
  BY Zenon DEF FreeFailed, SetPorts, ReqVars, disks, Note, Firm
<1>2. /\ \A m \in Nodes : req'[m].pc \in {"drop", "free"} => req'[m] = req[m]
  BY <1>1, RequestMoves DEF Asks
<1>3. Replacing'
  BY <1>1, <1>2 DEF Undisturbed, Replacing
<1>4. CASE ports' = ports
  BY <1>1, <1>3, <1>4, RequestStays
<1>5. CASE ports' # ports
  <2>1. PICK x \in ports : x[1] = req[n].c
    BY <1>1, <1>5 DEF PortsOf
  <2>2. JobsLive = {}
    <3> SUFFICES ASSUME NEW c \in JobsLive PROVE FALSE
      OBVIOUS
    <3>1. c = cluster /\ status = "provisioning" /\ Built(c)
      BY JobAlone
    <3>2. \A y \in ports : y[1] = c
      BY <3>1 DEF Built, PortsBuilt, PortsAre
    <3> QED
      BY <1>1, <2>1, <3>1, <3>2 DEF Undisturbed, Replacing
  <2>3. status # "provisioning"
    BY <2>2 DEF Undisturbed, Alone
  <2>4. Removing
    <3> SUFFICES ASSUME ~Removing PROVE FALSE
      OBVIOUS
    <3>1. status = "ready"
      BY <1>1, <2>1, <2>3 DEF Undisturbed, Alone, Standing, Clean, Types, TableTypes, Statuses
    <3>2. x[1] = cluster
      BY <2>1, <3>1 DEF Undisturbed, Standing, Served
    <3> QED
      BY <1>1, <2>1, <3>1, <3>2 DEF Undisturbed, Replacing
  <2>5. \A m \in Nodes : restore[m].pc = "idle"
    BY <2>4 DEF Removing, Undisturbed, Alone
  <2>6. JobsLive' = {} /\ Removing'
    BY <1>1, <2>2, <2>4 DEF JobsLive, Removing
  <2>7. Alone' /\ Files'
    BY <1>1, <2>2, <2>3, <2>6 DEF Undisturbed, Alone, Files, HasRow
  <2>8. Standing' /\ Restoring' /\ Building'
    BY <1>1, <2>5, <2>6 DEF Standing, Restoring, RestoreHas, Building
  <2>9. Leaving'
    BY <1>1 DEF Undisturbed, Leaving, Leaves, UnitsWithin, HasRow
  <2> QED
    BY <1>3, <2>7, <2>8, <2>9 DEF Undisturbed
<1> QED
  BY <1>4, <1>5

\* A goroutine begins with nothing.
LEMMA InsertClusterCalm ==
    ASSUME Firm, Undisturbed, NEW n \in Nodes, InsertCluster(n), calm'
    PROVE  Undisturbed'
<1>1. /\ Quiet /\ cluster = None /\ Types /\ next \in Clusters
      /\ cluster' = next /\ status' = "provisioning"
      /\ UNCHANGED <<ports, rows, dns, svc, astray, file, up, dep, restore>>
  <2>1. Note(Quiet)
    BY DEF InsertCluster
  <2>2. Quiet
    BY <2>1, Noted
  <2> QED
    BY <2>2 DEF InsertCluster, KeyFree, CreateRecord, ReqVars, disks, Firm
<1>2. /\ job' \in [Clusters -> JobTypes] /\ \A d \in Clusters \ {next} : job'[d] = job[d]
      /\ job'[next].pc = "select" /\ ~job'[next].expired /\ job'[next].bad = {}
  BY <1>1, InsertFacts
<1>3. \A m \in Nodes : req'[m].pc \in {"drop", "free"} => req'[m] = req[m]
  BY <1>1, RequestMoves DEF Asks
<1>4. JobsLive = {} /\ (\A m \in Nodes : dep[m].pc = "idle" /\ restore[m].pc = "idle") /\ ~Removing
  BY <1>1 DEF Quiet, Removing
<1>5. JobsLive' = {next}
  BY <1>1, <1>2, <1>4 DEF JobsLive
<1>6. Clean
  BY <1>1, <1>4 DEF Undisturbed, Standing, Firm, Record, Open
<1>7. /\ \A m \in Nodes : file[m].c # next
      /\ \A m \in Nodes : req[m].c # next
      /\ \A m \in Nodes : m \in up => file[m] = NoFile
  <2>1. \A m \in Nodes : file[m].c < next /\ req[m].c < next
    BY DEF Firm, Record, Used
  <2>2. ~(next < next)
    BY <1>1, Constants
  <2> QED
    BY <1>4, <1>6, <2>1, <2>2 DEF Clean, Idle
<1>8. Alone'
  BY <1>1, <1>2, <1>4, <1>5 DEF Alone
<1>9. Replacing'
  BY <1>1, <1>3, <1>7 DEF Undisturbed, Replacing
<1>10. Files'
  BY <1>1, <1>7 DEF Undisturbed, Files, HasRow
<1>11. Standing' /\ Restoring' /\ Leaving'
  BY <1>1, <1>4 DEF Standing, Restoring, RestoreHas, Leaving
<1>12. \A c : c = next => Built(c)'
  <2>1. NoUnits' /\ ports' = {} /\ dns' = {}
    BY <1>1, <1>6 DEF Clean, NoUnits
  <2> QED
    BY <1>2, <2>1 DEF Built, PortsBuilt, DNSBuilt, RowsBuilt, UnitsBuilt, UnitsUndone
<1>13. Building'
  BY <1>1, <1>5, <1>7, <1>12 DEF Building
<1> QED
  BY <1>8, <1>9, <1>10, <1>11, <1>13 DEF Undisturbed

-----------------------------------------------------------------------------
(* The second layer as a whole. *)

\* The invariant of undisturbed systems holds at first.
LEMMA CalmInit == Init => CalmInv
<1> SUFFICES ASSUME Init PROVE Undisturbed
  BY DEF CalmInv
<1>1. /\ JobsLive = {} /\ ~Removing
      /\ \A n \in Nodes : dep[n].pc = "idle" /\ restore[n].pc = "idle" /\ req[n].pc = "idle"
      /\ \A n \in Nodes : file[n] = NoFile
      /\ \A n \in Nodes, k \in Kinds : svc[n][k] = None
      /\ status = "none" /\ cluster = None /\ ports = {} /\ dns = {}
  BY DEF Init, JobsLive, NoJob, NoDep, NoRestore, NoReq, Removing
<1> QED
  BY <1>1 DEF Undisturbed, Alone, Replacing, Files, Standing, Clean, NoUnits, Restoring,
     RestoreHas, Building, Leaving

\* What is not calm stays so: one lost statement or one overlap is remembered.
LEMMA CalmBefore ==
    ASSUME [Next]_vars, calm'
    PROVE  calm
<1>1. CASE UNCHANGED vars
  BY <1>1 DEF vars
<1>2. CASE calm' = calm \/ \E fine : Note(fine)
  BY <1>2, Noted
<1>3. ASSUME NEW n \in Nodes, Request(n)
      PROVE  calm' = calm \/ \E fine : Note(fine)
  BY <1>3, Zenon DEF Request, CheckNamespaceCluster, DropFailed, FreeFailed,
     ProvisionNamespaceCluster, InsertCluster, InsertFails
<1>4. ASSUME NEW n \in Nodes, Deprovision(n) \/ Removal(n) \/ Disconnect(n)
      PROVE  calm' = calm \/ \E fine : Note(fine)
  <2>1. CASE Deprovision(n) \/ Disconnect(n)
    BY <2>1, Zenon DEF Deprovision, Disconnect
  <2>2. CASE DepMark(n) \/ DepNodes(n)
    BY <2>2, Zenon DEF DepMark, DepNodes
  <2>3. CASE DepStop(n) \/ DepDelete(n)
    BY <2>3, Zenon DEF DepStop, DepDelete
  <2> QED
    BY <1>4, <2>1, <2>2, <2>3 DEF Removal
<1>5. ASSUME NEW n \in Nodes, Crash(n) \/ Restart(n) \/ Restore(n)
      PROVE  calm' = calm \/ \E fine : Note(fine)
  <2>1. CASE Crash(n) \/ Restart(n)
    BY <2>1, Zenon DEF Crash, Restart
  <2>2. CASE RestoreFromDisk(n) \/ RestoreQuery(n) \/ RestorePorts(n)
    BY <2>2, Zenon DEF RestoreFromDisk, RestoreQuery, RestorePorts
  <2>3. CASE RestoreService(n) \/ RestoreSave(n)
    BY <2>3, Zenon DEF RestoreService, RestoreSave
  <2> QED
    BY <1>5, <2>1, <2>2, <2>3 DEF Restore
<1>6. ASSUME NEW c \in Clusters, Job(c) \/ Panic(c) \/ Expire(c)
      PROVE  calm' = calm \/ \E fine : Note(fine)
  <2>1. CASE SelectNodesForCluster(c) \/ AllocatePortBlock(c) \/ AllocationFails(c)
    BY <2>1, Zenon DEF SelectNodesForCluster, AllocatePortBlock, AllocationFails
  <2>2. CASE \E kind \in {"rqlite", "gateway"} : Spawn(c, kind) \/ SpawnFails(c, kind)
    BY <2>2, Zenon DEF Spawn, SpawnFails
  <2>3. CASE \/ RecordNode(c, "rqlite", "olric") \/ RecordNode(c, "olric", "gateway")
             \/ RecordNode(c, "gateway", "dns")
    BY <2>3, Zenon DEF RecordNode
  <2>4. CASE SpawnOlric(c) \/ ClearDNS(c) \/ InsertDNS(c)
    BY <2>4, Zenon DEF SpawnOlric, ClearDNS, InsertDNS
  <2>5. CASE Release(c) \/ StopOnNode(c) \/ StopLocal(c) \/ FreePorts(c)
    BY <2>5, Zenon DEF Release, StopOnNode, StopLocal, FreePorts
  <2>6. CASE Settle(c) \/ Panic(c) \/ Expire(c)
    BY <2>6, Zenon DEF Settle, Panic, Expire
  <2> QED
    BY <1>6, <2>1, <2>2, <2>3, <2>4, <2>5, <2>6 DEF Job
<1> QED
  BY <1>1, <1>2, <1>3, <1>4, <1>5, <1>6 DEF Next

\* Every action keeps it.
LEMMA CalmNext == IInv /\ [Next]_vars => CalmInv'
<1> SUFFICES ASSUME IInv, [Next]_vars, calm' PROVE Undisturbed'
  BY DEF CalmInv
<1>1. Firm /\ Undisturbed
  BY CalmBefore DEF IInv, CalmInv
<1>2. CASE UNCHANGED vars
  <2>1. /\ UNCHANGED <<cluster, status, ports, rows, dns, svc, astray, file, up, job, dep, restore>>
        /\ UNCHANGED req
    BY <1>2 DEF vars, tables, disks
  <2>2. Replacing'
    BY <1>1, <2>1 DEF Undisturbed, Replacing
  <2> QED
    BY <1>1, <2>1, <2>2, RequestStays
<1>3. ASSUME NEW n \in Nodes, Request(n) PROVE Undisturbed'
  BY <1>1, <1>3, CheckCalm, DropFailedCalm, FreeFailedCalm, InsertClusterCalm DEF Request
<1>4. ASSUME NEW n \in Nodes, Deprovision(n) \/ Removal(n) PROVE Undisturbed'
  BY <1>1, <1>4, DeprovisionCalm, DepMarkCalm, DepNodesCalm, DepStopCalm, DepDeleteCalm
  DEF Removal
<1>5. ASSUME NEW n \in Nodes, Crash(n) \/ Restart(n) \/ Restore(n) PROVE Undisturbed'
  BY <1>1, <1>5, CrashCalm, RestartCalm, RestoreFromDiskCalm, RestoreQueryCalm,
     RestorePortsCalm, RestoreServiceCalm, RestoreSaveCalm DEF Restore
<1>6. ASSUME NEW c \in Clusters, Job(c) PROVE Undisturbed'
  BY <1>1, <1>6, JobCalm
<1>7. ASSUME \/ \E n \in Nodes : Disconnect(n)
             \/ \E c \in Clusters : Panic(c) \/ Expire(c)
      PROVE  FALSE
  <2>1. Note(FALSE)
    BY <1>7, Zenon DEF Disconnect, Panic, Expire
  <2> QED
    BY <2>1, Noted
<1> QED
  BY <1>2, <1>3, <1>4, <1>5, <1>6, <1>7 DEF Next

\* Whatever fails, types, owners and the record are in order; and as long as
\* the history is calm, every phase of every task finds exactly what it expects
\* of the cluster.
THEOREM Invariance == Spec => []IInv
<1>1. Init => IInv
  BY FirmInit, CalmInit DEF IInv
<1>2. IInv /\ [Next]_vars => IInv'
  BY FirmNext, CalmNext DEF IInv
<1> QED
  BY <1>1, <1>2, PTL DEF Spec

\* A cluster declared ready is what provisioning promises: NodeCount nodes, each
\* with its ports, its rows, its record and its units, whatever starts failed
\* before and whatever nodes crashed and came back since; excepted are the units
\* that a failed start had left running, and a node that came back, found state
\* files of other namespaces only and asked no table (provisionClusterAsync,
\* RestoreLocalClusters).
THEOREM ReadyServes == Spec => []ReadyIsServed
<1>1. IInv => ReadyIsServed
  <2> SUFFICES ASSUME IInv, calm, status = "ready", ~Removing
               PROVE  /\ Cardinality(Team0) = NodeCount
                      /\ dns = Team0
                      /\ \A n \in Team0, k \in Kinds :
                            /\ <<cluster, n, k>> \in rows
                            /\ n \in up /\ restore[n].pc = "idle" =>
                                  svc[n][k] = cluster \/ k \in astray[n]
    BY DEF ReadyIsServed, Team0
  <2>1. Served
    BY DEF IInv, CalmInv, Undisturbed, Standing
  <2>2. Team0 \subseteq Nodes
    BY DEF Team0
  <2> QED
    BY <2>1, <2>2 DEF Served, Idle
<1> QED
  BY <1>1, Invariance, PTL

\* A provisioning that failed and got to the end of its rollback has taken back
\* its ports and its records, and all units but the ones whose own start failed,
\* at whatever step it failed and whatever nodes were down (rollbackProvisioning).
THEOREM FailureRollsBack == Spec => []FailedIsRolledBack
<1>1. IInv => FailedIsRolledBack
  <2> SUFFICES ASSUME IInv, calm, status = "failed", ~Removing
               PROVE  PortsOf(cluster) = {} /\ dns = {} /\ \A n \in Nodes : Deserted(n)
    BY DEF FailedIsRolledBack
  <2>1. Clean
    BY DEF IInv, CalmInv, Undisturbed, Standing
  <2> QED
    BY <2>1 DEF Clean, NoUnits, PortsOf, Deserted
<1> QED
  BY <1>1, Invariance, PTL

\* A removed cluster leaves nothing that runs or is reserved, units of failed
\* starts excepted, and a node that was down meanwhile does not bring it back
\* (DeprovisionCluster, restoreClusterFromState).
THEOREM RemovalLeavesNothing == Spec => []GoneIsGone
<1>1. IInv => GoneIsGone
  <2> SUFFICES ASSUME IInv, calm, cluster = None, Quiet
               PROVE  /\ ports = {} /\ dns = {}
                      /\ \A n \in Nodes : Deserted(n) /\ (n \in up => file[n] = NoFile)
    BY DEF GoneIsGone
  <2>1. status = "none" /\ ~Removing
    BY DEF IInv, Firm, Record, Open, Quiet, Removing
  <2>2. Clean
    BY <2>1 DEF IInv, CalmInv, Undisturbed, Standing
  <2> QED
    BY <2>2 DEF Clean, NoUnits, Deserted, Idle, Quiet
<1> QED
  BY <1>1, Invariance, PTL
=============================================================================
