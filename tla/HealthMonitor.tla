--------------------------- MODULE HealthMonitor ---------------------------
(***************************************************************************)
(* The ring failure detector of the nodes (core/pkg/node/health/monitor.go)*)
(* with the parts of the node and of the recovery that decide who is in    *)
(* the ring (core/pkg/node/dns_registration.go, HandleDeadNode and         *)
(* HandleRecoveredNode of core/pkg/namespace/cluster_recovery.go).         *)
(*                                                                         *)
(* Every node runs a monitor.  In a round it reads the active nodes from   *)
(* dns_nodes, sorts them into a ring and probes its K successors, each in  *)
(* a goroutine of its own; the round ends when all of them have returned.  *)
(* A goroutine that declares its node dead inserts a 'dead' event, counts  *)
(* the observers with such an event, and asks for the lowest of them: four *)
(* steps between which the other monitors run.                             *)
(*                                                                         *)
(* A pruned peer state and a fresh one are the same: both are the default  *)
(* state updateState creates.  'suspect' and 'recovered' events are never  *)
(* read, so only 'dead' events are kept.  Node ids are numbers, ordered as *)
(* the ids are.                                                            *)
(***************************************************************************)
EXTENDS Integers, FiniteSets

CONSTANTS
    Nodes,        \* node ids
    K,            \* ring neighbours a monitor probes (DefaultNeighbors, 3)
    SuspectAfter, \* misses until a node is suspect (3)
    DeadAfter,    \* misses until a node is dead (12)
    MinQuorum,    \* observers that must report a node dead (2)
    Watched,      \* nodes whose probes are followed; the others always answer
    Lossy,        \* <<m, t>>: m's probes of t may fail although t is up
    QueriesFail,  \* whether database calls of a goroutine may fail
    Lapsing,      \* nodes whose last_seen may grow older than two minutes
    MaxCrashes    \* bound on the crashes of a node

ASSUME MonitorAssumption ==
    /\ Nodes \subseteq Nat /\ IsFiniteSet(Nodes)
    /\ K \in Nat \ {0}
    /\ SuspectAfter \in Nat \ {0}
    /\ DeadAfter \in Nat
    /\ SuspectAfter < DeadAfter
    /\ MinQuorum \in Nat \ {0}
    /\ Watched \subseteq Nodes
    /\ Lossy \subseteq Nodes \X Watched
    /\ QueriesFail \in BOOLEAN
    /\ Lapsing \subseteq Nodes
    /\ MaxCrashes \in [Nodes -> Nat]

VARIABLES
    up,         \* whether the node's process runs
    crashes,    \* how often it has crashed
    dns,        \* dns_nodes.status
    seen,       \* whether dns_nodes.last_seen is less than two minutes old
    grace,      \* whether the node's monitor is in its startup grace period
    neighbors,  \* the nodes probed in the monitor's current round
    task,       \* where the goroutine of each probe stands
    miss,       \* peerState.missCount, up to DeadAfter
    health,     \* peerState.status
    reported,   \* peerState.reportedDead
    deadEvents, \* <<observer, target>> of the 'dead' events of the window
    held,       \* observers whose events a check under way still sees
    handlers,   \* recovery goroutines started and not yet done
    recovery,   \* monitors that called onDeadFn in this outage of the node
    recovered   \* whether onRecoveredFn was called since the last onDeadFn

peerVars == <<miss, health, reported>>
nodeVars == <<up, crashes, dns, seen>>
vars == <<up, crashes, dns, seen, grace, neighbors, task, miss, health,
          reported, deadEvents, held, handlers, recovery, recovered>>

----------------------------------------------------------------------------
(* The ring *)

\* getRingNeighbors: the rows of dns_nodes that make up the ring.
Ring == {n \in Nodes : dns[n] = "active" /\ seen[n]}

\* The index of a node in the sorted ring.
Index(ring, n) == Cardinality({u \in ring : u < n})

\* Mutant: the walk around the ring starts at the node itself.
RingNeighborsFromSelf(ring, self, k) ==
    LET len   == Cardinality(ring)
        count == IF k > len - 1 THEN len - 1 ELSE k
    IN  {t \in ring : /\ len > 1
                      /\ self \in ring
                      /\ \E i \in 0 .. count - 1 :
                            Index(ring, t) = (Index(ring, self) + i) % len}

\* The k nodes after self, wrapping; none when self is alone or unknown.
RingNeighbors(ring, self, k) ==
    LET len   == Cardinality(ring)
        count == IF k > len - 1 THEN len - 1 ELSE k
    IN  {t \in ring : /\ len > 1
                      /\ self \in ring
                      /\ \E i \in 1 .. count :
                            Index(ring, t) = (Index(ring, self) + i) % len}

----------------------------------------------------------------------------
(* State *)

Statuses == {"healthy", "suspect", "dead"}

\* "probe": about to probe; "dead": about to insert the 'dead' event;
\* "count", "lowest": about to run the queries of checkQuorum.
Tasks == {"none", "probe", "dead", "count", "lowest"}

Handlers == [kind : {"dead", "recovered"}, by : Nodes, node : Watched]

TypeOK ==
    /\ up \in [Nodes -> BOOLEAN]
    /\ crashes \in [Nodes -> Nat]
    /\ dns \in [Nodes -> {"active", "inactive", "offline"}]
    /\ seen \in [Nodes -> BOOLEAN]
    /\ grace \in [Nodes -> BOOLEAN]
    /\ neighbors \in [Nodes -> SUBSET Nodes]
    /\ task \in [Nodes -> [Watched -> Tasks]]
    /\ miss \in [Nodes -> [Watched -> 0 .. DeadAfter]]
    /\ health \in [Nodes -> [Watched -> Statuses]]
    /\ reported \in [Nodes -> [Watched -> BOOLEAN]]
    /\ deadEvents \subseteq Nodes \X Watched
    /\ held \in [Nodes -> [Watched -> SUBSET Nodes]]
    /\ handlers \subseteq Handlers
    /\ recovery \in [Watched -> SUBSET Nodes]
    /\ recovered \in [Watched -> BOOLEAN]

\* NewMonitor on every node of a network that has just been started.
Init ==
    /\ up = [n \in Nodes |-> TRUE]
    /\ crashes = [n \in Nodes |-> 0]
    /\ dns = [n \in Nodes |-> "active"]
    /\ seen = [n \in Nodes |-> TRUE]
    /\ grace = [n \in Nodes |-> TRUE]
    /\ neighbors = [n \in Nodes |-> {}]
    /\ task = [m \in Nodes |-> [t \in Watched |-> "none"]]
    /\ miss = [m \in Nodes |-> [t \in Watched |-> 0]]
    /\ health = [m \in Nodes |-> [t \in Watched |-> "healthy"]]
    /\ reported = [m \in Nodes |-> [t \in Watched |-> FALSE]]
    /\ deadEvents = {}
    /\ held = [m \in Nodes |-> [t \in Watched |-> {}]]
    /\ handlers = {}
    /\ recovery = [t \in Watched |-> {}]
    /\ recovered = [t \in Watched |-> TRUE]

----------------------------------------------------------------------------
(* A round of a monitor *)

\* probeRound starts a goroutine for every ring neighbour; without any (or
\* when the query fails) it returns at once, without pruning.
StartRound(m) ==
    LET nb == RingNeighbors(Ring, m, K)
    IN  /\ up[m] /\ neighbors[m] = {} /\ nb # {}
        /\ neighbors' = [neighbors EXCEPT ![m] = nb]
        /\ task' = [task EXCEPT ![m] = [t \in Watched |->
                        IF t \in nb THEN "probe" ELSE "none"]]
        /\ UNCHANGED <<nodeVars, grace, peerVars, deadEvents, held, handlers,
                       recovery, recovered>>

\* The probe of t succeeds: updateState(t, TRUE).
ProbeOk(m, t) ==
    /\ task[m][t] = "probe" /\ up[t]
    /\ task' = [task EXCEPT ![m][t] = "none"]
    /\ miss' = [miss EXCEPT ![m][t] = 0]
    /\ health' = [health EXCEPT ![m][t] = "healthy"]
    /\ reported' = [reported EXCEPT ![m][t] = FALSE]
    /\ IF health[m][t] = "healthy" THEN UNCHANGED <<handlers, recovered>>
       ELSE /\ handlers' = handlers \cup
                  {[kind |-> "recovered", by |-> m, node |-> t]}
            /\ recovered' = [recovered EXCEPT ![t] = TRUE]
    /\ UNCHANGED <<nodeVars, grace, neighbors, deadEvents, held, recovery>>

\* Mutant: the misses of a suspect node are not counted any more.
MissesUntilSuspect(m, t) ==
    IF health[m][t] = "suspect" THEN miss[m][t] ELSE miss[m][t] + 1

\* The count of misses after one more, as far as the code tells them apart.
Misses(m, t) == IF miss[m][t] < DeadAfter THEN miss[m][t] + 1 ELSE DeadAfter

InStartupGrace(m) == grace[m]

\* The miss that makes a node dead, unless it was reported before.
ReachesDead(m, t) == Misses(m, t) >= DeadAfter /\ ~reported[m][t]

\* The miss that makes a node suspect.
ReachesSuspect(m, t) ==
    Misses(m, t) >= SuspectAfter /\ health[m][t] = "healthy"

\* updateState(t, FALSE) under the monitor's lock.
Miss(m, t) ==
    /\ miss' = [miss EXCEPT ![m][t] = Misses(m, t)]
    /\ \/ /\ ReachesDead(m, t) /\ InStartupGrace(m)
          /\ health' = [health EXCEPT ![m][t] = "suspect"]
          /\ task' = [task EXCEPT ![m][t] = "none"]
          /\ UNCHANGED reported
       \/ /\ ReachesDead(m, t) /\ ~InStartupGrace(m)
          /\ health' = [health EXCEPT ![m][t] = "dead"]
          /\ reported' = [reported EXCEPT ![m][t] = TRUE]
          /\ task' = [task EXCEPT ![m][t] = "dead"]
       \/ /\ ~ReachesDead(m, t)
          /\ health' = [health EXCEPT ![m][t] =
                           IF ReachesSuspect(m, t) THEN "suspect" ELSE @]
          /\ task' = [task EXCEPT ![m][t] = "none"]
          /\ UNCHANGED reported

\* The probe of t fails.
ProbeMiss(m, t) ==
    /\ task[m][t] = "probe"
    /\ ~up[t] \/ <<m, t>> \in Lossy
    /\ Miss(m, t)
    /\ UNCHANGED <<nodeVars, grace, neighbors, deadEvents, held, handlers, recovery,
                   recovered>>

\* writeEvent of a 'dead' event; a failed insert is only logged.
WriteDeadEvent(m, t) ==
    /\ task[m][t] = "dead"
    /\ \/ deadEvents' = deadEvents \cup {<<m, t>>}
       \/ QueriesFail /\ UNCHANGED deadEvents
    /\ task' = [task EXCEPT ![m][t] = "count"]
    /\ UNCHANGED <<nodeVars, grace, neighbors, peerVars, held, handlers,
                   recovery, recovered>>

\* The observers with a 'dead' event about t in the quorum window.
DeadObservers(t) == {o \in Nodes : <<o, t>> \in deadEvents}

\* The observers m's check of t finds: both of its queries use the cutoff
\* with which it began.
SeenObservers(m, t) == DeadObservers(t) \cup held[m][t]

\* Mutant: one observer short of the quorum is enough.
QuorumOffByOne(observers) == Cardinality(observers) >= MinQuorum - 1

Quorum(observers) == Cardinality(observers) >= MinQuorum

\* m's check of t goes on at `next', or ends: its cutoff is forgotten.
Check(m, t, next) ==
    /\ task' = [task EXCEPT ![m][t] = next]
    /\ held' = IF next = "none" THEN [held EXCEPT ![m][t] = {}] ELSE held

\* The first query of checkQuorum: go on only with a quorum.
CountObservers(m, t) ==
    /\ task[m][t] = "count"
    /\ Check(m, t, IF Quorum(SeenObservers(m, t)) THEN "lowest" ELSE "none")
    /\ UNCHANGED <<nodeVars, grace, neighbors, peerVars, deadEvents, handlers,
                   recovery, recovered>>

\* Mutant: whoever finds the quorum acts on it.
ResponsibleWhoever(m, t) == m \in SeenObservers(m, t)

\* m is the lowest observer there is.
Responsible(m, t) ==
    /\ m \in SeenObservers(m, t)
    /\ \A o \in SeenObservers(m, t) : m <= o

\* The second query: only the lowest observer calls onDeadFn, which starts
\* HandleDeadNode in a goroutine.
CheckLowest(m, t) ==
    /\ task[m][t] = "lowest"
    /\ Check(m, t, "none")
    /\ IF Responsible(m, t)
       THEN /\ recovery' = [recovery EXCEPT ![t] = @ \cup {m}]
            /\ recovered' = [recovered EXCEPT ![t] = FALSE]
            /\ handlers' = handlers \cup
                  {[kind |-> "dead", by |-> m, node |-> t]}
       ELSE UNCHANGED <<recovery, recovered, handlers>>
    /\ UNCHANGED <<nodeVars, grace, neighbors, peerVars, deadEvents>>

\* A query of checkQuorum fails: the check is given up.
CheckFails(m, t) ==
    /\ QueriesFail /\ task[m][t] \in {"count", "lowest"}
    /\ Check(m, t, "none")
    /\ UNCHANGED <<nodeVars, grace, neighbors, peerVars, deadEvents, handlers,
                   recovery, recovered>>

\* pruneStaleState: only the nodes probed in this round keep their state.
Pruned(m, field, fresh) ==
    [t \in Watched |-> IF t \in neighbors[m] THEN field[m][t] ELSE fresh]

\* All goroutines have returned: the round ends.
EndRound(m) ==
    /\ up[m] /\ neighbors[m] # {}
    /\ \A t \in Watched : task[m][t] = "none"
    /\ neighbors' = [neighbors EXCEPT ![m] = {}]
    /\ miss' = [miss EXCEPT ![m] = Pruned(m, miss, 0)]
    /\ health' = [health EXCEPT ![m] = Pruned(m, health, "healthy")]
    /\ reported' = [reported EXCEPT ![m] = Pruned(m, reported, FALSE)]
    /\ UNCHANGED <<nodeVars, grace, task, deadEvents, held, handlers, recovery,
                   recovered>>

\* Five minutes after its start a monitor leaves its grace period.
EndGrace(m) ==
    /\ up[m] /\ grace[m]
    /\ grace' = [grace EXCEPT ![m] = FALSE]
    /\ UNCHANGED <<nodeVars, neighbors, task, peerVars, deadEvents, held, handlers,
                   recovery, recovered>>

\* A 'dead' event leaves the quorum window: the checks that begin from now
\* on do not see it, those under way have an older cutoff.
EventExpires(o, t) ==
    /\ <<o, t>> \in deadEvents
    /\ deadEvents' = deadEvents \ {<<o, t>>}
    /\ held' = [m \in Nodes |-> [u \in Watched |->
                  IF u = t /\ task[m][t] \in {"count", "lowest"}
                  THEN held[m][u] \cup {o} ELSE held[m][u]]]
    /\ UNCHANGED <<nodeVars, grace, neighbors, task, peerVars, handlers,
                   recovery, recovered>>

----------------------------------------------------------------------------
(* The nodes and the recovery *)

\* A crash loses the monitor's memory and its goroutines.
Crash(n) ==
    /\ up[n] /\ crashes[n] < MaxCrashes[n]
    /\ up' = [up EXCEPT ![n] = FALSE]
    /\ crashes' = [crashes EXCEPT ![n] = @ + 1]
    /\ neighbors' = [neighbors EXCEPT ![n] = {}]
    /\ task' = [task EXCEPT ![n] = [t \in Watched |-> "none"]]
    /\ miss' = [miss EXCEPT ![n] = [t \in Watched |-> 0]]
    /\ health' = [health EXCEPT ![n] = [t \in Watched |-> "healthy"]]
    /\ reported' = [reported EXCEPT ![n] = [t \in Watched |-> FALSE]]
    /\ held' = [held EXCEPT ![n] = [t \in Watched |-> {}]]
    /\ handlers' = {h \in handlers : h.by # n}
    /\ UNCHANGED <<dns, seen, grace, deadEvents, recovery, recovered>>

\* registerDNSNode and NewMonitor at the start of a node.
Restart(n) ==
    /\ ~up[n]
    /\ up' = [up EXCEPT ![n] = TRUE]
    /\ dns' = [dns EXCEPT ![n] = "active"]
    /\ seen' = [seen EXCEPT ![n] = TRUE]
    /\ grace' = [grace EXCEPT ![n] = TRUE]
    /\ recovery' = [t \in Watched |-> IF t = n THEN {} ELSE recovery[t]]
    /\ UNCHANGED <<crashes, neighbors, task, peerVars, deadEvents, held, handlers,
                   recovered>>

\* updateDNSHeartbeat
Heartbeat(n) ==
    /\ up[n] /\ ~seen[n]
    /\ seen' = [seen EXCEPT ![n] = TRUE]
    /\ UNCHANGED <<up, crashes, dns, grace, neighbors, task, peerVars,
                   deadEvents, held, handlers, recovery, recovered>>

\* Two minutes pass without a heartbeat that reaches the database.
LastSeenLapses(n) ==
    /\ n \in Lapsing /\ seen[n]
    /\ seen' = [seen EXCEPT ![n] = FALSE]
    /\ UNCHANGED <<up, crashes, dns, grace, neighbors, task, peerVars,
                   deadEvents, held, handlers, recovery, recovered>>

\* cleanupStaleNodeRecords, run by any node that is up.
CleanupStaleNode(n) ==
    /\ dns[n] = "active" /\ ~seen[n]
    /\ \E o \in Nodes : up[o]
    /\ dns' = [dns EXCEPT ![n] = "inactive"]
    /\ UNCHANGED <<up, crashes, seen, grace, neighbors, task, peerVars,
                   deadEvents, held, handlers, recovery, recovered>>

\* HandleDeadNode marks the node offline; a failure is only logged.
HandleDeadNode(h) ==
    /\ h.kind = "dead"
    /\ \/ dns' = [dns EXCEPT ![h.node] = "offline"]
       \/ QueriesFail /\ UNCHANGED dns
    /\ handlers' = handlers \ {h}
    /\ UNCHANGED <<up, crashes, seen, grace, neighbors, task, peerVars,
                   deadEvents, held, recovery, recovered>>

\* HandleRecoveredNode marks the node active again, unless it cannot read
\* the node's assignments or write its status.
HandleRecoveredNode(h) ==
    /\ h.kind = "recovered"
    /\ \/ dns' = [dns EXCEPT ![h.node] = "active"]
       \/ QueriesFail /\ UNCHANGED dns
    /\ handlers' = handlers \ {h}
    /\ UNCHANGED <<up, crashes, seen, grace, neighbors, task, peerVars,
                   deadEvents, held, recovery, recovered>>

----------------------------------------------------------------------------

\* The steps of m's goroutine for t.
Goroutine(m, t) ==
    \/ ProbeOk(m, t)        \/ ProbeMiss(m, t)
    \/ WriteDeadEvent(m, t) \/ CountObservers(m, t)
    \/ CheckLowest(m, t)    \/ CheckFails(m, t)

Next ==
    \/ \E m \in Nodes : StartRound(m) \/ EndRound(m) \/ EndGrace(m)
    \/ \E m \in Nodes, t \in Watched : Goroutine(m, t) \/ EventExpires(m, t)
    \/ \E n \in Nodes : \/ Crash(n)     \/ Restart(n)
                        \/ Heartbeat(n) \/ LastSeenLapses(n)
                        \/ CleanupStaleNode(n)
    \/ \E h \in handlers : HandleDeadNode(h) \/ HandleRecoveredNode(h)

Spec == Init /\ [][Next]_vars

\* The ticker starts rounds and probes, queries and handlers return: every
\* one of them has a timeout.  Nothing is assumed of crashes, restarts and
\* lapses; a goroutine whose queries may fail may see all of them fail.
FairSpec ==
    /\ Spec
    /\ \A m \in Nodes :
          /\ WF_vars(StartRound(m)) /\ WF_vars(EndRound(m))
          /\ WF_vars(EndGrace(m))   /\ WF_vars(Heartbeat(m))
          /\ \A t \in Watched : WF_vars(Goroutine(m, t))
    /\ \A n \in Nodes, t \in Watched, k \in {"dead", "recovered"} :
          WF_vars(/\ [kind |-> k, by |-> n, node |-> t] \in handlers
                  /\ \/ HandleDeadNode([kind |-> k, by |-> n, node |-> t])
                     \/ HandleRecoveredNode([kind |-> k, by |-> n, node |-> t]))

----------------------------------------------------------------------------
(* Safety *)

\* The three fields of a peer state agree: the status says how many misses
\* there are, and a 'dead' event is due exactly for a dead node.  So the
\* branch of updateState that turns a node suspect during the grace period
\* without calling onSuspectFn is never taken.
PeerStateConsistent ==
    \A m \in Nodes, t \in Watched :
        /\ health[m][t] = "healthy" => miss[m][t] < SuspectAfter
        /\ health[m][t] # "healthy" => miss[m][t] >= SuspectAfter
        /\ health[m][t] = "dead" => miss[m][t] = DeadAfter
        /\ reported[m][t] <=> health[m][t] = "dead"

\* "During this period, nodes can be marked suspect but never dead": a
\* monitor in its startup grace period holds no node for dead.
GraceHoldsNobodyDead ==
    \A m \in Nodes, t \in Watched : health[m][t] = "dead" => ~grace[m]

\* A node that never went down and that fewer than MinQuorum monitors fail
\* to reach is never recovered from, however long they fail to reach it and
\* however often they restart: one monitor's broken link kills nobody.
NoFalseDeath ==
    \A t \in Watched :
        /\ crashes[t] = 0
        /\ Cardinality({m \in Nodes : <<m, t>> \in Lossy}) < MinQuorum
        => recovery[t] = {}

\* Every node of the ring is probed by min(K, n - 1) others, none by itself,
\* whoever has left the ring.
RingCovered ==
    \A t \in Ring :
        LET observers == {m \in Nodes : t \in RingNeighbors(Ring, m, K)}
            others    == Cardinality(Ring) - 1
        IN  /\ t \notin observers
            /\ Cardinality(observers) = IF K > others THEN others ELSE K

\* "Only the lowest-ID observer triggers recovery to prevent duplicate
\* actions", as far as it is so: however the reports, the two queries of the
\* checks, expiring events and restarting monitors interleave, an outage is
\* recovered from by at most one monitor more than there are observers to
\* spare, hence by one alone where the others just make a quorum, and the
\* node itself is never among them.
RecoveriesBounded ==
    \A t \in Watched : recovery[t] # {} =>
        /\ t \notin recovery[t]
        /\ Cardinality(recovery[t]) <= 1 + Cardinality(Nodes \ {t}) - MinQuorum

\* The comment taken at its word: an outage of a node is recovered from once.
RecoveredFromOnce == \A t \in Watched : Cardinality(recovery[t]) <= 1

----------------------------------------------------------------------------
(* Liveness *)

\* A node that goes down and stays down is eventually reported dead by every
\* monitor that is up and probes it.
DownIsReported ==
    \A t \in Watched :
        ~up[t] ~> \/ up[t] \/ t \notin Ring
                  \/ \A m \in Nodes :
                        up[m] /\ t \in RingNeighbors(Ring, m, K) => reported[m][t]

\* "The callback [is] invoked when a node is confirmed dead by quorum": once
\* a quorum of monitors holds a node for dead, onDeadFn is called for it.
QuorumIsActedOn ==
    \A t \in Watched :
        Quorum(DeadObservers(t)) ~>
            up[t] \/ ~Quorum(DeadObservers(t)) \/ recovery[t] # {}

\* "callback invoked when a previously suspect or dead node transitions back
\* to healthy": a node that is up again after its death was confirmed is
\* eventually reported recovered.
ReturnIsNoticed ==
    \A t \in Watched : ~recovered[t] ~> recovered[t] \/ ~up[t]
=============================================================================
