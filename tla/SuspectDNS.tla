----------------------------- MODULE SuspectDNS -----------------------------
(***************************************************************************)
(* The DNS records of the namespaces while nodes are suspected:            *)
(* HandleSuspectNode and HandleSuspectRecovery                             *)
(* (core/pkg/namespace/cluster_recovery.go) on the records of              *)
(* core/pkg/namespace/dns_manager.go.                                      *)
(*                                                                         *)
(* Every node's health monitor suspects nodes and sees them again on its   *)
(* own.  Each callback starts its handler in a goroutine                   *)
(* (core/pkg/gateway/gateway.go), so handlers of one monitor and of        *)
(* several run side by side.  A handler updates the main and the wildcard  *)
(* record of a namespace in two statements whose errors are dropped.       *)
(* HandleSuspectNode takes a lock "suspect:node" of its own process;       *)
(* HandleSuspectRecovery takes none.                                       *)
(*                                                                         *)
(* The members of the clusters do not change here: replacing a dead node   *)
(* is the business of the cluster recovery.                                *)
(***************************************************************************)
EXTENDS Integers, FiniteSets

CONSTANTS
    Monitors,        \* processes with a health monitor
    Members,         \* nodes of the namespace clusters, each with one address
    Namespaces,
    NoNamespace,     \* not a namespace
    Hosts,           \* the nodes of each namespace's cluster
    Suspectable,     \* nodes whose probes may fail
    StatementsFail,  \* whether a database call may fail
    MaxFlaps,        \* bound: how often a monitor suspects a node
    MaxForgets       \* bound: how often a monitor forgets a suspicion

ASSUME SuspectAssumption ==
    /\ NoNamespace \notin Namespaces
    /\ Hosts \in [Namespaces -> SUBSET Members]
    /\ Suspectable \subseteq Members
    /\ StatementsFail \in BOOLEAN
    /\ MaxFlaps \in Nat
    /\ MaxForgets \in Nat

\* Goroutines; round is the suspicion of the monitor that started it.
SuspectHandlers == [kind : {"suspect", "recovery"}, by : Monitors, node : Members,
                    round : 1 .. MaxFlaps]

VARIABLES
    sees,     \* a monitor's opinion of a node
    flaps,    \* how often the monitor has suspected it
    forgets,  \* how many suspicions have been forgotten
    active,   \* the active records, <<namespace, node, fqdn>>
    pc,       \* where a handler stands
    todo,     \* the namespaces it has not come to yet
    current,  \* the namespace it is updating
    clean,    \* recovery handlers that met no failing statement and that no
              \* suspect handler of the node runs beside
    raced     \* history: namespaces for which handlers of two nodes were between
              \* count and update at once, and no recovery has been since

suspectVars == <<sees, flaps, forgets, active, pc, todo, current, clean, raced>>

Fqdns == {"main", "wildcard"}

\* CreateNamespaceRecords: both records of every node of the cluster.
Records == {r \in Namespaces \X Members \X Fqdns : r[2] \in Hosts[r[1]]}

\* getClustersByNodeID
ClustersByNode(n) == {ns \in Namespaces : n \in Hosts[ns]}

Running == {"loop", "main", "wildcard"}

SuspectTypeOK ==
    /\ sees \in [Monitors -> [Members -> {"healthy", "suspect"}]]
    /\ flaps \in [Monitors -> [Members -> 0 .. MaxFlaps]]
    /\ forgets \in 0 .. MaxForgets
    /\ active \subseteq Records
    /\ pc \in [SuspectHandlers -> {"idle", "start", "done"} \cup Running]
    /\ todo \in [SuspectHandlers -> SUBSET Namespaces]
    /\ current \in [SuspectHandlers -> Namespaces \cup {NoNamespace}]
    /\ clean \subseteq SuspectHandlers /\ raced \subseteq Namespaces

SuspectInit ==
    /\ sees = [m \in Monitors |-> [n \in Members |-> "healthy"]]
    /\ flaps = [m \in Monitors |-> [n \in Members |-> 0]]
    /\ forgets = 0
    /\ active = Records
    /\ pc = [h \in SuspectHandlers |-> "idle"]
    /\ todo = [h \in SuspectHandlers |-> {}]
    /\ current = [h \in SuspectHandlers |-> NoNamespace]
    /\ clean = {} /\ raced = {}

----------------------------------------------------------------------------
(* The monitors *)

Handler(kind, m, n, round) ==
    [kind |-> kind, by |-> m, node |-> n, round |-> round]

\* A monitor misses enough probes: onSuspectFn starts HandleSuspectNode.
Suspect(m, n) ==
    /\ n \in Suspectable /\ sees[m][n] = "healthy" /\ flaps[m][n] < MaxFlaps
    /\ sees' = [sees EXCEPT ![m][n] = "suspect"]
    /\ flaps' = [flaps EXCEPT ![m][n] = @ + 1]
    /\ pc' = [pc EXCEPT ![Handler("suspect", m, n, flaps[m][n] + 1)] = "start"]
    /\ clean' = {h \in clean : h.node # n}
    /\ UNCHANGED <<forgets, active, todo, current, raced>>

\* A suspect handler of the node that has not returned.
SuspectPending(n) ==
    \E h \in SuspectHandlers : /\ h.kind = "suspect" /\ h.node = n
                               /\ pc[h] \in {"start"} \cup Running

\* A probe succeeds again: onRecoveredFn starts HandleSuspectRecovery.
Recover(m, n) ==
    LET h == Handler("recovery", m, n, flaps[m][n])
    IN  /\ sees[m][n] = "suspect"
        /\ sees' = [sees EXCEPT ![m][n] = "healthy"]
        /\ pc' = [pc EXCEPT ![h] = "start"]
        /\ clean' = IF SuspectPending(n) THEN clean ELSE clean \cup {h}
        /\ UNCHANGED <<flaps, forgets, active, todo, current, raced>>

\* The suspected node leaves the ring (two minutes without heartbeat) or the
\* ring shifts: pruneStaleState drops the state, and the node is a fresh,
\* healthy peer when it comes back.
Forget(m, n) ==
    /\ sees[m][n] = "suspect" /\ forgets < MaxForgets
    /\ sees' = [sees EXCEPT ![m][n] = "healthy"]
    /\ forgets' = forgets + 1
    /\ UNCHANGED <<flaps, active, pc, todo, current, clean, raced>>

----------------------------------------------------------------------------
(* The handlers *)

\* Whether another handler of the process holds the lock "suspect:node".
Locked(h) == \E g \in SuspectHandlers : /\ g.kind = "suspect" /\ g.by = h.by
                                        /\ g.node = h.node /\ pc[g] \in Running

\* HandleSuspectNode takes the lock or returns, and reads the clusters and
\* the address of the node.
BeginSuspect(h) ==
    /\ h.kind = "suspect" /\ pc[h] = "start"
    /\ IF Locked(h)
       THEN pc' = [pc EXCEPT ![h] = "done"] /\ UNCHANGED todo
       ELSE /\ pc' = [pc EXCEPT ![h] = "loop"]
            /\ todo' = [todo EXCEPT ![h] = ClustersByNode(h.node)]
    /\ UNCHANGED <<sees, flaps, forgets, active, current, clean, raced>>

BeginRecovery(h) ==
    /\ h.kind = "recovery" /\ pc[h] = "start"
    /\ pc' = [pc EXCEPT ![h] = "loop"]
    /\ todo' = [todo EXCEPT ![h] = ClustersByNode(h.node)]
    /\ UNCHANGED <<sees, flaps, forgets, active, current, clean, raced>>

\* One of the reads at the beginning fails: the handler returns.
BeginFails(h) ==
    /\ StatementsFail /\ pc[h] = "start"
    /\ pc' = [pc EXCEPT ![h] = "done"]
    /\ clean' = clean \ {h}
    /\ UNCHANGED <<sees, flaps, forgets, active, todo, current, raced>>

\* CountActiveNamespaceRecords counts the main records.
ActiveHosts(ns) == {n \in Members : <<ns, n, "main">> \in active}

\* Mutant: the last active record may be disabled.
LastRecordOffByOne(ns) == Cardinality(ActiveHosts(ns)) <= 0

\* The safety check: with at most one active record nothing is disabled.
LastRecord(ns) == Cardinality(ActiveHosts(ns)) <= 1

\* The suspect handlers between the count of a namespace and its update.
Disabling(ns) == {g \in SuspectHandlers : g.kind = "suspect" /\ pc[g] = "main" /\ current[g] = ns}

\* A round of HandleSuspectNode's loop up to the update.
CountActive(h, ns) ==
    /\ h.kind = "suspect" /\ pc[h] = "loop" /\ ns \in todo[h]
    /\ todo' = [todo EXCEPT ![h] = @ \ {ns}]
    /\ IF LastRecord(ns)
       THEN UNCHANGED <<pc, current>>
       ELSE /\ pc' = [pc EXCEPT ![h] = "main"]
            /\ current' = [current EXCEPT ![h] = ns]
    /\ raced' = IF ~LastRecord(ns) /\ \E g \in Disabling(ns) : g.node # h.node
                THEN raced \cup {ns} ELSE raced
    /\ UNCHANGED <<sees, flaps, forgets, active, clean>>

\* The count fails: the namespace is skipped.
CountFails(h, ns) ==
    /\ StatementsFail
    /\ h.kind = "suspect" /\ pc[h] = "loop" /\ ns \in todo[h]
    /\ todo' = [todo EXCEPT ![h] = @ \ {ns}]
    /\ UNCHANGED <<sees, flaps, forgets, active, pc, current, clean, raced>>

\* A round of HandleSuspectRecovery's loop up to the update.
NextNamespace(h, ns) ==
    /\ h.kind = "recovery" /\ pc[h] = "loop" /\ ns \in todo[h]
    /\ todo' = [todo EXCEPT ![h] = @ \ {ns}]
    /\ pc' = [pc EXCEPT ![h] = "main"]
    /\ current' = [current EXCEPT ![h] = ns]
    /\ UNCHANGED <<sees, flaps, forgets, active, clean, raced>>

\* Mutant: the wildcard record is disabled but never enabled again.
SetRecordMainOnly(h, fqdn) ==
    active' = IF h.kind = "suspect" THEN active \ {<<current[h], h.node, fqdn>>}
              ELSE active \cup {<<current[h], h.node, "main">>}

\* The UPDATE of DisableNamespaceRecord or EnableNamespaceRecord.
SetRecord(h, fqdn) ==
    LET r == <<current[h], h.node, fqdn>>
    IN  active' = IF h.kind = "suspect" THEN active \ {r} ELSE active \cup {r}

\* The statement takes effect, or it fails and its error is dropped.
TrySetRecord(h, fqdn) ==
    \/ SetRecord(h, fqdn) /\ UNCHANGED clean
    \/ StatementsFail /\ clean' = clean \ {h} /\ UNCHANGED active

UpdateMain(h) ==
    /\ pc[h] = "main"
    /\ pc' = [pc EXCEPT ![h] = "wildcard"]
    /\ TrySetRecord(h, "main")
    /\ raced' = IF /\ h.kind = "recovery" /\ <<current[h], h.node, "main">> \in active'
                   /\ Disabling(current[h]) = {}
                THEN raced \ {current[h]} ELSE raced
    /\ UNCHANGED <<sees, flaps, forgets, todo, current>>

UpdateWildcard(h) ==
    /\ pc[h] = "wildcard"
    /\ pc' = [pc EXCEPT ![h] = "loop"]
    /\ current' = [current EXCEPT ![h] = NoNamespace]
    /\ TrySetRecord(h, "wildcard")
    /\ UNCHANGED <<sees, flaps, forgets, todo, raced>>

\* The handler returns and frees its lock.
Finish(h) ==
    /\ pc[h] = "loop" /\ todo[h] = {}
    /\ pc' = [pc EXCEPT ![h] = "done"]
    /\ UNCHANGED <<sees, flaps, forgets, active, todo, current, clean, raced>>

----------------------------------------------------------------------------

HandlerStep(h) ==
    \/ BeginSuspect(h) \/ BeginRecovery(h) \/ BeginFails(h)
    \/ \E ns \in Namespaces :
          CountActive(h, ns) \/ CountFails(h, ns) \/ NextNamespace(h, ns)
    \/ UpdateMain(h) \/ UpdateWildcard(h) \/ Finish(h)

SuspectNext ==
    \/ \E m \in Monitors, n \in Members :
          Suspect(m, n) \/ Recover(m, n) \/ Forget(m, n)
    \/ \E h \in SuspectHandlers : HandlerStep(h)

SuspectSpec == SuspectInit /\ [][SuspectNext]_suspectVars

----------------------------------------------------------------------------
(* Properties *)

\* "Acquire per-node lock to prevent concurrent suspect handling": in one
\* process at most one HandleSuspectNode of a node is past its lock, however
\* often the node flaps while an earlier handler is still running.
OneSuspectHandler ==
    \A g, h \in SuspectHandlers :
        /\ g.kind = "suspect" /\ h.kind = "suspect"
        /\ g.by = h.by /\ g.node = h.node
        /\ pc[g] \in Running /\ pc[h] \in Running
        => g = h

\* "Safety: never disables the last active record for a namespace": a
\* namespace with a node keeps an active record.
LastRecordKept ==
    \A ns \in Namespaces : Hosts[ns] # {} => ActiveHosts(ns) # {}

\* What the count before the update gives, however many nodes are suspected by
\* however many monitors: a namespace has lost its last active record only if
\* handlers of two of its nodes had both counted before either disabled, and
\* none of its nodes has been recovered since.
LostOnlyInRace ==
    \A ns \in Namespaces \ raced : Hosts[ns] # {} => ActiveHosts(ns) # {}

\* A recovery whose statements succeed and that no suspect handler of the
\* node, of any monitor, runs beside brings back both records of all the
\* node's namespaces, whatever partial state the suspicions and the failed
\* recoveries before it left behind.
UndisturbedRecovery ==
    \A h \in clean : pc[h] = "done" =>
        \A ns \in ClustersByNode(h.node), f \in Fqdns :
            <<ns, h.node, f>> \in active

\* "If the node recovers, HandleSuspectRecovery will re-enable the records":
\* when all monitors see a node healthy and no handler for it is left, all
\* its records are active.
HealthyIsServed ==
    \A n \in Members :
        /\ \A m \in Monitors : sees[m][n] = "healthy"
        /\ \A h \in SuspectHandlers : h.node = n => pc[h] \in {"idle", "done"}
        => \A ns \in ClustersByNode(n), f \in Fqdns : <<ns, n, f>> \in active
=============================================================================
