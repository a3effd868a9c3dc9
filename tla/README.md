# Orama network: TLA+ verification

This directory holds TLA+ models of the parts of the Orama network that create a
namespace's services and keep them alive when nodes fail, and of the event machinery of
its serverless functions; the TLC configurations that check them on small instances; and
TLAPS proofs of their main safety properties for every instance. Paths
below are relative to the repository (`core/pkg/...`); line numbers are in
`PROJECT.json`, which maps every definition to the lines it models.

1. [The system](#1-the-system)
2. [The modules](#2-the-modules)
3. [The runs](#3-the-runs)
4. [The proofs](#4-the-proofs)
5. [What the checks found](#5-what-the-checks-found)
6. [What is not modelled](#6-what-is-not-modelled)
7. [Plan](#7-plan)

## 1. The system

A network is a set of nodes. Every node runs a gateway (HTTP API), an RQLite server (a
Raft-replicated SQLite database, shared by all nodes), IPFS, Olric and helpers. A user's
*namespace* gets a *cluster*: on each of a few nodes one RQLite, one Olric and one
gateway process of its own, on a block of five ports, reachable through DNS records that
CoreDNS serves from the table `dns_records`.

The nodes coordinate almost only through tables of the shared database. There are no
transactions around a whole operation: an operation is a sequence of single statements,
any of which may fail or time out, and the operations of several processes interleave
between them. Locks exist, but in the memory of one process (the map `provisioning` of the
cluster manager). That is what makes this code hard, and what the models are about.

### The core: who is alive, and what happens when somebody is not

| Component | State | Operations | Interacts with |
|---|---|---|---|
| Port allocator (`namespace/port_allocator.go`) | table `namespace_port_allocations` | `AllocatePortBlock` (check, read, pick, insert, retry), `DeallocatePortBlock`, `DeallocateAllPortBlocks` | called by provisioning, recovery and repair |
| Health monitor (`node/health/monitor.go`) | per peer: misses, status, reportedDead; table `node_health_events` | probe round, `updateState`, `writeEvent`, `checkQuorum`, `pruneStaleState` | reads the ring from `dns_nodes`; calls `onSuspectFn`, `onDeadFn`, `onRecoveredFn`, each in a goroutine of its own (`gateway/gateway.go`) |
| Node registration and DNS maintenance (`node/dns_registration.go`) | tables `dns_nodes`, `dns_records` | register, heartbeat, cleanup of stale nodes | decides who is in the ring |
| Suspect handling (`namespace/cluster_recovery.go`, `dns_manager.go`) | `is_active` of `dns_records`; lock `suspect:node` | `HandleSuspectNode`, `HandleSuspectRecovery` | started by the monitor |
| Cluster recovery (`namespace/cluster_recovery.go`, `node_selector.go`) | tables `namespace_clusters`, `namespace_cluster_nodes`, ports, records; locks `recovery:ID`, `repair:ID` | `HandleDeadNode`, `ReplaceClusterNode`, `RepairCluster`, `addNodeToCluster`, `HandleRecoveredNode` | started by the monitor, by the reconciliation loop and by operators |
| Cluster provisioning (`namespace/cluster_manager.go`) | the same tables, state files, systemd units; lock `provisioning` | `CheckNamespaceCluster`, `ProvisionNamespaceCluster`, `provisionClusterAsync` with rollback, `DeprovisionCluster`, restore at start | port allocator, DNS manager, node selector |
| WebRTC services (`namespace/cluster_manager_webrtc.go`, `..._stealth.go`) | `namespace_webrtc_config`, `webrtc_port_allocations`, TURN records, units, state files | `EnableWebRTC`, `DisableWebRTC`, stealth on and off, restore at start | a provisioned cluster; the gateways that hand out credentials |
| Reconciliation (`gateway/namespace_health.go`) | none of its own | periodic probe; the RQLite leader repairs clusters | `RepairCluster` |

What is hard in it, and what makes it correct:

- *Port allocator*: read and insert are separate statements of concurrent callers. Two
  namespaces never share a port on a node, a node never hosts more than it has room
  for, a call below capacity finds a block, every call returns.
- *Health monitor*: every node decides for itself, from lossy probes, in memory that is
  lost in a restart and pruned when the ring changes; a death needs a quorum that is
  counted in two queries while other monitors write. A running node is not declared
  dead because of fewer than a quorum of bad links; a node that is down is reported;
  a confirmed death is acted on, once; a return is noticed.
- *Suspect handling*: count and update are separate statements, handlers of suspicion
  and return run side by side. A namespace keeps an active record; a healthy node's
  records are served.
- *Cluster recovery*: some fifteen statements per replacement, errors that are logged
  and ignored, several processes, locks that do not see each other. Surviving members
  are not touched; whoever counts as running holds its ports; a replacement is complete;
  a cluster that is declared ready has no dead member left.

- *Provisioning*: a request starts a goroutine that works for minutes under one context,
  on several nodes, and may fail at any of its steps; removals take no lock; nodes crash
  and restore from files that are older than the tables. What is ready is served, what
  failed is rolled back, what was removed stays removed.
- *WebRTC*: a dozen steps with errors that are logged or cleaned up, a secret in four
  places (row, file, gateway, TURN server), toggles. What is enabled is served with the
  current secret, also after a reboot; disabling clears up whatever went before.

### Events: what makes a serverless function run

| Component | State | Operations | Interacts with |
|---|---|---|---|
| Persistent WebSocket functions (`serverless/persistent/`, `gateway/handlers/serverless/ws_persistent_handler.go`) | the slot counter, instances, their channels | `Acquire`, `Release`, `Open`, `SubmitFrame`, `Run`, `Close`, `ShutdownAll` | the WASM runtime; auth.refresh |
| PubSub subscriptions (`pubsub/subscriptions.go`) | per topic: references, handlers | `Subscribe`, `Unsubscribe` | WebSocket clients, the trigger dispatcher |
| PubSub triggers (`serverless/triggers/`) | `function_pubsub_triggers`, `subscribedKeys`, local and Olric claims | `Refresh`, `Dispatch`, `DispatchLocalPublish` | the subscriptions, the HTTP publish handler, functions that publish |
| Cron triggers (`serverless/triggers/cron_*.go`) | `function_cron_triggers` | `Add`, `Remove`, `tick`, `dispatch`, `MarkRun` | every gateway polls the same rows |

- *Sockets*: three goroutines share an instance that is not safe for concurrent use, and
  two of them may close it. Slots balance, nothing is left behind, frames stay in order
  and never run under an identity older than the one they were sent with.
- *Subscriptions*: look-up and use are two critical sections; refreshes apply stale lists.
  Whoever is subscribed gets its messages; the dispatcher comes to follow the store.
- *Triggers*: a publish arrives several times on several gateways. A function is invoked
  once per publish and not dropped.
- *Cron*: all gateways race for every due row, with different clocks. A run is invoked
  once, a late result does not overwrite a newer one, a due row is taken.

The hazards the properties are about, each at its line, are under `hazards` in
`PROJECT.json`; those that the code is exposed to and no property that holds covers are in
sections 5 and 6.

### The rest of the repository

| Component | State | Hard behaviour | Here |
|---|---|---|---|
| Node lifecycle (`node/lifecycle/manager.go`) | joining, active, draining, maintenance | transitions and announcements | planned |
| Deployments (`deployments/`: health checker, ports, replicas) | replicas, home nodes, ports | as for clusters | planned |
| Authentication (`gateway/auth/`) | challenges, refresh tokens | rotation with a grace window | planned |
| Circuit breaker, rate limiter (`gateway/`) | per-target state, token buckets | half-open probe; real time | breaker planned |
| RQLite management (`rqlite/`) | process, peers, voters | join, watchdog, voter reconciliation | planned in part; Raft is rqlite's |
| Serverless engine, registry, job queue (`serverless/`) | caches, jobs | aggregation windows | candidate |
| Publish/subscribe beyond subscriptions, discovery, IPFS and Olric clients | libraries' | the libraries' | no |
| Push, TURN, SNI router, SFU, CoreDNS plugin | connections, caches | I/O | no |
| Client library, SDKs, CLI, installer, inspector, website | none of the network's | sequential tooling | no |
| OramaOS agent (`os/agent`), vault guardian (`vault/`) | A/B partitions; shares | update roll-back; storage | candidates |

## 2. The modules

Each component has a specification and an `MC` module that gives it small instances. The
proofs about it are in a `Proofs` module; `NodeHealthProofs` has those of `HealthMonitor`
and `SuspectDNS`, and `ServerlessProofs` those of `PersistentSockets` and
`TriggerDispatch`. For that the specifications of `SuspectDNS` and `TriggerDispatch` have
names of their own (`SuspectSpec`, `SuspectTypeOK`, `DispatchSpec`, `DispatchTypeOK` and so
on) where the other modules say `Spec` and `TypeOK`. One atomic step is one database
statement, one probe or one call into another component; reads go to the Raft leader
(`level=weak`), so a statement sees all committed ones.

### PortAllocator, PortLedger

`table` is `namespace_port_allocations`; the other variables are the locals of each
concurrent `AllocatePortBlock` call: `phase` (the statement it is about to execute),
`node`, `cluster`, `scope` (how `tryAllocatePortBlock` decided to look up the blocks in
use: by address or by node), `block`, `attempt`. `Conflicts` is the two UNIQUE keys of
`core/migrations/010_namespace_clusters.sql`. With `QueriesFail` every statement may
fail, an insert also after it was applied; `ReadBlocksFails` keeps what the code does
then: two of the three branches assign the error to a shadowed variable
(`port_allocator.go:115`, `:124`) and go on as if no block were in use. A block is its
index, ports are computed from it by `PortsOf`. Row ids, timestamps and back-off delays
are left out, and node addresses are constant.

`PortLedger` is the abstract specification: a ledger that grants a free block to a
cluster that has none on the node, and takes blocks back cluster by cluster.
`LedgerSpec` says that the allocator implements it.

### HealthMonitor

Variables per monitor and watched node: `miss`, `health`, `reported` (the peer state),
`task` (where the probe's goroutine stands), `neighbors` (the nodes of the round),
`grace`; shared: `deadEvents` (`node_health_events` inside the quorum window), `dns` and
`seen` (`dns_nodes.status`, freshness of `last_seen`); `handlers` are the recovery
goroutines. `recovery` and `recovered` are history variables for the properties.
`StartRound`/`EndRound` are `probeRound` with its wait for all goroutines and
`pruneStaleState`; `ProbeOk`, `ProbeMiss` are `updateState`; `WriteDeadEvent`,
`CountObservers`, `CheckLowest` are the insert and the two queries of `checkQuorum`. Both
queries use the cutoff that was computed before the first, so `held` keeps, for a check
under way, the observers whose events expire in between (`SeenObservers`). The recovery is
triggered by a monitor that is itself the lowest of the observers it sees (`Responsible`,
the MIN of the second query); one whose own insert failed leaves it to others.
`RingNeighbors` is the pure function of the same name. `Crash`, `Restart`, `Heartbeat`,
`LastSeenLapses`, `CleanupStaleNode`, `HandleDeadNode`, `HandleRecoveredNode` are the
parts of `dns_registration.go` and `cluster_recovery.go` that decide who is in the ring.
Time is abstracted: a lapse, the end of a grace period and the expiry of an event may
happen at any moment. Only the nodes in `Watched` may fail to answer. 'suspect' and
'recovered' events are written and never read, so they are left out.

### SuspectDNS

`sees` is each monitor's opinion of each node; `active` the active records, main and
wildcard separately; `pc`, `todo`, `current` the state of each handler. A handler is a
record (kind, process, node, how often the process had suspected the node), so handlers of
old suspicions can still run beside new ones. Counting the active records and disabling are
two steps; `raced` is a history variable: the namespaces for which handlers of two nodes
stood between the two at once, until one of their nodes is recovered. `Forget` is
`pruneStaleState` or a restart dropping a suspicion. `clean` is a history variable: the
recovery handlers that met no failing statement and no suspect handler of their node. The
members of the clusters are constant.

### ClusterRecovery

One cluster. `rows`, `blocks`, `records`, `status`, `dns` are the five tables; a task is
a `HandleDeadNode` of a node in a process, or a `RepairCluster` in a process, with the
locals `exclude`, `repl`, `roles`, `errs`, `left`, `added`; `pc` names the statement it
is about to execute. Each statement may fail (at most `MaxFailures` do), and each
failure leads where the code's `if err != nil` leads: `GivesUp` where the task returns
or knows of it, `Lost` where it is logged and the task goes on. `disturbed` is a history
variable: two tasks have overlapped or a write was lost. Left out, as none of the tables
depends on it: removal from the Raft group, `cluster-state.json`, deployment replicas,
orphan clean-up in `HandleRecoveredNode`. The blocks of other clusters are
`PortAllocator`'s business, `is_active` is `SuspectDNS`'s.

### ClusterProvisioning, ClusterLifecycle

One namespace. Tables: `cluster`, `status`, `next` (the record of `namespace_clusters`
and the next id), `ports`, `rows`, `dns`. On the nodes: `svc` (which cluster's
configuration each unit runs with: units are named after the namespace, and starting a
unit that runs changes nothing), `file` (`cluster-state.json`), `up`. Tasks: `req`
(`CheckNamespaceCluster` and the insert), `job` (`provisionClusterAsync`: selection,
ports, RQLite one after the other, Olric side by side, gateways, DNS, ready; or the
rollback in its order), `dep` (`DeprovisionCluster`), `restore` (from the file, then from
the tables). A statement or start may fail, the insert also after it was applied; the
context may expire, after which the rollback's statements fail too; the goroutine may
panic, the client that deletes may go away, a machine may go down with its tasks, its
lock and its units and come back with its disk. A start fails before or after systemd has
started the unit (`StartUnconfirmed`: the wait for readiness fails, and nobody stops that
unit). The fallback from the files to the tables is one of the process, not of the
namespace: a node that restored another namespace from its file does not look at the
tables, so a cluster without a file is passed over there. `astray` is a history variable:
the units that either of the two left in another state than the tables say; properties
exempt these units and nothing else. `calm` is a history variable: nothing was lost and no
tasks overlapped. The properties that need it say what the code gives without a second
fault on top; `OneGoroutine` and `LifecycleSpec` need nothing.

`ClusterLifecycle` is the abstract specification: a namespace has one cluster at a time,
clusters go from new to provisioning to ready or failed, may be torn down and removed, and
do not come back. `LifecycleSpec` is the refinement (`INSTANCE ... WITH life <- Life`): it
holds in every interleaving, with every fault of the model.

### WebRTC

A call (`EnableWebRTC`, `DisableWebRTC`, the two stealth toggles, the clean-up after an
error, the stealth rollback) is a program, a sequence of named steps; `call[n]` is the
program a manager executes and where it stands. Each enabling makes a new secret, and what
is reserved, written or started for it carries its number, so that a stale secret or port
shows. `noise` names what disturbed the state: overlaps, lost statements, servers that did
not come back, crashes in a call, files rewritten by a repair, a gateway that a restore
without a state file kept as it was, because it was running or because the node had restored
another namespace from a file and asked the tables for none. A disable that starts with
nothing beside it replaces what was noted before by `"healed"`, and `DisableHeals` says that
the code deserves it. A crash takes the process alone, or the machine with all units.

### PersistentSockets

`pc` is the handler of each connection, `run` its `Run` goroutine, `once` the progress of
`Close` (whoever calls it: `ws_close`, then `CloseInbound` closes the channel, then
`CloseEnds` closes the module, and a `SubmitFrame` that passed the test for `closed` may
panic between the last two), `guest` the calls that execute in the module. `Acquire` is a
read and an add. Frames are numbered and carry the identity they were read under;
`handled` records the one they ran under. A guest call may fail, trap or be cut off by its
timeout, and the gateway may shut down at any step.

### TopicSubscriptions

One topic of one gateway. `topic` is the entry of the Manager's map, `sub` the `Subscribe`
calls (look-up under the Manager's read lock, creation without it, installation under its
write lock, joining under the entry's own), `refresh` the two callers of `Refresh` (the loop
and the hook of a trigger change), `subscribedKeys` whether the dispatcher holds the key.
`loop` is where the loop stands: before its first refresh, which `Start` makes itself,
`ticking`, or `never` when the query of the first refresh failed and `Start` returned before
the loop was started. `misled` records that a subscriber joined an entry that was cancelled
since it looked it up; the invariants exclude the consequences, and section 5 shows them.

### TriggerDispatch

From publish to invocation: `outbox` and `net` are messages on their way, `loop` the
message goroutine of a subscription, which calls every registered handler, `calls` the
`Dispatch` and `DispatchLocalPublish` calls, `seen` the bounded local cache, `claims` the
keys in Olric. libp2p may lose a message; a claim may fail before or after it was stored.
`mishaps` records, per message, what the code answers with at-least-once.

### CronScheduler

`row` is the table, `gw` the loop of each gateway: its clock reading, the batch it read
and where it is in it. A run is named by the `next_run_at` it was claimed with, which is
also the value of both compare-and-swaps, in `MarkRun` and for the result. `invoked`
and `claimed` are history variables. Rows in `Bad` have an expression that gives no next
run; the code puts them off by a year.

How they fit together: `HealthMonitor` produces the calls that `SuspectDNS` and
`ClusterRecovery` take as input (any monitor may suspect; several may recover, since
`RecoveredFromOnce` fails), and `ClusterRecovery` uses of `AllocatePortBlock` what
`PortAllocator` proves: one block per cluster and node, returned again when it exists.
`ClusterProvisioning` uses the same, and leaves a cluster in the state in which
`ClusterRecovery` and `WebRTC` start. `TriggerDispatch` takes from `TopicSubscriptions`
that a dispatcher may have its handler registered more than once.

## 3. The runs

Expected result "violation" means that the property states what a comment of the code
says, and that TLC shows a behaviour of the code that breaks it (section 5).

| Run | Instance | Distinct states | Result |
|---|---|---|---|
| `ports_node` | one node, 2 blocks, 3 clusters, 2 calls, 2 attempts, failing statements | 331,000 | `NoOverlapOnNode`, `FreeBlockFound`, `LedgerSpec`, `EveryCallEnds` hold |
| `health_safety` | ring of 3, K = 2, node 3 watched, link 1-3 lossy, 1 and 3 crash, queries fail, 3's heartbeat lapses | 1,217,000 | `NoFalseDeath`, `RingCovered`, `RecoveriesBounded` hold |
| `health_down` | the same without loss and lapse, with fairness | 65,000 | `DownIsReported` holds |
| `health_lost_recovery` | ring of 3, with fairness | 23,000 | `QuorumIsActedOn` violated |
| `suspect` | two monitors, two suspect nodes, two flaps, one forgotten suspicion, failing statements; a namespace on two nodes, one on one | 411,000 | `LostOnlyInRace`, `UndisturbedRecovery` hold |
| `cluster_safety` | 2 members of 3 nodes, 2 crashes, 1 failure | 660,000 | `SurvivorsKept`, `PortsHeld`, `ReplacementComplete` hold |
| `provisioning` | 2 nodes, 2 clusters in a row, 1 removal, 1 failure, 2 crashes, with fairness | 658,000 | `TypeOK`, `ReadyIsServed`, `FailedIsRolledBack`, `GoneIsGone`, `OneGoroutine`, `LifecycleSpec`, `ProvisioningEnds` hold |
| `webrtc` | 2 nodes, 1 TURN server, 3 calls, 2 secrets, 1 failure, 1 crash, 1 repair | 454,000 | `TypeOK`, `EnabledIsServed`, `DisableHeals`, `StealthIsHonest` hold |
| `sockets` | 2 connections for 1 slot, a channel of 2, 3 frames, 1 refresh, with fairness | 335,000 | `TypeOK`, `SlotsBalanced`, `NothingLeft`, `FramesInOrder`, `FreshIdentity`, `TeardownEnds` hold |
| `topics` | 2 clients and the dispatcher, 3 changes, 4 subscriptions, 2 failures, with fairness | 308,000 | `RefsAreSubscribers`, `Served`, `FollowsStore` hold |
| `dispatch` | 2 gateways, 2 messages, a cache of 1, up to 2 handlers, 1 change, 1 failure, with fairness | 185,000 | `DispatchTypeOK`, `OncePerPublish`, `OncePerGateway`, `NotDropped` hold |
| `cron` | 2 gateways, a good and a broken row, a batch of 1, clocks 1 apart, time up to 4, 1 failure, 1 stop, with fairness | 189,000 | `OncePerRun`, `StatusOfLastRun`, `DueIsTaken` hold |

Each takes less than three minutes with two workers. The runs check what several steps of
several actors could break. The type invariants of six modules with proofs, and
`OneBlockPerClusterNode`, `WithinCapacity`, `PeerStateConsistent`, `GraceHoldsNobodyDead`,
`OneSuspectHandler`, `RunningIsTrue` and `NextRunAdvances`, are proved (section 4) and not
repeated here; a cfg may name them again while a module is being changed. What the runs
show, in a sentence each, is under `runs` in `PROJECT.json`.

### Bounds

- *Ports*: two calls suffice for every race between a read and an insert, three clusters
  on two blocks reach the capacity limit with a cluster left over, two attempts let a
  retry succeed and fail. The code has 20 blocks and 10 attempts; the proofs cover those.
- *Monitors*: two misses to death and one to suspicion (12 and 3 in the code) keep the
  three statuses apart; a ring of three with K = 2 has every node probed by all others,
  which is a quorum, so that `RecoveriesBounded` means one trigger per outage. Two triggers
  need a fourth node (`HealthMonitorOnce.cfg`); there the bound is two, and
  `HealthMonitorBound.cfg` (3.9 million states, longer than a run should take) shows that
  it holds. One crash per crashing node includes its restart and a second grace period.
- *Suspicion*: two flaps let a new suspicion meet the handlers of the old one, or those of
  the other node, or those of the other monitor (`Twice` bounds their sum). Both nodes of a
  namespace may be suspected, so two handlers do meet between count and update.
- *Recovery*: two crashes are two deaths at once, or a death and the death of its
  replacement; one spare node makes the tasks compete for it. `RepairCluster` is called
  any number of times. The run with two failures (2.3 million states) gives the same
  result.
- *Provisioning*: every cluster has both nodes, so a failure on the second node finds the
  first one built; two clusters in a row let a unit or file of the first meet the second.
  The constraint `Tame` keeps two tasks at a time, and looks no further once a fault and
  an overlap have met: `calm` is false then, and only `OneGoroutine` and `LifecycleSpec`
  would go on saying something.
- *WebRTC*: two nodes of which one has a TURN server tell apart the steps for all nodes
  and for TURN nodes; two secrets make a rotation; `Tame` allows two tasks at a time and
  one disturbance, or a repair and a crash.
- *Sockets*: a slot for two connections reaches the limit and the overcommit; a channel of
  two holds two frames that wait together and is full with a third waiting. The second
  connection sends no frames (`Tame`): it is there for slot, shutdown and map.
- *Topics*: four subscriptions let a client leave and come back while the other joins; two
  failures are that of the first refresh and one more, or two later ones.
- *Dispatch*: the second message only fills the local cache (`Tame`).
- *Cron*: up to four periods, so that a slow run overlaps the next claim of its row by
  the other gateway; a batch of one puts the broken row in front of the good one.

Symmetry is used where no property orders the permuted values (calls, clusters,
non-members, members) and never in a run with a temporal property.
`CHECK_DEADLOCK FALSE` is set where a bound (flaps, clusters, calls, messages, time) ends
what there is to do, for connections, which end, and for a dispatcher whose loop was never
started: in the runs of `SuspectDNS` and of the modules from provisioning on.

### Fairness

- `PortAllocator!FairSpec`: weak fairness of each call's next step. Every query and Exec
  returns, if only with the error of its context, and a goroutine that can run does.
- `HealthMonitor!FairSpec`: weak fairness of starting and ending rounds (ticker,
  `WaitGroup`), of each probe's goroutine (probe and query timeouts), of the end of the
  grace period (time), of heartbeats and of started handlers. Nothing is assumed of
  crashes, restarts, lapses or of which way a statement that may fail goes.
- `ClusterProvisioning!FairSpec`: weak fairness of each provisioning goroutine, whose
  requests all have timeouts. It vanishes in a crash.
- `PersistentSockets!FairSpec`: weak fairness of each handler, `Close` and `Run`; guest
  calls return at the latest at their timeout, as the runtime closes a module whose
  context is done. Nothing is assumed of the client or of a shutdown.
- `TopicSubscriptions!FairSpec`: weak fairness of started `Subscribe` calls and of both
  callers of `Refresh`. The loop has a ticker once `Start` has succeeded; when the first
  refresh failed there is none, its steps are not enabled (`Begins`) and fairness says
  nothing of them. Nothing is assumed of clients; failures are bounded, which stands for
  "the next query eventually succeeds".
- `TriggerDispatch!FairDispatchSpec`: weak fairness of the calls of each gateway; nothing of
  the network.
- `CronScheduler!FairSpec`: weak fairness of each gateway's loop, a restart included; stops
  are bounded. Time need not pass.

## 4. The proofs

`tlapm` checks all eight modules to the last leaf: some 21,000 obligations, in about twenty
minutes. The theorems hold for every value of the constants that satisfies the named
assumption of the module. Every invariant that needed a strengthening was checked with TLC
before it was proved.

**PortAllocatorProofs** (`AllocatorAssumption`: addresses are a function of nodes, at
least one block and one attempt). `IInv == TypeOK /\ KeysUnique /\ TableFinite /\
AttemptsLeft /\ FreeBlockFound`. `KeysUnique` is the UNIQUE keys as an invariant of the
table; it alone carries `NodePortsDisjoint`, `SingleBlock` and, by an injection of a
node's rows into the blocks, `CapacityKept`. That is the point: none of them rests on
the reads, so neither stale nor failed reads matter. `SearchSucceeds` is a pigeonhole
argument (`FewRowsLeaveABlock`); `AttemptsLeft` is needed to keep the attempt count in
its type. `ImplementsLedger` maps each accepted insert to a grant, each release to a
release, everything else to a stutter.

**NodeHealthProofs, HealthMonitor** (`MonitorAssumption`: finite set of nodes, `SuspectAfter
< DeadAfter`, positive quorum). `PeerInv == PeerStateConsistent /\ GraceHoldsNobodyDead /\
DownIsEmpty`; the last part says that a monitor that is down has no state, without which a
restart into a new grace period could carry a dead peer along. It gives `PeerStatesAgree`
and `GraceKept`. `DeathInv == Blame /\ CountedQuorum /\ NoFalseDeath`: `Blame` traces every
report of a node that never went down to a lossy link, through the probe, the event and the
check; `CountedQuorum` says that the quorum counted by the first query still stands at the
second. It gives `NoFalseDeaths` (by cardinalities). `RecoveriesAreBounded` rests on
`OutageInv == NotItself /\ Topped`: no node reports itself, and the highest monitor that has
recovered from an outage has `MinQuorum - 1` observers above it (`LowestLeavesQuorum`: it
was the lowest of a quorum that it saw, over both queries, when it triggered). So all that
have recovered are among the others that are not above it, whatever happened to the events
since. `RingIsCovered` is about the pure function: `Index` is a bijection from the ring to
`0 .. n - 1` (`IndexBijection`), and the observers of a node are those one to min(K, n - 1)
steps before it around the ring, in bijection with the steps (`ObserversCounted`),
wrap-around, a K larger than the ring and a ring of one included.

**NodeHealthProofs, SuspectDNS** (`SuspectAssumption`: the clusters have members, and the
bounds are numbers). `TypeInv` adds to `SuspectTypeOK` that handlers
exist for past suspicions only and work on clusters of their node. `LockExcludes` is
inductive as it stands. `OnlyRacesLose` is `LostOnlyInRace` for any number of monitors,
suspects and namespaces; `KeptInv == OneDisables /\ Backed /\ LostOnlyInRace` says that
outside a race the handlers between count and update are all about one node, and that a
namespace whose record is about to go has another node's, which nobody else is about to
disable. `SuspectDNSLastRecord.cfg` shows that the exception for races is necessary.
`RecoveryRestores` uses `CleanInv`: what an undisturbed recovery has done so
far stays done.

**ClusterRecoveryProofs** (`RecoveryAssumption`: finite set of nodes). `Inv == TypeOK /\
DownSeen /\ SparesSurvivors /\ SurvivorsKept`, where a survivor is a member that has
never been down. `SparesSurvivors` says of every task that it is not about a survivor,
that the survivors are in its stale list of excluded nodes once it has read it, and that
its replacement is none. It is inductive because the set of survivors only shrinks. So
`SurvivorsSafe` holds although lists are stale, locks are per process and every call may
fail half way. `PortsKept` and `ReplacementsComplete` need a second invariant, `Calm`,
about histories in which no two tasks overlapped and no write was lost: at most one task
is under way, the nodes that count as running are covered by blocks, and `TaskCalm` says
for every `pc` of that task which rows, blocks and records of the dead node and of its
replacement exist already. Each of its parts has a lemma over all statements of a task
(`ActiveStep` to `ReplacedStep`).

**ClusterProvisioningProofs** (`ProvisioningAssumption`: finitely many nodes, at least as
many as a cluster has). `IInv == Firm /\ CalmInv`, in two layers. `Firm == Types /\ Places
/\ Locks /\ Record /\ Strayed` holds whatever fails, expires, panics or crashes: a task runs
on a node that is up, a goroutine that lives holds its manager's key in the map, ids are
used once, and a record whose goroutine lives is not settled. It gives `TypeCorrect`,
`OneAtATime` and the refinement `ImplementsLifecycle`, step by step: of all actions only six
change the record, and `Firm` is what makes each of them a step of the lifecycle, above all
that a goroutine cannot settle a cluster that is ready, failed or gone. `CalmInv == calm =>
Undisturbed` is the second layer. `Undisturbed` says, for every phase of whatever task runs,
exactly what exists of the cluster: `Building` how far a goroutine is on its way forward, or
what its rollback still has to stop, release and delete, for each of the places it can fail
at; `Leaving` what a removal has left; `Restoring` what a node that came back has started so
far; `Standing` what exists between tasks; `Alone` that there is one task at a time; `Files`
and `Replacing` that a state file that outlived its cluster finds no rows, and that a
request replaces failed clusters only. It is inductive because each task hands over to the
next what that one assumes. It gives `ReadyServes`, `FailureRollsBack` and
`RemovalLeavesNothing`, for clusters and node sets of every size. What the second layer says
of units it says of all that have not gone `astray`: a unit that an unconfirmed start left
behind, or a node that a restart passed over, is exempt until it is stopped or goes down,
and only the unit itself is; ports, rows, records and the other units of the node are not.
The proof showed that `GoneIsGone` had excluded more than it had to (requests that are about
to free ports); the property is now stated without.

**WebRTCProofs** (`WebRTCAssumption`: at least one node, between one and all of them with a
TURN server). `IInv == Types /\ Placed /\ Written /\ AloneInv /\ CalmInv /\ HealedInv`.
`Types` includes that every call is at a step of its program, with the nodes of the step
that are left (`Proper`); `Written` that a secret is known from a state file that exists;
the lemmas about `Proceed`, `Follow` and `Fail` say where every step of every program leads,
errors included. `AloneInv`: unless an overlap was noted there is one call or one restore at
a time. `CalmInv == noise \subseteq {"respawn"} => Undisturbed` is a table of what each step
has established: for every call `Enabling`, `CleaningUp`, `Disabling`, `Turning` or
`RollingBack` says, in terms of the nodes that each of its steps is done with (`AllDone`,
`TurnDone`), what the rows, the records, the units, the gateways and the state files are;
`Rest` says it for the time between calls, with what a node that is away or in the middle of
its restore still lacks (`Steady`, `TURNBack`, `GatewayBack`, `Reads`). A TURN server that
could not be respawned is the one disturbance that is part of it, because the rollback of
`EnableWebRTCStealth` has to cope with it. `HealedInv == noise = {"healed"} => Healed`
assumes nothing of what was before the disable: it has only what the disable itself clears,
and what later calls and restores keep clear. It gives `WebRTCTypeCorrect`, `WebRTCServed`,
`WebRTCHonest` and `WebRTCHeals`, for any number of nodes, calls, rotations, crashes and
failures. The proof of the last one failed at first for a good reason: with more calls and
crashes than the run has, a node without a state file finds its gateway running with an old
secret and keeps it (section 5). TLC confirmed the behaviour on a larger instance; it is now
noted as a disturbance.

**ServerlessProofs, PersistentSockets** (`PersistentSocketsAssumption`: finitely many
connections, a capacity and a channel of at least one). `IInv == Types /\ SlotsBalanced /\
\A c : ConnInv(c)`, where `ConnInv == Stage /\ Order /\ Complete /\ Identities`. `Stage`
ties the handler's place to what `Close`, which two goroutines may execute, has left of the
instance. `Order` and `Complete` look at the frames handled, those in the channel and the
one being sent as one sequence: it ascends, and until `Close` begins it has no gaps, as long
as `Run` takes frames. `Identities` says that identities in the channel are never newer than
the connection's. Slots are counted by the cardinality of the set of holders. It gives
`TypeCorrect`, `SlotsKept`, `NothingLeftBehind`, `FramesOrdered` and `IdentityFresh`.
`NothingLeftBehind` has one exception, which is the code's: a handler whose `SubmitFrame`
panicked because a shutdown had closed the channel is gone while that shutdown has yet to
close the module. The overcommit of `Acquire` is part of the model and does no harm to any
of them.

**TopicSubscriptionsProofs** (`TopicSubscriptionsAssumption`: finitely many clients).
`IInv == Types /\ DispatcherInv /\ Counted`. `Counted` says that without a misled
subscriber the count is the number of subscribers that are in and each of them has its
handler there; `DispatcherInv` ties the dispatcher's own progress to `subscribedKeys` and
the lock: it is on its way or in exactly while it holds the key or is subscribing. Without it
two refreshes could subscribe twice under one key. The count is kept by cardinalities of
the set of subscribers (`GetsIn`, `StaysOut`). It gives `TypeCorrect`, `RefsCounted` and
`SubscribersServed`, for any number of clients.

**ServerlessProofs, TriggerDispatch** (`TriggerDispatchAssumption`; the proofs use of it
only that the sizes are natural numbers). `DispatchInv` has the types, `Origin`
(only what was published is on its way, and only the publish of a function passes the
claims by), and for every message `OneOnGateway` and `OneWinner`. `OneOnGateway` says that,
unless the local cache was full, at most one call of a gateway has got by the local claim,
the message is in the cache then, and the call and the invocations it makes exclude each
other; `OneWinner` says the same of the claim in Olric, over all gateways, unless a claim
failed. The properties count invocations; the invariant says who may have made one, so no
sum over gateways is needed: at most one gateway has a count, and it is at most one. It
gives `DispatchTypeCorrect`, `OnePerGateway` and `OnePerPublish`.

**CronSchedulerProofs** (`CronSchedulerAssumption`). `RunInv == TypeInv /\ NewRows /\
Leases /\ PastRuns /\ Fresh /\ Alone /\ OncePerRun /\ StatusOfLastRun`. The argument: a
claim replaces `next_run_at` by a strictly later time (`NextRunBounds`, division with
remainder), so a run once claimed is in the row's past (`PastRuns`); a gateway that holds
a run holds one whose row shows that run or has gone on (`Leases`), nobody else holds it
(`Alone`), and it has not been invoked before (`Fresh`). `RunsOnce`, `StatusIsOfLastRun`
and `RunsAdvance` follow for any number of gateways and rows, any skew, failures and
stops: the clocks play no part. `RunningRowsRun` adds that without failures and stops a
claimed run is held until its result is recorded.

Only model-checked: the liveness properties (`EveryCallEnds`, `DownIsReported`,
`ProvisioningEnds`, `TeardownEnds`, `FollowsStore`, `NotDropped`, `DueIsTaken`), which are
outside of what the prover does, like everything that needs ENABLED. All invariants and
action properties that the passing runs check, and both refinements, are proved. Facts that
need induction over data are not used, and no module declares a RECURSIVE operator.

## 5. What the checks found

The run `health_lost_recovery` ends in a counterexample to what a comment of the code
says, quoted under `findings` of `PROJECT.json`:

1. *A quorum nobody acts on* (`HealthMonitorActed.cfg`, `QuorumIsActedOn`). `checkQuorum`
   runs once per declaration. If the lowest observer declares first it sees no quorum;
   the next sees the quorum and leaves it to the lowest. Later rounds skip the check
   (`reportedDead`).

Further configurations show where a property that one would like to have, most of them
stated by a comment, does not hold. They are not among the runs; each gives a
counterexample within a minute with `tlc -config X.cfg MC...`:

2. *An outage recovered from twice* (`HealthMonitorOnce.cfg`, `RecoveredFromOnce`).
   "Lowest" is lowest so far: 2 and 3 make a quorum and 2 triggers; then 1 declares, is
   the lowest, and triggers again.
3. *A return nobody notices* (`HealthMonitorReturn.cfg`, `ReturnIsNoticed`). The confirmed
   death marks the node offline, the ring query skips it, its peer state is pruned, and
   when it is back it is a fresh healthy peer: `onRecoveredFn` is not called.
4. *Shared ports on a shared host* (`PortAllocatorOneHost.cfg`, `NoOverlapOnHost`). Blocks
   are read by address and inserted under a key per node: two nodes of one host insert
   the same block.
5. *The last record disabled* (`SuspectDNSLastRecord.cfg`, `LastRecordKept`). The handlers
   of two suspect nodes both count two active records, then both disable theirs.
   `LostOnlyInRace` shows that this is the only way.
6. *A healthy node without records* (`SuspectDNSOvertaken.cfg`, `HealthyIsServed`).
   `HandleSuspectRecovery` takes no lock and may enable the records before the slow
   `HandleSuspectNode` disables them.
7. *A ready cluster with a dead member* (`ClusterRecoverySkipped.cfg`,
   `ReadyMeansReplaced`). A death confirmed while another member is being replaced in the
   same process is skipped; the dead node keeps its 'running' rows, so `RepairCluster`
   counts it as active.
8. *WebRTC lost after a repair* (`WebRTCRepair.cfg`, `ServedAfterRepair`). A repair rewrites
   the state files of all nodes without their WebRTC fields; a node that reboots then
   restores without them.
9. *Two calls in one WASM module* (`PersistentSocketsSerial.cfg`, `SerialGuestCalls`).
   "Frames are processed serially per connection - wazero instances are NOT
   goroutine-safe", but `Close` calls `ws_close` while `Run` is in `ws_frame`.
10. *A key without a subscription* (`TopicSubscriptionsKeys.cfg`, `KeysAreSubscribed`).
    "subscribedKeys is the set of (namespace, topic) tuples currently libp2p-subscribed by
    this dispatcher"; but `Subscribe` may add its handler to an entry that was cancelled
    since it was looked up, and no refresh subscribes a key that is held.
11. *A wildcard invoked twice* (`TriggerDispatchTwice.cfg`, `NeverDoubleInvoke`).
    `DispatchLocalPublish` (`dispatcher.go:453`) filters concrete rows out "so we never
    double-invoke", but when a literal trigger keeps the topic subscribed the libp2p
    delivery of the same message matches the wildcard too.

Met while modelling, without a run of their own:

- `port_allocator.go:115`, `:124`: the error of the query for the blocks in use is lost
  in a shadowed variable. The keys keep the table right; the call wastes attempts on
  block 0.
- `monitor.go:352`: 'dead' events of an observer that has seen the node recover since
  count until they leave the window.
- `monitor.go:472`: a suspicion dropped by pruning leaves its record disabled; nothing
  enables it until the node is suspected and recovers again.
- `dns_manager.go:252`: `UpdateNamespaceRecord` cannot move a record to an address that
  has one, so the dead node's record stays active. `ReplacementComplete` therefore asks
  for the replacement's record and not for the absence of the dead node's.
- `cluster_recovery.go:388`, `:405`: when no service starts on a replacement its block of
  ports stays allocated while the dead node's rows are deleted.
- `cluster_recovery.go:1043`: a repair goes on when Olric or the gateway does not start;
  the node counts as active from then on.
- `gateway/namespace_health.go:168`: the reconciliation looks at ready clusters only.
- `cluster_manager.go:872`: `DeprovisionCluster` takes no lock. Beside a goroutine that
  still builds, it leaves units, ports or records of a cluster whose record is gone.
- `cluster_manager.go:1222`: when the provisioning process crashes the record stays
  'provisioning'; only failed ones are replaced by the next request.
- `cluster_manager.go:1233`: after a panic the status is 'failed' and nothing was rolled
  back. `cluster_manager.go:1250`: the rollback uses the context that may just have expired.
  `FailedIsRolledBack` assumes neither happened, `ProvisioningEnds` that the context did
  not expire.
- `systemd_spawner.go:81`, `:86`: a start whose unit runs but is not ready in time is an
  error, and the unit stays. `cluster_manager.go:433` stops the nodes before the failing
  one, the rollback (`:840`) is not given the failing instance. The next cluster of the
  namespace on that node finds the unit running and keeps its old configuration.
- `node/gateway.go:178`-`186`: one namespace restored from a file is enough for the process
  not to look at the tables. `provisionClusterAsync` writes no state file (the restore from
  the tables, recovery and WebRTC do), so after a reboot a node that has a file of one
  namespace does not bring back a new cluster of another.
- `serverless/triggers/dispatcher.go:204`: `Start` returns the error of its first refresh
  before it starts the loop, and `gateway/gateway.go:384` only warns: from then on only
  trigger changes made through this gateway, and HTTP publishes, are followed.
- `cluster_manager_webrtc.go:227`: `DisableWebRTC` takes no lock. Beside an enable, each
  undoes steps of the other. `EnabledIsServed` excludes such overlaps; `DisableHeals`, and
  `WebRTCHeals` for any number of calls, say that a later disable on its own clears up.
- `cluster_manager.go:1587`: `restoreClusterOnNode` takes a gateway that answers for the
  right one. On a node without a state file, where an earlier disable found nothing to
  rewrite, it may still have the secret of a WebRTC that was disabled since.
- `serverless/triggers/dispatcher.go:383`: the gateway that won the claim and cannot read
  the triggers drops the message for all.
- `serverless/persistent/instance.go:335`: a shutdown closes the channel before the module;
  a `SubmitFrame` in between panics, and the handler unwinds while the module is still open.
- `serverless/triggers/cron_scheduler.go:24`-`27` says of two gateways that "duplicate
  invocations are reduced to a tight race window". The comment is older than the claim at
  `:156`-`173`, which precedes the invocation; the claim and its tests agree with
  `OncePerRun`, which holds and is proved: there is no such window.
- `serverless/persistent/instance.go:296`: `Run` ends after an error and nothing tells the
  read loop.

## 6. What is not modelled

- *Clocks*: the race between 12 missed probes of 10 seconds and the two-minute filter of
  the ring query; the quorum window's cutoff, formatted in local time and compared with
  UTC timestamps. The models let time pass at any moment instead.
- *Crash of the process that runs a recovery* between two statements: its in-memory lock
  is lost with it. `ClusterRecovery` lets every statement fail but not the task vanish
  (`ClusterProvisioning` does); on the plan.
- *Composition*: monitors, suspicion and recovery are separate modules that take each
  other's calls as inputs; one run of all of them is beyond small state spaces.
- Raft membership, candidate scores, certificates, firewall rules, events.
- Aggregation windows, batches, ephemeral state and the recursion limit of triggers; the
  expiry of claims after 30 seconds; cron expressions beyond "strictly later".
- The components of the second table of section 1, for the reasons given there and in
  `components` of `PROJECT.json`: mostly I/O, library state, or next on the plan.

## 7. Plan

In this order; each item is a module with its instance, its run and its proofs, and the
number of runs stays at one per question.

1. *Reconciliation* as a fair process: a degraded cluster is eventually repaired when
   nodes are available; `HandleRecoveredNode` with its orphan clean-up; a crash of the
   recovering process; the WebRTC state reconciler.
2. *NodeDNS*: the records of nodes and nameservers, cleanup of stale nodes, heartbeats.
3. *Aggregation* of triggers: windows, batches and their flush at shutdown.
4. *DetectionTiming*: probes, misses and the two-minute filter with a discrete clock.
5. *Lifecycle*: states and maintenance windows of `node/lifecycle/manager.go`.
6. *Deployments*: replica health, home nodes, ports; then *RefreshTokens* (rotation with
   grace), *CircuitBreaker*, and the RQLite watchdog and voter reconciliation.

Theorems next: a composition of `HealthMonitor` and `SuspectDNS`, which `NodeHealthProofs`
already has side by side: the suspicions of the first as the inputs of the second; and with
each module above its invariant, found with TLC before it is proved.
