--------------------------- MODULE PortAllocator ---------------------------
(***************************************************************************)
(* The namespace port allocator (core/pkg/namespace/port_allocator.go).    *)
(*                                                                         *)
(* Every gateway of the network may call AllocatePortBlock at any time     *)
(* (provisioning, recovery, repair); the calls share nothing but the       *)
(* RQLite table namespace_port_allocations.  A call reads the blocks in    *)
(* use, picks the first free one and inserts it, so between the read and   *)
(* the insert any other call may run; the table's UNIQUE constraints are   *)
(* the only arbiter.  Reads use consistency level "weak" (they are served  *)
(* by the leader), so one statement is one atomic step here.               *)
(*                                                                         *)
(* A block is named by its index: block b is ports                         *)
(* RangeStart + b*5 .. RangeStart + b*5 + 4.                               *)
(*                                                                         *)
(* Simplifications: row ids, timestamps and the back-off delays are left   *)
(* out; dns_nodes does not change while calls run (IpOf is a constant).    *)
(***************************************************************************)
EXTENDS Integers, FiniteSets, FiniteSetsExt

CONSTANTS
    Nodes,      \* node ids
    Clusters,   \* namespace cluster ids
    IPs,        \* host addresses
    IpOf,       \* dns_nodes.ip_address of each node
    Calls,      \* concurrent AllocatePortBlock calls
    NumBlocks,  \* blocks in NamespacePortRangeStart..End (20)
    MaxRetries, \* attempts of one call (10)
    QueriesFail \* whether RQLite may fail or time out a statement

ASSUME AllocatorAssumption ==
    /\ IpOf \in [Nodes -> IPs]
    /\ NumBlocks \in Nat \ {0}
    /\ MaxRetries \in Nat \ {0}
    /\ QueriesFail \in BOOLEAN

VARIABLES
    table,    \* rows of namespace_port_allocations
    \* The local state of each AllocatePortBlock call:
    phase,    \* where it stands
    node,     \* its nodeID
    cluster,  \* its namespaceClusterID
    scope,    \* how it looks up the blocks in use
    block,    \* the block it picked, or returned
    attempt   \* attempts that met a conflict

vars == <<table, phase, node, cluster, scope, block, attempt>>

----------------------------------------------------------------------------
(* Ports *)

NamespacePortRangeStart == 10000

PortsPerNamespace == 5

Blocks == 0 .. NumBlocks - 1

\* (End - Start + 1) / PortsPerNamespace: as many as there are blocks.
MaxNamespacesPerNode == NumBlocks

\* The ports the five services of a namespace listen on in block b.
PortsOf(b) == LET portStart == NamespacePortRangeStart + b * PortsPerNamespace
              IN  portStart .. portStart + PortsPerNamespace - 1

----------------------------------------------------------------------------
(* The table *)

Rows == [node : Nodes, cluster : Clusters, block : Blocks]

\* GetPortBlock
PortBlocksOf(c, n) == {r \in table : r.cluster = c /\ r.node = n}

\* Mutants: the table without one or the other UNIQUE constraint.
ConflictsNoBlockKey(row) ==
    \E r \in table : r.node = row.node /\ r.cluster = row.cluster

ConflictsNoClusterKey(row) ==
    \E r \in table : r.node = row.node /\ r.block = row.block

\* The two UNIQUE constraints of the table.
Conflicts(row) ==
    \E r \in table : /\ r.node = row.node
                     /\ r.block = row.block \/ r.cluster = row.cluster

\* Nodes registered under the same address as n.
Colocated(n) == {m \in Nodes : IpOf[m] = IpOf[n]}

----------------------------------------------------------------------------
(* Calls *)

\* "exists": about to check for an existing block; "scope": about to read
\* dns_nodes; "blocks": about to read the blocks in use; "insert": about to
\* insert; the others are the outcomes of the call.
Running  == {"exists", "scope", "blocks", "insert"}
Failures == {"capacity", "noports", "dberror", "retries"}
Phases   == {"idle", "done"} \cup Running \cup Failures

\* How the blocks in use are looked up: by node because dns_nodes gave no
\* address, by node because no other node has the address, or by address.
Scopes == {"noip", "node", "ip"}

TypeOK == /\ table \subseteq Rows
          /\ phase \in [Calls -> Phases]
          /\ node \in [Calls -> Nodes]
          /\ cluster \in [Calls -> Clusters]
          /\ scope \in [Calls -> Scopes]
          /\ block \in [Calls -> Blocks]
          /\ attempt \in [Calls -> 0 .. MaxRetries]

Init == /\ table = {}
        /\ phase = [p \in Calls |-> "idle"]
        /\ node \in [Calls -> Nodes]
        /\ cluster \in [Calls -> Clusters]
        /\ scope = [p \in Calls |-> "noip"]
        /\ block = [p \in Calls |-> 0]
        /\ attempt = [p \in Calls |-> 0]

\* AllocatePortBlock is called for cluster c on node n.
AllocatePortBlock(p, n, c) ==
    /\ phase[p] \notin Running
    /\ phase' = [phase EXCEPT ![p] = "exists"]
    /\ node' = [node EXCEPT ![p] = n]
    /\ cluster' = [cluster EXCEPT ![p] = c]
    /\ attempt' = [attempt EXCEPT ![p] = 0]
    /\ UNCHANGED <<table, scope, block>>

\* The check for an existing block: found, the call returns it; not found,
\* the call goes on to allocate.
CheckExisting(p) ==
    /\ phase[p] = "exists"
    /\ \/ \E r \in PortBlocksOf(cluster[p], node[p]) :
             /\ phase' = [phase EXCEPT ![p] = "done"]
             /\ block' = [block EXCEPT ![p] = r.block]
       \/ /\ PortBlocksOf(cluster[p], node[p]) = {}
          /\ phase' = [phase EXCEPT ![p] = "scope"]
          /\ UNCHANGED block
    /\ UNCHANGED <<table, node, cluster, scope, attempt>>

\* The check fails: the error is dropped and the call goes on to allocate.
CheckExistingFails(p) ==
    /\ QueriesFail
    /\ phase[p] = "exists"
    /\ phase' = [phase EXCEPT ![p] = "scope"]
    /\ UNCHANGED <<table, node, cluster, scope, block, attempt>>

\* tryAllocatePortBlock reads the node's address and how many nodes have it.
ReadScope(p) ==
    /\ phase[p] = "scope"
    /\ phase' = [phase EXCEPT ![p] = "blocks"]
    /\ scope' = [scope EXCEPT
                    ![p] = IF Cardinality(Colocated(node[p])) > 1
                           THEN "ip" ELSE "node"]
    /\ UNCHANGED <<table, node, cluster, block, attempt>>

\* The first of the two queries fails ("noip") or the second one ("node").
ReadScopeFails(p) ==
    /\ QueriesFail
    /\ phase[p] = "scope"
    /\ phase' = [phase EXCEPT ![p] = "blocks"]
    /\ \E s \in {"noip", "node"} : scope' = [scope EXCEPT ![p] = s]
    /\ UNCHANGED <<table, node, cluster, block, attempt>>

\* The rows the call has to look at.
AllocatedBlocks(p) ==
    {r \in table : IF scope[p] = "ip" THEN r.node \in Colocated(node[p])
                                      ELSE r.node = node[p]}

\* Mutant: the capacity check lets one namespace too many through.
PickBlockOffByOne(p, rows) ==
    LET free == Blocks \ {r.block : r \in rows}
    IN \/ /\ Cardinality(rows) > MaxNamespacesPerNode
          /\ phase' = [phase EXCEPT ![p] = "capacity"]
          /\ UNCHANGED block
       \/ /\ Cardinality(rows) <= MaxNamespacesPerNode
          /\ phase' = [phase EXCEPT
                          ![p] = IF free = {} THEN "noports" ELSE "insert"]
          /\ block' = [block EXCEPT
                          ![p] = IF free = {} THEN @ ELSE Min(free)]

\* The capacity check and the search for the first free block, given the
\* rows the query returned.
PickBlock(p, rows) ==
    LET free == Blocks \ {r.block : r \in rows}
    IN \/ /\ Cardinality(rows) >= MaxNamespacesPerNode
          /\ phase' = [phase EXCEPT ![p] = "capacity"]
          /\ UNCHANGED block
       \/ /\ Cardinality(rows) < MaxNamespacesPerNode
          /\ phase' = [phase EXCEPT
                          ![p] = IF free = {} THEN "noports" ELSE "insert"]
          /\ block' = [block EXCEPT
                          ![p] = IF free = {} THEN @ ELSE Min(free)]

ReadBlocks(p) ==
    /\ phase[p] = "blocks"
    /\ PickBlock(p, AllocatedBlocks(p))
    /\ UNCHANGED <<table, node, cluster, scope, attempt>>

\* The query for the blocks in use fails.  The two branches that know the
\* node's address assign the error to an err that is local to the if
\* statement, so the call goes on as if no block were in use; only the
\* branch without an address returns the error.
ReadBlocksFails(p) ==
    /\ QueriesFail
    /\ phase[p] = "blocks"
    /\ \/ /\ scope[p] = "noip"
          /\ phase' = [phase EXCEPT ![p] = "dberror"]
          /\ UNCHANGED block
       \/ /\ scope[p] # "noip"
          /\ PickBlock(p, {})
    /\ UNCHANGED <<table, node, cluster, scope, attempt>>

RowOf(p) == [node |-> node[p], cluster |-> cluster[p], block |-> block[p]]

\* The INSERT is accepted.
Insert(p) ==
    /\ phase[p] = "insert"
    /\ ~Conflicts(RowOf(p))
    /\ table' = table \cup {RowOf(p)}
    /\ phase' = [phase EXCEPT ![p] = "done"]
    /\ UNCHANGED <<node, cluster, scope, block, attempt>>

\* Mutant: a conflict is retried without counting the attempt.
InsertConflictsForever(p) ==
    /\ phase[p] = "insert"
    /\ Conflicts(RowOf(p))
    /\ phase' = [phase EXCEPT ![p] = "scope"]
    /\ UNCHANGED <<table, node, cluster, scope, block, attempt>>

\* The INSERT violates a UNIQUE constraint: the call retries from the start
\* of tryAllocatePortBlock, MaxRetries times in all.
InsertConflicts(p) ==
    /\ phase[p] = "insert"
    /\ Conflicts(RowOf(p))
    /\ attempt' = [attempt EXCEPT ![p] = @ + 1]
    /\ phase' = [phase EXCEPT ![p] = IF attempt[p] + 1 < MaxRetries
                                     THEN "scope" ELSE "retries"]
    /\ UNCHANGED <<table, node, cluster, scope, block>>

\* The INSERT fails for another reason: it was not applied, or it was
\* applied and the answer was lost.
InsertFails(p) ==
    /\ QueriesFail
    /\ phase[p] = "insert"
    /\ \/ UNCHANGED table
       \/ ~Conflicts(RowOf(p)) /\ table' = table \cup {RowOf(p)}
    /\ phase' = [phase EXCEPT ![p] = "dberror"]
    /\ UNCHANGED <<node, cluster, scope, block, attempt>>

----------------------------------------------------------------------------
(* Releasing blocks *)

DeallocatePortBlock(c, n) ==
    /\ table' = {r \in table : ~(r.cluster = c /\ r.node = n)}
    /\ UNCHANGED <<phase, node, cluster, scope, block, attempt>>

DeallocateAllPortBlocks(c) ==
    /\ table' = {r \in table : r.cluster # c}
    /\ UNCHANGED <<phase, node, cluster, scope, block, attempt>>

----------------------------------------------------------------------------

Step(p) == \/ CheckExisting(p)  \/ CheckExistingFails(p)
           \/ ReadScope(p)      \/ ReadScopeFails(p)
           \/ ReadBlocks(p)     \/ ReadBlocksFails(p)
           \/ Insert(p)         \/ InsertConflicts(p)  \/ InsertFails(p)

Next == \/ \E p \in Calls : Step(p)
        \/ \E p \in Calls, n \in Nodes, c \in Clusters :
              AllocatePortBlock(p, n, c)
        \/ \E c \in Clusters, n \in Nodes : DeallocatePortBlock(c, n)
        \/ \E c \in Clusters : DeallocateAllPortBlocks(c)

Spec == Init /\ [][Next]_vars

\* A goroutine that can take its next step eventually does: every query and
\* Exec of the code returns, if only with the error of its context.
FairSpec == Spec /\ \A p \in Calls : WF_vars(Step(p))

----------------------------------------------------------------------------
(* Properties *)

\* Two namespaces never share a port on a node, whatever the interleaving of
\* reads, inserts, releases and failed queries.
NoOverlapOnNode ==
    \A r, s \in table :
        r # s /\ r.node = s.node => PortsOf(r.block) \cap PortsOf(s.block) = {}

\* A cluster holds at most one block per node, however many calls for it run
\* at once (two gateways that recover the same cluster, a recovery and a
\* repair).
OneBlockPerClusterNode ==
    \A r, s \in table : r.node = s.node /\ r.cluster = s.cluster => r = s

\* A node never hosts more than MaxNamespacesPerNode namespaces, although
\* the count is read before the insert and a failed read counts nothing.
WithinCapacity ==
    \A n \in Nodes :
        Cardinality({r \in table : r.node = n}) <= MaxNamespacesPerNode

\* A call below capacity always finds a block: ErrNoPortsAvailable, which
\* tryAllocatePortBlock returns after its search loop, is never returned.
FreeBlockFound == \A p \in Calls : phase[p] # "noports"

\* Nodes on one host never share a port: what tryAllocatePortBlock reads the
\* blocks by address for ("check allocations by IP address to prevent port
\* conflicts").
NoOverlapOnHost ==
    \A r, s \in table :
        r # s /\ IpOf[r.node] = IpOf[s.node]
            => PortsOf(r.block) \cap PortsOf(s.block) = {}

\* Every step of the allocator is a step of the abstract ledger: a block is
\* granted only while it is free on its node and the cluster has none there,
\* and rows are lost only to a release.
Ledger == INSTANCE PortLedger WITH table <- table
LedgerSpec == Ledger!Spec

\* Every call ends: conflicts are retried a bounded number of times.
EveryCallEnds ==
    \A p \in Calls : phase[p] \in Running ~> phase[p] \notin Running

=============================================================================
