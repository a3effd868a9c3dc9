------------------------ MODULE PortAllocatorProofs ------------------------
(***************************************************************************)
(* Proofs about PortAllocator, for every set of nodes, clusters, hosts and *)
(* concurrent calls, every number of blocks and of retries, and with       *)
(* statements that may fail at any point.                                  *)
(***************************************************************************)
EXTENDS PortAllocator, FiniteSetTheorems, TLAPS

----------------------------------------------------------------------------
(* Lemmas about the operators *)

\* A non-empty set of blocks has a first one, which is what the search loop
\* of tryAllocatePortBlock returns.
LEMMA MinInSet ==
    ASSUME NEW S \in SUBSET Nat, S # {}
    PROVE  Min(S) \in S
<1>1. PICK x \in S : \A y \in S : ~(<<y, x>> \in OpToRel(<, Nat))
  BY NatLessThanWellFounded, WFMin, Zenon
<1>2. \A y \in S : ~(y < x)
  BY <1>1, Zenon DEF OpToRel
<1>3. \A y \in S : x <= y
  BY <1>2
<1> QED
  BY <1>3 DEF Min

\* Different blocks have no port in common: the starts are PortsPerNamespace
\* apart.
LEMMA DistinctBlocksDisjoint ==
    ASSUME NEW a \in Blocks, NEW b \in Blocks, a # b
    PROVE  PortsOf(a) \cap PortsOf(b) = {}
BY AllocatorAssumption
   DEF PortsOf, Blocks, NamespacePortRangeStart, PortsPerNamespace

\* There are NumBlocks blocks.
LEMMA BlocksCardinality ==
    IsFiniteSet(Blocks) /\ Cardinality(Blocks) = NumBlocks
<1> DEFINE last == NumBlocks - 1
<1>1. last \in Int /\ last >= 0 /\ last - 0 + 1 = NumBlocks
  BY AllocatorAssumption
<1> HIDE DEF last
<1>2. /\ IsFiniteSet(0 .. last)
      /\ Cardinality(0 .. last) = IF 0 > last THEN 0 ELSE last - 0 + 1
  BY <1>1, FS_Interval
<1>3. Cardinality(0 .. last) = NumBlocks
  BY <1>1, <1>2
<1> QED
  BY <1>2, <1>3 DEF Blocks, last

\* Rows that are fewer than the blocks leave a block free (pigeonhole), so
\* the search loop does not run off its end.
LEMMA FewRowsLeaveABlock ==
    ASSUME NEW R \in SUBSET Rows, IsFiniteSet(R),
           Cardinality(R) < MaxNamespacesPerNode
    PROVE  Blocks \ {r.block : r \in R} # {}
<1> SUFFICES ASSUME Blocks \subseteq {r.block : r \in R} PROVE FALSE
  OBVIOUS
<1> DEFINE f == [r \in R |-> r.block]
<1>1. f \in Surjection(R, Blocks)
  <2>1. f \in [R -> Blocks]
    BY DEF Rows
  <2>2. \A b \in Blocks : \E r \in R : f[r] = b
    OBVIOUS
  <2> QED
    BY <2>1, <2>2 DEF Surjection
<1>2. Cardinality(Blocks) <= Cardinality(R)
  BY <1>1, FS_Surjection
<1>3. Cardinality(R) \in Nat
  BY FS_CardinalityType
<1> QED
  BY <1>2, <1>3, BlocksCardinality, AllocatorAssumption
     DEF MaxNamespacesPerNode

----------------------------------------------------------------------------
(* The inductive invariant *)

\* On a node a block has one row and a cluster has one row: what the UNIQUE
\* constraints keep.
KeysUnique ==
    \A r, s \in table :
        r.node = s.node /\ (r.block = s.block \/ r.cluster = s.cluster) => r = s

\* The table is finite, so that counting its rows means something.
TableFinite == IsFiniteSet(table)

\* A call that is still running has attempts left.
AttemptsLeft == \A p \in Calls : phase[p] \in Running => attempt[p] < MaxRetries

IInv == TypeOK /\ KeysUnique /\ TableFinite /\ AttemptsLeft /\ FreeBlockFound

\* The table's part of the invariant, and the calls' part.
TableInv == table \subseteq Rows /\ KeysUnique /\ TableFinite
CallInv  == /\ phase \in [Calls -> Phases]
            /\ node \in [Calls -> Nodes]
            /\ cluster \in [Calls -> Clusters]
            /\ scope \in [Calls -> Scopes]
            /\ block \in [Calls -> Blocks]
            /\ attempt \in [Calls -> 0 .. MaxRetries]
            /\ AttemptsLeft
            /\ FreeBlockFound

\* The two parts are the whole.
LEMMA IInvParts == IInv <=> TableInv /\ CallInv
BY DEF IInv, TableInv, CallInv, TypeOK

\* The initial table is empty and no call has started.
LEMMA InitIInv == Init => IInv
<1> SUFFICES ASSUME Init PROVE IInv
  OBVIOUS
<1>1. TableInv
  BY FS_EmptySet DEF Init, TableInv, KeysUnique, TableFinite
<1>2. 0 \in Blocks /\ 0 \in 0 .. MaxRetries
  BY AllocatorAssumption DEF Blocks
<1>3. CallInv
  BY <1>2, AllocatorAssumption
     DEF Init, CallInv, AttemptsLeft, FreeBlockFound, Phases, Running, Scopes
<1> QED
  BY <1>1, <1>3, IInvParts

\* Picking a block keeps the call's state well typed and finds a block
\* whenever the capacity check lets the call go on.
LEMMA PickBlockStep ==
    ASSUME CallInv, NEW p \in Calls, phase[p] \in Running,
           NEW R \in SUBSET Rows, IsFiniteSet(R), PickBlock(p, R),
           UNCHANGED <<node, cluster, scope, attempt>>
    PROVE  CallInv'
<1> DEFINE free == Blocks \ {r.block : r \in R}
<1>1. Cardinality(R) \in Nat
  BY FS_CardinalityType
<1>2. CASE Cardinality(R) >= MaxNamespacesPerNode
  <2>1. phase' = [phase EXCEPT ![p] = "capacity"] /\ block' = block
    BY <1>1, <1>2, AllocatorAssumption DEF PickBlock, MaxNamespacesPerNode
  <2> QED
    BY <2>1 DEF CallInv, AttemptsLeft, FreeBlockFound, Phases, Failures, Running
<1>3. CASE Cardinality(R) < MaxNamespacesPerNode
  <2>1. free # {}
    BY <1>3, FewRowsLeaveABlock
  <2>2. Min(free) \in Blocks
    <3>1. free \in SUBSET Nat
      BY AllocatorAssumption DEF Blocks
    <3> QED
      BY <2>1, <3>1, MinInSet
  <2>3. /\ phase' = [phase EXCEPT ![p] = "insert"]
        /\ block' = [block EXCEPT ![p] = Min(free)]
    BY <1>1, <1>3, <2>1, AllocatorAssumption DEF PickBlock, MaxNamespacesPerNode
  <2> HIDE DEF free
  <2> QED
    BY <2>2, <2>3 DEF CallInv, AttemptsLeft, FreeBlockFound, Phases, Running
<1> QED
  BY <1>1, <1>2, <1>3, AllocatorAssumption DEF MaxNamespacesPerNode

\* An accepted INSERT keeps the keys unique and the table finite.
LEMMA InsertRow ==
    ASSUME TableInv, CallInv, NEW p \in Calls,
           ~Conflicts(RowOf(p)), table' = table \cup {RowOf(p)}
    PROVE  TableInv'
<1>1. RowOf(p) \in Rows
  BY DEF CallInv, RowOf, Rows
<1>2. TableFinite'
  BY FS_AddElement DEF TableInv, TableFinite
<1>3. KeysUnique'
  BY DEF TableInv, KeysUnique, Conflicts
<1> QED
  BY <1>1, <1>2, <1>3 DEF TableInv

\* A release keeps the invariant of the table.
LEMMA ReleaseRows ==
    ASSUME TableInv, table' \subseteq table
    PROVE  TableInv'
BY FS_Subset DEF TableInv, KeysUnique, TableFinite

\* Every step of a call keeps the inductive invariant.
LEMMA StepIInv ==
    ASSUME TableInv, CallInv, NEW p \in Calls, Step(p)
    PROVE  TableInv' /\ CallInv'
<1>1. UNCHANGED table => TableInv'
  BY DEF TableInv, KeysUnique, TableFinite
<1>2. CASE CheckExisting(p)
  <2>1. \A r \in PortBlocksOf(cluster[p], node[p]) : r.block \in Blocks
    BY DEF PortBlocksOf, TableInv, Rows
  <2>2. CallInv'
    BY <1>2, <2>1 DEF CheckExisting, CallInv, AttemptsLeft, FreeBlockFound,
                      Phases, Running
  <2> QED
    BY <1>1, <1>2, <2>2 DEF CheckExisting
<1>3. CASE CheckExistingFails(p)
  BY <1>1, <1>3 DEF CheckExistingFails, CallInv, AttemptsLeft, FreeBlockFound,
                    Phases, Running
<1>4. CASE ReadScope(p)
  BY <1>1, <1>4 DEF ReadScope, CallInv, AttemptsLeft, FreeBlockFound, Phases,
                    Running, Scopes
<1>5. CASE ReadScopeFails(p)
  BY <1>1, <1>5 DEF ReadScopeFails, CallInv, AttemptsLeft, FreeBlockFound,
                    Phases, Running, Scopes
<1>6. CASE ReadBlocks(p)
  <2>1. AllocatedBlocks(p) \in SUBSET Rows /\ IsFiniteSet(AllocatedBlocks(p))
    BY FS_Subset DEF AllocatedBlocks, TableInv, TableFinite
  <2>2. phase[p] \in Running
    BY <1>6 DEF ReadBlocks, Running
  <2>3. CallInv'
    BY <1>6, <2>1, <2>2, PickBlockStep DEF ReadBlocks
  <2> QED
    BY <1>1, <1>6, <2>3 DEF ReadBlocks
<1>7. CASE ReadBlocksFails(p)
  <2>1. CASE scope[p] = "noip"
    BY <1>1, <1>7, <2>1 DEF ReadBlocksFails, CallInv, AttemptsLeft,
                            FreeBlockFound, Phases, Failures, Running
  <2>2. CASE scope[p] # "noip"
    <3>1. phase[p] \in Running
      BY <1>7 DEF ReadBlocksFails, Running
    <3>2. CallInv'
      BY <1>7, <2>2, <3>1, FS_EmptySet, PickBlockStep DEF ReadBlocksFails
    <3> QED
      BY <1>1, <1>7, <3>2 DEF ReadBlocksFails
  <2> QED
    BY <2>1, <2>2
<1>8. CASE Insert(p)
  <2>1. TableInv'
    BY <1>8, InsertRow DEF Insert
  <2>2. CallInv'
    BY <1>8 DEF Insert, CallInv, AttemptsLeft, FreeBlockFound, Phases, Running
  <2> QED
    BY <2>1, <2>2
<1>9. CASE InsertConflicts(p)
  <2>1. attempt[p] < MaxRetries /\ attempt[p] \in Nat
    BY <1>9 DEF InsertConflicts, CallInv, AttemptsLeft, Running
  <2>2. CallInv'
    BY <1>9, <2>1, AllocatorAssumption
       DEF InsertConflicts, CallInv, AttemptsLeft, FreeBlockFound, Phases,
           Running, Failures
  <2> QED
    BY <1>1, <1>9, <2>2 DEF InsertConflicts
<1>10. CASE InsertFails(p)
  <2>1. TableInv'
    BY <1>1, <1>10, InsertRow DEF InsertFails
  <2>2. CallInv'
    BY <1>10 DEF InsertFails, CallInv, AttemptsLeft, FreeBlockFound, Phases,
                 Failures, Running
  <2> QED
    BY <2>1, <2>2
<1> QED
  BY <1>2, <1>3, <1>4, <1>5, <1>6, <1>7, <1>8, <1>9, <1>10 DEF Step

\* Every step of the system keeps the inductive invariant.
LEMMA NextIInv == IInv /\ [Next]_vars => IInv'
<1> SUFFICES ASSUME TableInv, CallInv, [Next]_vars PROVE TableInv' /\ CallInv'
  BY DEF IInv, TableInv, CallInv, TypeOK
<1>1. UNCHANGED table => TableInv'
  BY DEF TableInv, KeysUnique, TableFinite
<1>2. UNCHANGED <<phase, node, cluster, scope, block, attempt>> => CallInv'
  BY DEF CallInv, AttemptsLeft, FreeBlockFound
<1>3. ASSUME NEW p \in Calls, Step(p) PROVE TableInv' /\ CallInv'
  BY <1>3, StepIInv
<1>4. ASSUME NEW p \in Calls, NEW n \in Nodes, NEW c \in Clusters,
             AllocatePortBlock(p, n, c)
      PROVE  TableInv' /\ CallInv'
  <2>1. CallInv'
    BY <1>4, AllocatorAssumption
       DEF AllocatePortBlock, CallInv, AttemptsLeft, FreeBlockFound, Phases,
           Running
  <2> QED
    BY <1>1, <1>4, <2>1 DEF AllocatePortBlock
<1>5. ASSUME NEW c \in Clusters, NEW n \in Nodes, DeallocatePortBlock(c, n)
      PROVE  TableInv' /\ CallInv'
  BY <1>2, <1>5, ReleaseRows DEF DeallocatePortBlock
<1>6. ASSUME NEW c \in Clusters, DeallocateAllPortBlocks(c)
      PROVE  TableInv' /\ CallInv'
  BY <1>2, <1>6, ReleaseRows DEF DeallocateAllPortBlocks
<1>7. CASE UNCHANGED vars
  BY <1>1, <1>2, <1>7 DEF vars
<1> QED
  BY <1>3, <1>4, <1>5, <1>6, <1>7 DEF Next

\* The inductive invariant holds in every reachable state.
THEOREM InductiveInvariant == Spec => []IInv
BY InitIInv, NextIInv, PTL DEF Spec

----------------------------------------------------------------------------
(* The results *)

\* AllocatePortBlock and the releases keep the table and the local state of
\* every call well typed.
THEOREM TypeCorrect == Spec => []TypeOK
<1>1. IInv => TypeOK
  BY DEF IInv
<1> QED
  BY <1>1, InductiveInvariant, PTL

\* No two namespaces share a port on a node, for any number of calls that
\* read and insert concurrently and however their statements fail.
THEOREM NodePortsDisjoint == Spec => []NoOverlapOnNode
<1>1. IInv => NoOverlapOnNode
  <2> SUFFICES ASSUME IInv, NEW r \in table, NEW s \in table,
                      r # s, r.node = s.node
               PROVE  PortsOf(r.block) \cap PortsOf(s.block) = {}
    BY DEF NoOverlapOnNode
  <2>1. r.block \in Blocks /\ s.block \in Blocks
    BY DEF IInv, TypeOK, Rows
  <2>2. r.block # s.block
    BY DEF IInv, KeysUnique
  <2> QED
    BY <2>1, <2>2, DistinctBlocksDisjoint
<1> QED
  BY <1>1, InductiveInvariant, PTL

\* A cluster never holds two blocks on a node.
THEOREM SingleBlock == Spec => []OneBlockPerClusterNode
<1>1. IInv => OneBlockPerClusterNode
  BY DEF IInv, KeysUnique, OneBlockPerClusterNode
<1> QED
  BY <1>1, InductiveInvariant, PTL

\* A node never hosts more than MaxNamespacesPerNode namespaces, although the
\* count is read before the insert: the rows of a node have different blocks.
THEOREM CapacityKept == Spec => []WithinCapacity
<1>1. IInv => WithinCapacity
  <2> SUFFICES ASSUME IInv, NEW n \in Nodes
               PROVE  Cardinality({r \in table : r.node = n})
                          <= MaxNamespacesPerNode
    BY DEF WithinCapacity
  <2> DEFINE R == {r \in table : r.node = n}
             f == [r \in R |-> r.block]
  <2>1. f \in [R -> Blocks]
    BY DEF IInv, TypeOK, Rows
  <2>2. \A a, b \in R : f[a] = f[b] => a = b
    BY DEF IInv, KeysUnique
  <2>3. f \in Injection(R, Blocks)
    BY <2>1, <2>2 DEF Injection, IsInjective
  <2> QED
    BY <2>3, FS_Injection, BlocksCardinality DEF MaxNamespacesPerNode
<1> QED
  BY <1>1, InductiveInvariant, PTL

\* ErrNoPortsAvailable is unreachable: below capacity a block is free.
THEOREM SearchSucceeds == Spec => []FreeBlockFound
<1>1. IInv => FreeBlockFound
  BY DEF IInv
<1> QED
  BY <1>1, InductiveInvariant, PTL

\* The allocator implements the abstract ledger: reads, retries and failed
\* statements are stuttering steps, an accepted INSERT is a grant of a free
\* block, and a release only removes rows of its cluster.
THEOREM ImplementsLedger == Spec => LedgerSpec
<1>1. Init => Ledger!Init
  BY DEF Init, Ledger!Init
<1>2. IInv /\ [Next]_vars => [Ledger!Next]_table
  <2> SUFFICES ASSUME IInv, [Next]_vars PROVE Ledger!Next \/ UNCHANGED table
    OBVIOUS
  <2>1. ASSUME NEW p \in Calls, ~Conflicts(RowOf(p)),
               table' = table \cup {RowOf(p)}
        PROVE  Ledger!Next
    <3>1. RowOf(p) \in Ledger!Rows
      BY DEF IInv, TypeOK, RowOf, Ledger!Rows
    <3>2. Ledger!Grant(RowOf(p))
      BY <2>1 DEF Ledger!Grant, Conflicts
    <3> QED
      BY <3>1, <3>2 DEF Ledger!Next
  <2>2. ASSUME NEW p \in Calls, Step(p)
        PROVE  Ledger!Next \/ UNCHANGED table
    <3>1. \/ UNCHANGED table
          \/ ~Conflicts(RowOf(p)) /\ table' = table \cup {RowOf(p)}
      BY <2>2 DEF Step, CheckExisting, CheckExistingFails, ReadScope,
                  ReadScopeFails, ReadBlocks, ReadBlocksFails, Insert,
                  InsertConflicts, InsertFails
    <3> QED
      BY <2>1, <3>1
  <2>3. ASSUME NEW c \in Clusters, NEW n \in Nodes, DeallocatePortBlock(c, n)
        PROVE  Ledger!Next
    BY <2>3 DEF DeallocatePortBlock, Ledger!Next, Ledger!Release
  <2>4. ASSUME NEW c \in Clusters, DeallocateAllPortBlocks(c)
        PROVE  Ledger!Next
    BY <2>4 DEF DeallocateAllPortBlocks, Ledger!Next, Ledger!Release
  <2> QED
    BY <2>2, <2>3, <2>4 DEF Next, AllocatePortBlock, vars
<1> QED
  BY <1>1, <1>2, InductiveInvariant, PTL DEF Spec, LedgerSpec, Ledger!Spec
=============================================================================
