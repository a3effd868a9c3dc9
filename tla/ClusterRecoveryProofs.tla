----------------------- MODULE ClusterRecoveryProofs -----------------------
(* Proofs about ClusterRecovery, for any nodes, processes and failures. *)
EXTENDS ClusterRecovery, FiniteSetTheorems, TLAPS

\* The members that have never been down.
Survivors == Members \ everDown

\* Where a task has a replacement, and where it has read the members.
Chosen == {"alloc", "survivors", "rollback", "dns"} \cup Roles
Informed == {"ports", "select"} \cup Chosen

PCs == {"idle", "done"} \cup Running

\* No survivor is handled as dead, none is missing from the nodes a task must
\* not select, and hence none is a replacement.
SparesSurvivors ==
    \A t \in Tasks :
        /\ pc[t] \in Running => Dead(t) \notin Survivors
        /\ pc[t] \in Informed => Survivors \subseteq exclude[t]
        /\ pc[t] \in Chosen => repl[t] \in Nodes \ Survivors

\* A node that is down has been down.
DownSeen == \A n \in Nodes : up[n] \/ n \in everDown

Inv == TypeOK /\ DownSeen /\ SparesSurvivors /\ SurvivorsKept

\* The rows of the node tables.
NodeTypes ==
    /\ up \in [Nodes -> BOOLEAN]
    /\ crashes \in 0 .. MaxCrashes
    /\ everDown \subseteq Nodes
    /\ dns \in [Nodes -> {"active", "offline"}]
    /\ DownSeen

\* What the tasks share, and what of it belongs to the survivors.
Shared ==
    /\ rows \in [Nodes -> [Roles -> {"none", "running", "failed"}]]
    /\ blocks \subseteq Nodes
    /\ records \subseteq Nodes
    /\ status \in {"ready", "degraded"}
    /\ disturbed \in BOOLEAN
    /\ failures \in 0 .. MaxFailures
    /\ SurvivorsKept

\* What belongs to the tasks.
Locals ==
    /\ pc \in [Tasks -> PCs]
    /\ exclude \in [Tasks -> SUBSET Nodes]
    /\ repl \in [Tasks -> Nodes \cup {NoNode}]
    /\ roles \in [Tasks -> SUBSET Roles]
    /\ errs \in [Tasks -> BOOLEAN]
    /\ left \in [Tasks -> Int]
    /\ added \in [Tasks -> BOOLEAN]
    /\ SparesSurvivors

\* The invariant splits into the nodes, what the managers share, and their local
\* state,
LEMMA Parts == Inv <=> NodeTypes /\ Shared /\ Locals
BY DEF Inv, TypeOK, NodeTypes, Shared, Locals, PCs

\* and so it does after a step.
LEMMA PartsAfter == Inv' <=> NodeTypes' /\ Shared' /\ Locals'
BY DEF Inv, TypeOK, NodeTypes, Shared, Locals, PCs

\* A step of one task keeps the invariant of the tasks if it leaves the task
\* itself as it should be.
LEMMA LocalStep ==
    ASSUME Inv, NEW t \in Tasks, NEW p \in PCs, NEW x \in SUBSET Nodes,
           NEW m \in Nodes \cup {NoNode}, NEW rs \in SUBSET Roles,
           NEW e \in BOOLEAN, NEW l \in Int, NEW a \in BOOLEAN,
           p \in Running => Dead(t) \notin Survivors,
           p \in Informed => Survivors \subseteq x,
           p \in Chosen => m \in Nodes \ Survivors,
           pc' = [pc EXCEPT ![t] = p], exclude' = [exclude EXCEPT ![t] = x],
           repl' = [repl EXCEPT ![t] = m], roles' = [roles EXCEPT ![t] = rs],
           errs' = [errs EXCEPT ![t] = e], left' = [left EXCEPT ![t] = l],
           added' = [added EXCEPT ![t] = a], UNCHANGED everDown
    PROVE  Locals'
<1> USE Parts DEF Locals
<1>1. /\ pc' \in [Tasks -> PCs] /\ exclude' \in [Tasks -> SUBSET Nodes]
      /\ repl' \in [Tasks -> Nodes \cup {NoNode}]
      /\ roles' \in [Tasks -> SUBSET Roles] /\ errs' \in [Tasks -> BOOLEAN]
      /\ left' \in [Tasks -> Int] /\ added' \in [Tasks -> BOOLEAN]
  OBVIOUS
<1>2. SparesSurvivors'
  BY DEF SparesSurvivors, Survivors
<1> QED
  BY <1>1, <1>2

\* A step that only moves a task on.
LEMMA MovesOn ==
    ASSUME Inv, NEW t \in Tasks, NEW p \in PCs,
           p \in Running => Dead(t) \notin Survivors,
           p \in Informed => Survivors \subseteq exclude[t],
           p \in Chosen => repl[t] \in Nodes \ Survivors,
           pc' = [pc EXCEPT ![t] = p], UNCHANGED localVars, UNCHANGED everDown
    PROVE  Locals'
<1>1. /\ exclude[t] \in SUBSET Nodes /\ repl[t] \in Nodes \cup {NoNode}
      /\ roles[t] \in SUBSET Roles /\ errs[t] \in BOOLEAN /\ left[t] \in Int
      /\ added[t] \in BOOLEAN
      /\ exclude' = [exclude EXCEPT ![t] = exclude[t]]
      /\ repl' = [repl EXCEPT ![t] = repl[t]]
      /\ roles' = [roles EXCEPT ![t] = roles[t]]
      /\ errs' = [errs EXCEPT ![t] = errs[t]]
      /\ left' = [left EXCEPT ![t] = left[t]]
      /\ added' = [added EXCEPT ![t] = added[t]]
  BY Parts DEF Locals, localVars
<1> QED
  BY <1>1, LocalStep

\* A task that returns.
LEMMA Returns ==
    ASSUME Inv, NEW t \in Tasks, NEW p \in {"idle", "done"}, Return(t, p),
           UNCHANGED everDown
    PROVE  Locals'
<1>1. /\ p \in PCs /\ p \notin Running /\ p \notin Informed /\ p \notin Chosen
      /\ {} \in SUBSET Nodes /\ NoNode \in Nodes \cup {NoNode}
      /\ {} \in SUBSET Roles /\ 0 \in Int /\ FALSE \in BOOLEAN
  BY DEF PCs, Running, Locking, Working, Informed, Chosen, Roles
<1> QED
  BY <1>1, LocalStep DEF Return

\* The end of a call that gives the replacement up.
LEMMA Abandons ==
    ASSUME Inv, NEW t \in Tasks, pc[t] \in Running, UNCHANGED everDown,
           IF IsRepair(t) THEN EndLoop(t) ELSE Return(t, "done")
    PROVE  Locals'
<1>1. CASE Return(t, "done")
  BY <1>1, Returns
<1>2. CASE Return(t, "idle")
  BY <1>2, Returns
<1>3. CASE pc' = [pc EXCEPT ![t] = "finish"] /\ UNCHANGED localVars
  <2>1. /\ "finish" \in PCs /\ "finish" \notin Informed /\ "finish" \notin Chosen
        /\ Dead(t) \notin Survivors
    BY Parts DEF PCs, Running, Locking, Working, Informed, Chosen, Roles, Locals,
                 SparesSurvivors
  <2> QED
    BY <1>3, <2>1, MovesOn
<1> QED
  BY <1>1, <1>2, <1>3 DEF EndLoop

----------------------------------------------------------------------------
(* What a step of a task may do to what the tasks share *)

\* What only the properties remember stays well typed.
LEMMA GhostTypes ==
    ASSUME Inv, UNCHANGED ghosts \/ Lost \/ GivesUp
    PROVE  disturbed' \in BOOLEAN /\ failures' \in 0 .. MaxFailures
<1>1. disturbed \in BOOLEAN /\ failures \in 0 .. MaxFailures /\ MaxFailures \in Nat
  BY RecoveryAssumption DEF Inv, TypeOK
<1>2. disturbed' = disturbed \/ disturbed' = TRUE
  BY Zenon DEF ghosts, Lost, GivesUp
<1>3. \/ failures' = failures
      \/ failures < MaxFailures /\ failures' = failures + 1
  BY Zenon DEF ghosts, Lost, GivesUp, Failure
<1>4. disturbed' \in BOOLEAN
  BY <1>1, <1>2, Zenon
<1>5. failures' \in 0 .. MaxFailures
  BY <1>1, <1>3
<1> QED
  BY <1>4, <1>5

\* The rows of a node that is no survivor change.
LEMMA RowsStep ==
    ASSUME Inv, UNCHANGED ghosts \/ Lost \/ GivesUp,
           UNCHANGED <<blocks, records, status, everDown>>,
           rows' \in [Nodes -> [Roles -> {"none", "running", "failed"}]],
           \A n \in Survivors : rows'[n] = rows[n]
    PROVE  Shared'
BY Parts, GhostTypes DEF Shared, SurvivorsKept, Survivors

\* Ports, records or the status change.
LEMMA OtherStep ==
    ASSUME Inv, UNCHANGED ghosts \/ Lost \/ GivesUp, UNCHANGED <<rows, everDown>>,
           blocks' \subseteq Nodes, blocks \cap Survivors \subseteq blocks',
           records' \subseteq Nodes, records \cap Survivors \subseteq records',
           status' \in {"ready", "degraded"}
    PROVE  Shared'
BY Parts, GhostTypes DEF Shared, SurvivorsKept, Survivors

\* A step that leaves the cluster's tables alone keeps what the managers share.
LEMMA SharedSame ==
    ASSUME Inv, UNCHANGED ghosts \/ Lost \/ GivesUp, UNCHANGED clusterVars,
           UNCHANGED everDown
    PROVE  Shared'
BY Parts, GhostTypes DEF Shared, SurvivorsKept, clusterVars

\* A step that leaves the nodes alone keeps what holds of them.
LEMMA NodesSame ==
    ASSUME Inv, UNCHANGED nodeVars, UNCHANGED dns
    PROVE  NodeTypes' /\ UNCHANGED everDown
BY Parts DEF NodeTypes, DownSeen, nodeVars

\* Every program counter of the model is one of PCs.
LEMMA PCTypes ==
    /\ Running \subseteq PCs /\ {"idle", "done"} \subseteq PCs
    /\ Locking \subseteq Running /\ Working \subseteq Running
    /\ Chosen \subseteq Informed /\ Informed \subseteq Running /\ Roles \subseteq Chosen
    /\ "offline" \in Locking /\ "find" \in Locking /\ "lock" \in Locking
BY DEF PCs, Running, Locking, Working, Informed, Chosen, Roles

----------------------------------------------------------------------------

\* Where the survivors stand when t is in its program.
LEMMA TaskSpares ==
    ASSUME Inv, NEW t \in Tasks
    PROVE  /\ pc[t] \in Running => Dead(t) \notin Survivors
           /\ pc[t] \in Informed => Survivors \subseteq exclude[t]
           /\ pc[t] \in Chosen => repl[t] \in Nodes \ Survivors
           /\ exclude[t] \in SUBSET Nodes /\ repl[t] \in Nodes \cup {NoNode}
           /\ roles[t] \in SUBSET Roles /\ errs[t] \in BOOLEAN /\ left[t] \in Int
           /\ added[t] \in BOOLEAN
BY Parts DEF Locals, SparesSurvivors

\* The nodes with rows are all the survivors and maybe others.
LEMMA SurvivorsHaveRows ==
    ASSUME Inv
    PROVE  Survivors \subseteq {n \in Nodes : HasRows(n)}
<1>1. Survivors \subseteq Nodes
  BY RecoveryAssumption DEF Survivors
<1>2. \A n \in Survivors : rows[n]["rqlite"] # "none"
  BY DEF Inv, SurvivorsKept, Survivors, Roles
<1> QED
  BY <1>1, <1>2 DEF HasRows, Roles

\* The number of missing members is an integer.
LEMMA MissingIsInt ==
    ASSUME Inv PROVE Missing \in Int
<1>1. IsFiniteSet(Nodes) /\ Members \subseteq Nodes
  BY RecoveryAssumption
<1>2. ActiveNodes \subseteq Nodes
  BY DEF ActiveNodes
<1>3. IsFiniteSet(Members) /\ IsFiniteSet(ActiveNodes)
  BY <1>1, <1>2, FS_Subset
<1>4. Cardinality(Members) \in Nat /\ Cardinality(ActiveNodes) \in Nat
  BY <1>3, FS_CardinalityType
<1> QED
  BY <1>4 DEF Missing

\* A step that changes nothing but where the task stands.
LEMMA OnlyMoves ==
    ASSUME Inv, NEW t \in Tasks, NEW p \in PCs,
           p \in Running => Dead(t) \notin Survivors,
           p \in Informed => Survivors \subseteq exclude[t],
           p \in Chosen => repl[t] \in Nodes \ Survivors,
           pc' = [pc EXCEPT ![t] = p],
           UNCHANGED <<nodeVars, dns, clusterVars, localVars>>,
           UNCHANGED ghosts \/ Lost \/ GivesUp
    PROVE  Inv'
<1>1. NodeTypes' /\ UNCHANGED everDown
  BY NodesSame
<1>2. Locals'
  BY <1>1, MovesOn
<1>3. Shared'
  BY <1>1, SharedSame
<1> QED
  BY <1>1, <1>2, <1>3, PartsAfter

\* A step of a task t that returns, and at most changes the status.
LEMMA Ends ==
    ASSUME Inv, NEW t \in Tasks, pc[t] \in Running,
           \/ IF IsRepair(t) THEN EndLoop(t) ELSE Return(t, "done")
           \/ Return(t, "idle") \/ Return(t, "done"),
           UNCHANGED <<nodeVars, dns, rows, blocks, records>>,
           status' \in {"ready", "degraded"},
           UNCHANGED ghosts \/ Lost \/ GivesUp
    PROVE  Inv'
<1>1. NodeTypes' /\ UNCHANGED everDown
  BY NodesSame
<1>2. Locals'
  BY <1>1, Abandons, Returns
<1>3. blocks \subseteq Nodes /\ records \subseteq Nodes
  BY DEF Inv, TypeOK
<1>4. Shared'
  BY <1>1, <1>3, OtherStep
<1> QED
  BY <1>1, <1>2, <1>4, PartsAfter

\* Every step of a task keeps the invariant.
LEMMA StepKeeps ==
    ASSUME Inv, NEW t \in Tasks, Step(t) PROVE Inv'
<1>s. /\ pc[t] \in Running => Dead(t) \notin Survivors
      /\ pc[t] \in Informed => Survivors \subseteq exclude[t]
      /\ pc[t] \in Chosen => repl[t] \in Nodes \ Survivors
      /\ exclude[t] \in SUBSET Nodes /\ repl[t] \in Nodes \cup {NoNode}
      /\ roles[t] \in SUBSET Roles /\ errs[t] \in BOOLEAN /\ left[t] \in Int
      /\ added[t] \in BOOLEAN
  BY TaskSpares
<1>n. Survivors \subseteq Nodes
  BY RecoveryAssumption DEF Survivors
<1>c. /\ rows \in [Nodes -> [Roles -> {"none", "running", "failed"}]]
      /\ blocks \subseteq Nodes /\ records \subseteq Nodes
      /\ status \in {"ready", "degraded"}
  BY DEF Inv, TypeOK
<1> USE DEF PCs, Running, Locking, Working, Informed, Chosen, Roles
<1>1. CASE MarkOffline(t)
  <2>1. pc' = [pc EXCEPT ![t] = "find"] /\ pc[t] = "offline"
    BY <1>1 DEF MarkOffline
  <2>2. UNCHANGED ghosts \/ Lost \/ GivesUp
    BY <1>1 DEF MarkOffline
  <2>3. NodeTypes' /\ UNCHANGED everDown
    BY <1>1, Parts DEF MarkOffline, NodeTypes, DownSeen, nodeVars
  <2>4. Locals'
    BY <1>1, <1>s, <2>1, <2>3, MovesOn DEF MarkOffline
  <2>5. Shared'
    BY <1>1, <2>2, <2>3, SharedSame DEF MarkOffline
  <2> QED
    BY <2>3, <2>4, <2>5, PartsAfter
<1>2. CASE FindCluster(t)
  <2>1. PICK p \in {"lock", "done"} : pc' = [pc EXCEPT ![t] = p]
    BY <1>2 DEF FindCluster
  <2>2. pc[t] = "find" /\ UNCHANGED <<nodeVars, dns, clusterVars, localVars>>
    BY <1>2 DEF FindCluster
  <2>3. UNCHANGED ghosts \/ Lost \/ GivesUp
    BY <1>2 DEF FindCluster
  <2> QED
    BY <1>s, <2>1, <2>2, <2>3, OnlyMoves
<1>3. CASE TakeLock(t)
  <2>1. PICK p \in {"mark", "done"} : pc' = [pc EXCEPT ![t] = p]
    BY <1>3 DEF TakeLock
  <2>2. pc[t] = "lock" /\ UNCHANGED <<nodeVars, dns, clusterVars, localVars>>
    BY <1>3 DEF TakeLock
  <2>3. UNCHANGED ghosts \/ Lost \/ GivesUp
    BY <1>3 DEF TakeLock
  <2> QED
    BY <1>s, <2>1, <2>2, <2>3, OnlyMoves
<1>4. CASE MarkFailed(t)
  <2>1. /\ pc[t] = "mark" /\ pc' = [pc EXCEPT ![t] = "degrade"]
        /\ UNCHANGED <<nodeVars, dns, blocks, records, status, localVars>>
    BY <1>4 DEF MarkFailed
  <2>2. UNCHANGED ghosts \/ Lost \/ GivesUp
    BY <1>4 DEF MarkFailed
  <2>3. NodeTypes' /\ UNCHANGED everDown
    BY <2>1, NodesSame
  <2>4. Locals'
    BY <1>s, <2>1, <2>3, MovesOn
  <2>5. \/ rows' = rows
        \/ rows' = [rows EXCEPT ![Dead(t)] = [r \in Roles |->
              IF rows[Dead(t)][r] = "none" THEN "none" ELSE "failed"]]
    BY <1>4 DEF MarkFailed
  <2>6. rows' \in [Nodes -> [Roles -> {"none", "running", "failed"}]]
    BY <1>c, <2>5
  <2>7. \A n \in Survivors : rows'[n] = rows[n]
    BY <1>c, <1>n, <1>s, <2>1, <2>5
  <2>8. Shared'
    BY <2>1, <2>2, <2>3, <2>6, <2>7, RowsStep
  <2> QED
    BY <2>3, <2>4, <2>8, PartsAfter
<1>5. CASE Degrade(t)
  <2>1. /\ pc[t] = "degrade" /\ pc' = [pc EXCEPT ![t] = "read"]
        /\ UNCHANGED <<nodeVars, dns, rows, blocks, records, localVars>>
    BY <1>5 DEF Degrade
  <2>2. UNCHANGED ghosts \/ Lost \/ GivesUp
    BY <1>5 DEF Degrade
  <2>3. NodeTypes' /\ UNCHANGED everDown
    BY <2>1, NodesSame
  <2>4. Locals'
    BY <1>s, <2>1, <2>3, MovesOn
  <2>5. status' \in {"ready", "degraded"}
    BY <1>5, <1>c, <1>s, <1>n DEF Degrade
  <2>6. Shared'
    BY <1>c, <2>1, <2>2, <2>3, <2>5, OtherStep
  <2> QED
    BY <2>3, <2>4, <2>6, PartsAfter
<1>6. CASE ReadMembers(t)
  <2> DEFINE x == {n \in Nodes : HasRows(n)}
             rs == {r \in Roles : rows[Dead(t)][r] # "none"}
  <2>1. /\ pc[t] = "read" /\ pc' = [pc EXCEPT ![t] = "select"]
        /\ exclude' = [exclude EXCEPT ![t] = x] /\ roles' = [roles EXCEPT ![t] = rs]
        /\ UNCHANGED <<nodeVars, dns, clusterVars, repl, errs, left, added, ghosts>>
    BY <1>6 DEF ReadMembers
  <2>2. x \in SUBSET Nodes /\ rs \in SUBSET Roles /\ Survivors \subseteq x
    BY SurvivorsHaveRows
  <2>3. NodeTypes' /\ UNCHANGED everDown
    BY <2>1, NodesSame
  <2> HIDE DEF x, rs
  <2>4. /\ repl' = [repl EXCEPT ![t] = repl[t]] /\ errs' = [errs EXCEPT ![t] = errs[t]]
        /\ left' = [left EXCEPT ![t] = left[t]]
        /\ added' = [added EXCEPT ![t] = added[t]]
    BY <2>1 DEF Inv, TypeOK
  <2>5. "select" \in PCs /\ Dead(t) \notin Survivors /\ "select" \notin Chosen
    BY <1>s, <2>1
  <2> HIDE DEF PCs, Running, Locking, Working, Informed, Chosen, Roles
  <2>a. /\ pc' = [pc EXCEPT ![t] = "select"] /\ exclude' = [exclude EXCEPT ![t] = x]
        /\ roles' = [roles EXCEPT ![t] = rs]
    BY <2>1
  <2>6. Locals'
    BY <1>s, <2>a, <2>2, <2>3, <2>4, <2>5, LocalStep
  <2>7. Shared'
    BY <2>1, <2>3, SharedSame
  <2> QED
    BY <2>3, <2>6, <2>7, PartsAfter
<1>7. CASE CountMissing(t)
  <2> DEFINE x == {n \in Nodes : HasRows(n)}
  <2>1. /\ pc[t] = "count"
        /\ UNCHANGED <<nodeVars, dns, clusterVars, ghosts>>
    BY <1>7 DEF CountMissing
  <2>2. NodeTypes' /\ UNCHANGED everDown
    BY <2>1, NodesSame
  <2>3. CASE Return(t, "idle")
    BY <1>c, <2>1, <2>3, Ends DEF clusterVars
  <2>4. CASE /\ pc' = [pc EXCEPT ![t] = "ports"]
             /\ exclude' = [exclude EXCEPT ![t] = x]
             /\ left' = [left EXCEPT ![t] = Missing]
             /\ roles' = [roles EXCEPT ![t] = Roles] /\ UNCHANGED <<repl, errs, added>>
    <3>1. x \in SUBSET Nodes /\ Survivors \subseteq x /\ Missing \in Int
      BY SurvivorsHaveRows, MissingIsInt
    <3> HIDE DEF x
    <3>2. /\ repl' = [repl EXCEPT ![t] = repl[t]]
          /\ errs' = [errs EXCEPT ![t] = errs[t]]
          /\ added' = [added EXCEPT ![t] = added[t]]
      BY <2>4 DEF Inv, TypeOK
    <3>3. Locals'
      BY <1>s, <2>1, <2>2, <2>4, <3>1, <3>2, LocalStep
    <3>4. Shared'
      BY <2>1, <2>2, SharedSame
    <3> QED
      BY <2>2, <3>3, <3>4, PartsAfter
  <2> QED
    BY <1>7, <2>3, <2>4 DEF CountMissing
<1>8. CASE ReadPorts(t)
  <2>1. /\ pc[t] = "ports"
        /\ UNCHANGED <<nodeVars, dns, clusterVars, ghosts>>
    BY <1>8 DEF ReadPorts
  <2>2. CASE Return(t, "idle")
    BY <1>c, <2>1, <2>2, Ends DEF clusterVars
  <2>3. CASE pc' = [pc EXCEPT ![t] = "select"] /\ UNCHANGED localVars
    BY <1>s, <2>1, <2>3, OnlyMoves
  <2> QED
    BY <1>8, <2>2, <2>3 DEF ReadPorts
<1>9. CASE ReadFails(t)
  BY <1>9, <1>c, Ends DEF ReadFails, clusterVars
<1>10. CASE Select(t)
  <2>1. /\ pc[t] = "select" /\ pc' = [pc EXCEPT ![t] = "alloc"]
        /\ UNCHANGED <<nodeVars, dns, clusterVars, exclude, roles, errs, left, added,
                       ghosts>>
    BY <1>10 DEF Select
  <2>2. PICK m \in Candidates(t) : repl' = [repl EXCEPT ![t] = m]
    BY <1>10 DEF Select
  <2>3. m \in Nodes \ Survivors
    BY <1>s, <2>1 DEF Candidates
  <2>4. NodeTypes' /\ UNCHANGED everDown
    BY <2>1, NodesSame
  <2>5. /\ exclude' = [exclude EXCEPT ![t] = exclude[t]]
        /\ roles' = [roles EXCEPT ![t] = roles[t]]
        /\ errs' = [errs EXCEPT ![t] = errs[t]]
        /\ left' = [left EXCEPT ![t] = left[t]]
        /\ added' = [added EXCEPT ![t] = added[t]]
    BY <2>1 DEF Inv, TypeOK
  <2>6. "alloc" \in PCs /\ Dead(t) \notin Survivors /\ Survivors \subseteq exclude[t]
    BY <1>s, <2>1
  <2> HIDE DEF PCs, Running, Locking, Working, Informed, Chosen, Roles
  <2>a. pc' = [pc EXCEPT ![t] = "alloc"]
    BY <2>1
  <2>7. Locals'
    BY <1>s, <2>a, <2>2, <2>3, <2>4, <2>5, <2>6, LocalStep
  <2>8. Shared'
    BY <2>1, <2>4, SharedSame
  <2> QED
    BY <2>4, <2>7, <2>8, PartsAfter
<1>11. CASE SelectFails(t)
  BY <1>11, <1>c, Ends DEF SelectFails, clusterVars
<1>12. CASE Allocate(t)
  <2>1. /\ pc[t] = "alloc"
        /\ UNCHANGED <<nodeVars, dns, rows, records, status, localVars, ghosts>>
        /\ blocks' = blocks \cup {repl[t]}
    BY <1>12 DEF Allocate
  <2>2. PICK p \in {"rqlite", "survivors"} : pc' = [pc EXCEPT ![t] = p]
    BY <1>12 DEF Allocate
  <2>3. NodeTypes' /\ UNCHANGED everDown
    BY <2>1, NodesSame
  <2>4. Locals'
    BY <1>s, <2>1, <2>2, <2>3, MovesOn
  <2>5. Shared'
    BY <1>c, <1>s, <2>1, <2>3, OtherStep
  <2> QED
    BY <2>3, <2>4, <2>5, PartsAfter
<1>13. CASE AllocateFails(t)
  BY <1>13, <1>c, Ends DEF AllocateFails, clusterVars
<1>14. CASE ReadSurvivors(t)
  <2>1. PICK p \in {"rqlite", "rollback"} : pc' = [pc EXCEPT ![t] = p]
    BY <1>14 DEF ReadSurvivors
  <2>2. pc[t] = "survivors" /\ UNCHANGED <<nodeVars, dns, clusterVars, localVars>>
    BY <1>14 DEF ReadSurvivors
  <2>3. UNCHANGED ghosts \/ Lost \/ GivesUp
    BY <1>14 DEF ReadSurvivors
  <2> QED
    BY <1>s, <2>1, <2>2, <2>3, OnlyMoves
<1>15. CASE Rollback(t)
  <2>1. /\ pc[t] = "rollback"
        /\ UNCHANGED <<nodeVars, dns, rows, records, status>>
        /\ IF IsRepair(t) THEN EndLoop(t) ELSE Return(t, "done")
    BY <1>15 DEF Rollback
  <2>2. UNCHANGED ghosts \/ Lost \/ GivesUp
    BY <1>15 DEF Rollback
  <2>3. NodeTypes' /\ UNCHANGED everDown
    BY <2>1, NodesSame
  <2>4. Locals'
    BY <2>1, <2>3, Abandons
  <2>5. blocks' \subseteq blocks /\ blocks \cap Survivors \subseteq blocks'
    BY <1>15, <1>s DEF Rollback
  <2>6. Shared'
    BY <1>c, <2>1, <2>2, <2>3, <2>5, OtherStep
  <2> QED
    BY <2>3, <2>4, <2>6, PartsAfter
<1>16. ASSUME NEW r \in Roles, Spawn(t, r) PROVE Inv'
  <2>1. /\ pc[t] = r /\ pc' = [pc EXCEPT ![t] = AfterRole(r)]
        /\ UNCHANGED <<nodeVars, dns, blocks, records, status, localVars>>
    BY <1>16 DEF Spawn
  <2>2. UNCHANGED ghosts \/ Lost \/ GivesUp
    BY <1>16 DEF Spawn
  <2>3. NodeTypes' /\ UNCHANGED everDown
    BY <2>1, NodesSame
  <2>4. AfterRole(r) \in {"olric", "gateway", "dns"}
    BY DEF AfterRole
  <2>5. Locals'
    BY <1>s, <2>1, <2>3, <2>4, MovesOn
  <2>6. rows' = rows \/ InsertRow(repl[t], r)
    BY <1>16 DEF Spawn
  <2>7. rows' \in [Nodes -> [Roles -> {"none", "running", "failed"}]]
    BY <1>c, <2>6 DEF InsertRow
  <2>8. \A n \in Survivors : rows'[n] = rows[n]
    BY <1>c, <1>n, <1>s, <2>1, <2>6 DEF InsertRow
  <2>9. Shared'
    BY <2>1, <2>2, <2>3, <2>7, <2>8, RowsStep
  <2> QED
    BY <2>3, <2>5, <2>9, PartsAfter
<1>17. ASSUME NEW r \in Roles, SpawnFails(t, r) PROVE Inv'
  <2>1. /\ pc[t] = r
        /\ errs' = [errs EXCEPT ![t] = ~IsRepair(t)]
        /\ UNCHANGED <<nodeVars, dns, clusterVars, exclude, repl, roles, left, added>>
        /\ UNCHANGED ghosts \/ Lost \/ GivesUp
    BY <1>17 DEF SpawnFails
  <2>2. PICK p \in {"rollback", "olric", "gateway", "dns"} :
            pc' = [pc EXCEPT ![t] = p]
    BY <1>17 DEF SpawnFails, AfterRole
  <2>3. NodeTypes' /\ UNCHANGED everDown
    BY <2>1, NodesSame
  <2>4. /\ exclude' = [exclude EXCEPT ![t] = exclude[t]]
        /\ repl' = [repl EXCEPT ![t] = repl[t]]
        /\ roles' = [roles EXCEPT ![t] = roles[t]]
        /\ left' = [left EXCEPT ![t] = left[t]]
        /\ added' = [added EXCEPT ![t] = added[t]]
        /\ (~IsRepair(t)) \in BOOLEAN
    BY <2>1 DEF Inv, TypeOK
  <2>5. /\ p \in PCs /\ Dead(t) \notin Survivors /\ Survivors \subseteq exclude[t]
        /\ repl[t] \in Nodes \ Survivors
    BY <1>s, <2>1, <2>2
  <2> HIDE DEF PCs, Running, Locking, Working, Informed, Chosen, Roles
  <2>a. errs' = [errs EXCEPT ![t] = ~IsRepair(t)]
    BY <2>1
  <2>6. Locals'
    BY <1>s, <2>a, <2>2, <2>3, <2>4, <2>5, LocalStep
  <2>7. Shared'
    BY <2>1, <2>3, SharedSame
  <2> QED
    BY <2>3, <2>6, <2>7, PartsAfter
<1>18. ASSUME NEW r \in Roles, SkipRole(t, r) PROVE Inv'
  <2>1. /\ pc[t] = r /\ UNCHANGED <<nodeVars, dns, clusterVars, localVars, ghosts>>
    BY <1>18 DEF SkipRole
  <2>2. PICK p \in {"olric", "gateway", "dns"} : pc' = [pc EXCEPT ![t] = p]
    BY <1>18 DEF SkipRole, AfterRole
  <2> QED
    BY <1>s, <2>1, <2>2, OnlyMoves
<1>19. CASE SwapRecord(t)
  <2>1. /\ pc[t] = "dns" /\ pc' = [pc EXCEPT ![t] = "release"]
        /\ UNCHANGED <<nodeVars, dns, rows, blocks, status, localVars>>
    BY <1>19 DEF SwapRecord
  <2>2. UNCHANGED ghosts \/ Lost \/ GivesUp
    BY <1>19 DEF SwapRecord
  <2>3. NodeTypes' /\ UNCHANGED everDown
    BY <2>1, NodesSame
  <2>4. Locals'
    BY <1>s, <2>1, <2>3, MovesOn
  <2>5. records' \subseteq Nodes /\ records \cap Survivors \subseteq records'
    BY <1>19, <1>c, <1>s, <1>n DEF SwapRecord, UpdateNamespaceRecord
  <2>6. Shared'
    BY <1>c, <2>1, <2>2, <2>3, <2>5, OtherStep
  <2> QED
    BY <2>3, <2>4, <2>6, PartsAfter
<1>20. CASE AddRecord(t)
  <2> DEFINE x == exclude[t] \cup {repl[t]}
             l == left[t] - 1
  <2>1. /\ pc[t] = "dns"
        /\ left' = [left EXCEPT ![t] = l] /\ added' = [added EXCEPT ![t] = TRUE]
        /\ exclude' = [exclude EXCEPT ![t] = x]
        /\ UNCHANGED <<nodeVars, dns, rows, blocks, status, repl, roles, errs>>
    BY <1>20 DEF AddRecord
  <2>2. PICK p \in {"select", "finish"} : pc' = [pc EXCEPT ![t] = p]
    BY <1>20 DEF AddRecord
  <2>3. UNCHANGED ghosts \/ Lost \/ GivesUp
    BY <1>20 DEF AddRecord
  <2>4. NodeTypes' /\ UNCHANGED everDown
    BY <2>1, NodesSame
  <2>5. x \in SUBSET Nodes /\ l \in Int /\ Survivors \subseteq x /\ TRUE \in BOOLEAN
    BY <1>s, <2>1
  <2> HIDE DEF x, l
  <2>6. /\ repl' = [repl EXCEPT ![t] = repl[t]]
        /\ roles' = [roles EXCEPT ![t] = roles[t]]
        /\ errs' = [errs EXCEPT ![t] = errs[t]]
    BY <2>1 DEF Inv, TypeOK
  <2>7. Locals'
    <3>1. /\ p \in PCs /\ p \notin Chosen
          /\ p \in Running => Dead(t) \notin Survivors
      BY <1>s, <2>1
    <3>2. repl[t] \in Nodes \cup {NoNode} /\ roles[t] \in SUBSET Roles /\ errs[t] \in BOOLEAN
      BY <1>s
    <3> HIDE DEF PCs, Running, Locking, Working, Informed, Chosen, Roles
    <3> QED
      BY <2>1, <2>2, <2>4, <2>5, <2>6, <3>1, <3>2, LocalStep, Zenon
  <2>8. records \subseteq records' /\ records' \subseteq Nodes
    BY <1>20, <1>c, <1>s, <2>1 DEF AddRecord
  <2>9. Shared'
    BY <1>c, <2>1, <2>3, <2>4, <2>8, OtherStep
  <2> QED
    BY <2>4, <2>7, <2>9, PartsAfter
<1>21. CASE ReleasePorts(t)
  <2>1. /\ pc[t] = "release" /\ pc' = [pc EXCEPT ![t] = "unassign"]
        /\ UNCHANGED <<nodeVars, dns, rows, records, status, localVars>>
    BY <1>21 DEF ReleasePorts
  <2>2. UNCHANGED ghosts \/ Lost \/ GivesUp
    BY <1>21 DEF ReleasePorts
  <2>3. NodeTypes' /\ UNCHANGED everDown
    BY <2>1, NodesSame
  <2>4. Locals'
    BY <1>s, <2>1, <2>3, MovesOn
  <2>5. blocks' \subseteq Nodes /\ blocks \cap Survivors \subseteq blocks'
    BY <1>21, <1>c, <1>s, <1>n DEF ReleasePorts
  <2>6. Shared'
    BY <1>c, <2>1, <2>2, <2>3, <2>5, OtherStep
  <2> QED
    BY <2>3, <2>4, <2>6, PartsAfter
<1>22. CASE Unassign(t)
  <2>1. /\ pc[t] = "unassign" /\ pc' = [pc EXCEPT ![t] = "finish"]
        /\ UNCHANGED <<nodeVars, dns, blocks, records, status, localVars>>
    BY <1>22 DEF Unassign
  <2>2. UNCHANGED ghosts \/ Lost \/ GivesUp
    BY <1>22 DEF Unassign
  <2>3. NodeTypes' /\ UNCHANGED everDown
    BY <2>1, NodesSame
  <2>4. Locals'
    BY <1>s, <2>1, <2>3, MovesOn
  <2>5. \/ rows' = rows
        \/ rows' = [rows EXCEPT ![Dead(t)] = [r \in Roles |-> "none"]]
    BY <1>22 DEF Unassign
  <2>6. rows' \in [Nodes -> [Roles -> {"none", "running", "failed"}]]
    BY <1>c, <2>5
  <2>7. \A n \in Survivors : rows'[n] = rows[n]
    BY <1>c, <1>n, <1>s, <2>1, <2>5
  <2>8. Shared'
    BY <2>1, <2>2, <2>3, <2>6, <2>7, RowsStep
  <2> QED
    BY <2>3, <2>4, <2>8, PartsAfter
<1>23. CASE Finish(t)
  <2>1. /\ pc[t] = "finish" /\ UNCHANGED <<nodeVars, dns, rows, blocks, records>>
        /\ Return(t, "idle") \/ Return(t, "done")
    BY <1>23 DEF Finish
  <2>2. UNCHANGED ghosts \/ Lost \/ GivesUp
    BY <1>23 DEF Finish
  <2>3. status' \in {"ready", "degraded"}
    BY <1>23, <1>c DEF Finish
  <2> QED
    BY <2>1, <2>2, <2>3, Ends
<1> QED
  BY <1>1, <1>2, <1>3, <1>4, <1>5, <1>6, <1>7, <1>8, <1>9, <1>10, <1>11, <1>12,
     <1>13, <1>14, <1>15, <1>16, <1>17, <1>18, <1>19, <1>20, <1>21, <1>22, <1>23
     DEF Step

----------------------------------------------------------------------------

\* A step in which only nodes and calls change.
LEMMA CallsKeep ==
    ASSUME Inv, UNCHANGED <<clusterVars, localVars>>,
           disturbed' \in BOOLEAN, UNCHANGED failures,
           NodeTypes', everDown \subseteq everDown', pc' \in [Tasks -> PCs],
           \A t \in Tasks :
               \/ pc'[t] = pc[t] \/ pc'[t] \in {"idle", "done"}
               \/ pc'[t] \in {"offline", "count"} /\ Dead(t) \notin Members \ everDown'
    PROVE  Inv'
<1>1. Survivors' \subseteq Survivors
  BY DEF Survivors
<1>2. Shared'
  BY <1>1, Parts DEF Shared, SurvivorsKept, clusterVars
<1>3. SparesSurvivors'
  <2> SUFFICES ASSUME NEW t \in Tasks
               PROVE  /\ pc'[t] \in Running => Dead(t) \notin Survivors'
                      /\ pc'[t] \in Informed => Survivors' \subseteq exclude'[t]
                      /\ pc'[t] \in Chosen => repl'[t] \in Nodes \ Survivors'
    BY DEF SparesSurvivors
  <2>1. exclude'[t] = exclude[t] /\ repl'[t] = repl[t]
    BY DEF localVars
  <2>2. CASE pc'[t] = pc[t]
    BY <1>1, <2>1, <2>2, TaskSpares
  <2>3. CASE pc'[t] \in {"idle", "done"}
    BY <2>3 DEF Running, Locking, Working, Informed, Chosen, Roles
  <2>4. CASE pc'[t] \in {"offline", "count"} /\ Dead(t) \notin Members \ everDown'
    BY <2>4 DEF Informed, Chosen, Roles, Survivors
  <2> QED
    BY <2>2, <2>3, <2>4
<1>4. Locals'
  BY <1>3, Parts DEF Locals, localVars
<1> QED
  BY <1>2, <1>4, PartsAfter

\* Every action keeps the invariant.
LEMMA NextKeeps ==
    ASSUME Inv, [Next]_vars PROVE Inv'
<1>t. /\ pc \in [Tasks -> PCs] /\ disturbed \in BOOLEAN
      /\ up \in [Nodes -> BOOLEAN] /\ crashes \in 0 .. MaxCrashes
      /\ everDown \subseteq Nodes /\ dns \in [Nodes -> {"active", "offline"}]
      /\ MaxCrashes \in Nat
  BY RecoveryAssumption DEF Inv, TypeOK, PCs
<1>1. ASSUME NEW n \in Nodes, Crash(n) PROVE Inv'
  <2>1. NodeTypes'
    BY <1>1, <1>t DEF Crash, NodeTypes, DownSeen, Inv
  <2>2. everDown \subseteq everDown' /\ pc' = pc
    BY <1>1 DEF Crash
  <2>3. UNCHANGED <<clusterVars, localVars, ghosts>>
    BY <1>1 DEF Crash
  <2> QED
    BY <1>t, <2>1, <2>2, <2>3, CallsKeep DEF ghosts
<1>2. ASSUME NEW n \in Nodes, Restart(n) PROVE Inv'
  <2>1. NodeTypes'
    BY <1>2, <1>t DEF Restart, NodeTypes, DownSeen, Inv
  <2>2. /\ everDown' = everDown
        /\ \A t \in Tasks : pc'[t] = pc[t] \/ pc'[t] = "idle"
        /\ pc' \in [Tasks -> PCs]
    BY <1>2, <1>t DEF Restart, PCs
  <2>3. UNCHANGED <<clusterVars, localVars, ghosts>>
    BY <1>2 DEF Restart
  <2> QED
    BY <1>t, <2>1, <2>2, <2>3, CallsKeep DEF ghosts
<1>3. ASSUME NEW p \in Procs, NEW n \in Nodes, NodeDead(p, n) PROVE Inv'
  <2>1. /\ pc' = [pc EXCEPT ![<<p, n>>] = "offline"] /\ ~up[n]
        /\ disturbed' = (disturbed \/ Overlaps(<<p, n>>))
        /\ UNCHANGED <<nodeVars, dns, clusterVars, localVars, failures>>
    BY <1>3 DEF NodeDead
  <2>2. n \in everDown
    BY <2>1 DEF Inv, DownSeen
  <2>3. NodeTypes' /\ UNCHANGED everDown
    BY <2>1, NodesSame
  <2>4. disturbed' \in BOOLEAN
    BY <2>1, <1>t, Zenon
  <2>5. <<p, n>> \in Tasks /\ Dead(<<p, n>>) = n
    BY DEF Tasks, Dead
  <2>6. /\ pc' \in [Tasks -> PCs]
        /\ \A t \in Tasks : pc'[t] = pc[t] \/ (pc'[t] = "offline" /\ t = <<p, n>>)
    <3> DEFINE u == <<p, n>>
    <3>1. u \in Tasks /\ pc' = [pc EXCEPT ![u] = "offline"] /\ "offline" \in PCs
      BY <2>1, <2>5 DEF PCs, Running, Locking
    <3> HIDE DEF u
    <3>2. /\ pc' \in [Tasks -> PCs]
          /\ \A t \in Tasks : pc'[t] = pc[t] \/ (pc'[t] = "offline" /\ t = u)
      BY <1>t, <3>1
    <3> QED
      BY <3>2 DEF u
  <2>7. \A t \in Tasks : \/ pc'[t] = pc[t]
                         \/ pc'[t] = "offline" /\ Dead(t) \notin Members \ everDown'
    BY <2>2, <2>3, <2>5, <2>6
  <2> QED
    BY <2>1, <2>3, <2>4, <2>6, <2>7, CallsKeep
<1>4. ASSUME NEW p \in Procs, RepairCluster(p) PROVE Inv'
  <2>1. /\ pc' = [pc EXCEPT ![<<p, NoNode>>] = "count"]
        /\ disturbed' = (disturbed \/ Overlaps(<<p, NoNode>>))
        /\ UNCHANGED <<nodeVars, dns, clusterVars, localVars, failures>>
    BY <1>4 DEF RepairCluster
  <2>3. NodeTypes' /\ UNCHANGED everDown
    BY <2>1, NodesSame
  <2>4. disturbed' \in BOOLEAN
    BY <2>1, <1>t, Zenon
  <2>5. /\ <<p, NoNode>> \in Tasks /\ Dead(<<p, NoNode>>) = NoNode
        /\ NoNode \notin Members
    BY RecoveryAssumption DEF Tasks, Dead
  <2>6. /\ pc' \in [Tasks -> PCs]
        /\ \A t \in Tasks : pc'[t] = pc[t] \/ (pc'[t] = "count" /\ t = <<p, NoNode>>)
    <3> DEFINE u == <<p, NoNode>>
    <3>1. u \in Tasks /\ pc' = [pc EXCEPT ![u] = "count"] /\ "count" \in PCs
      BY <2>1, <2>5 DEF PCs, Running, Working
    <3> HIDE DEF u
    <3>2. /\ pc' \in [Tasks -> PCs]
          /\ \A t \in Tasks : pc'[t] = pc[t] \/ (pc'[t] = "count" /\ t = u)
      BY <1>t, <3>1
    <3> QED
      BY <3>2 DEF u
  <2>7. \A t \in Tasks : \/ pc'[t] = pc[t]
                         \/ pc'[t] = "count" /\ Dead(t) \notin Members \ everDown'
    BY <2>5, <2>6
  <2> QED
    BY <2>1, <2>3, <2>4, <2>6, <2>7, CallsKeep
<1>5. CASE UNCHANGED vars
  <2>1. /\ UNCHANGED <<nodeVars, dns, clusterVars, localVars, ghosts>> /\ pc' = pc
    BY <1>5 DEF vars, nodeVars, clusterVars, localVars, ghosts
  <2>2. NodeTypes' /\ UNCHANGED everDown
    BY <2>1, NodesSame
  <2> QED
    BY <1>t, <2>1, <2>2, CallsKeep DEF ghosts
<1> QED
  BY <1>1, <1>2, <1>3, <1>4, <1>5, StepKeeps DEF Next

\* The invariant holds at first.
LEMMA InitKeeps == Init => Inv
<1> SUFFICES ASSUME Init PROVE Inv
  OBVIOUS
<1>1. TypeOK
  <2>1. /\ rows \in [Nodes -> [Roles -> {"none", "running", "failed"}]]
        /\ blocks \subseteq Nodes /\ records \subseteq Nodes
    BY RecoveryAssumption DEF Init
  <2>2. crashes \in 0 .. MaxCrashes /\ failures \in 0 .. MaxFailures
    BY RecoveryAssumption DEF Init
  <2>3. /\ pc \in [Tasks -> {"idle", "done"} \cup Running]
        /\ exclude \in [Tasks -> SUBSET Nodes]
        /\ repl \in [Tasks -> Nodes \cup {NoNode}] /\ roles \in [Tasks -> SUBSET Roles]
        /\ left \in [Tasks -> Int]
    BY DEF Init
  <2>4. /\ errs \in [Tasks -> BOOLEAN] /\ added \in [Tasks -> BOOLEAN]
        /\ up \in [Nodes -> BOOLEAN] /\ disturbed \in BOOLEAN
    BY DEF Init
  <2>5. everDown \subseteq Nodes /\ dns \in [Nodes -> {"active", "offline"}]
        /\ status \in {"ready", "degraded"}
    BY DEF Init
  <2> QED
    BY <2>1, <2>2, <2>3, <2>4, <2>5 DEF TypeOK
<1>2. DownSeen
  BY DEF Init, DownSeen
<1>3. SparesSurvivors
  BY DEF Init, SparesSurvivors, Running, Locking, Working, Informed, Chosen, Roles
<1>4. SurvivorsKept
  BY RecoveryAssumption DEF Init, SurvivorsKept
<1> QED
  BY <1>1, <1>2, <1>3, <1>4 DEF Inv

\* The invariant holds in every reachable state.
LEMMA Invariance == Spec => []Inv
<1>1. Init => Inv
  BY InitKeeps
<1>2. Inv /\ [Next]_vars => Inv'
  BY NextKeeps
<1> QED
  BY <1>1, <1>2, PTL DEF Spec

\* Type correctness of the tables and of the calls of
\* core/pkg/namespace/cluster_recovery.go.
THEOREM TypeCorrect == Spec => []TypeOK
<1>1. Inv => TypeOK
  BY DEF Inv
<1> QED
  BY <1>1, Invariance, PTL

\* However many recoveries and repairs run at once, in however many
\* processes, and wherever they fail, HandleDeadNode and RepairCluster leave
\* the services, the ports and the DNS record of a member that has never been
\* down alone: "without touching surviving nodes".
THEOREM SurvivorsSafe == Spec => []SurvivorsKept
<1>1. Inv => SurvivorsKept
  BY DEF Inv
<1> QED
  BY <1>1, Invariance, PTL

----------------------------------------------------------------------------
(* A recovery or repair that nothing disturbs *)

\* The statements of ReplaceClusterNode, in the order they are executed;
\* those from "select" to "dns" and "finish" RepairCluster has as well.
Marked == {"degrade", "read", "select", "alloc", "survivors", "rollback", "dns",
           "release", "unassign", "finish"} \cup Roles
ReplaceOnly == Locking \cup {"mark", "degrade", "read", "survivors", "release", "unassign"}
Swapped == {"release", "unassign", "finish"}

\* The roles that have had their turn.
Before(p) == CASE p = "rqlite" -> {} [] p = "olric" -> {"rqlite"}
               [] p = "gateway" -> {"rqlite", "olric"} [] OTHER -> Roles

\* The node that has rows and no DNS record yet, or no longer.
Exempt(t) ==
    {n \in Nodes : \/ pc[t] \in {"olric", "gateway", "dns"} /\ n = repl[t]
                   \/ pc[t] \in {"release", "unassign"} /\ n = Dead(t)}

\* Which task executes which statements.
Kind(t) ==
    /\ pc[t] \in ReplaceOnly => ~IsRepair(t)
    /\ pc[t] \in {"count", "ports"} => IsRepair(t)

\* The dead node: it keeps its rows until they are deleted, none of them is
\* running once it is marked, and the ports go before the rows.
DeadNode(t) ==
    ~IsRepair(t) =>
        /\ pc[t] \in ({"lock", "mark"} \cup Marked) \ {"finish"} => HasRows(Dead(t))
        /\ pc[t] \in Marked => Dead(t) \notin ActiveNodes
        /\ pc[t] \in {"unassign", "finish"} => Dead(t) \notin blocks
        /\ pc[t] = "finish" => ~HasRows(Dead(t))

\* The replacement: a node without rows, which is given ports, then rows.
Replacement(t) ==
    /\ pc[t] \in {"ports", "select"} => \A n \in Nodes : HasRows(n) => n \in exclude[t]
    /\ pc[t] \in Chosen => \A n \in Nodes : HasRows(n) => n \in exclude[t] \cup {repl[t]}
    /\ pc[t] \in {"alloc", "survivors", "rollback", "rqlite"} => ~HasRows(repl[t])
    /\ pc[t] \in Roles => \A r \in Roles \ Before(pc[t]) : rows[repl[t]][r] = "none"
    /\ pc[t] \in Chosen \ {"alloc"} => repl[t] \in blocks
    /\ pc[t] \in Chosen => repl[t] \in Nodes

\* What ReplaceClusterNode has done for it.
Replaced(t) ==
    ~IsRepair(t) =>
        /\ pc[t] \in Chosen \cup Swapped => repl[t] \in Nodes /\ repl[t] # Dead(t)
        /\ pc[t] \in Swapped => repl[t] \in blocks /\ repl[t] \in records
        /\ pc[t] \in Roles \cup {"dns"} \cup Swapped /\ ~errs[t] =>
              \A r \in roles[t] \cap Before(pc[t]) : rows[repl[t]][r] = "running"

TaskCalm(t) == Kind(t) /\ DeadNode(t) /\ Replacement(t) /\ Replaced(t)

\* Only one task runs, rows that count as running have ports, and rows have a
\* DNS record, but for the node the task is moving.
Calm ==
    ~disturbed =>
        /\ \A t, u \in Tasks : pc[t] \in Running /\ pc[u] \in Running => t = u
        /\ ActiveNodes \subseteq blocks
        /\ \A n \in Nodes : HasRows(n) => n \in records \/ \E t \in Tasks : n \in Exempt(t)
        /\ \A t \in Tasks : pc[t] \in Running => TaskCalm(t)

\* A step of t moves t alone, from a statement it is about to execute, and a
\* disturbance stays.
LEMMA StepShape ==
    ASSUME Inv, NEW t \in Tasks, Step(t)
    PROVE  /\ pc[t] \in Running
           /\ \A u \in Tasks \ {t} : pc'[u] = pc[u] /\ repl'[u] = repl[u]
           /\ disturbed => disturbed'
<1>1. pc \in [Tasks -> PCs] /\ repl \in [Tasks -> Nodes \cup {NoNode}]
  BY Parts DEF Locals
<1> USE <1>1 DEF Running, Locking, Working, Roles
<1> DEFINE Goal == /\ pc[t] \in Running
                   /\ \A u \in Tasks \ {t} : pc'[u] = pc[u] /\ repl'[u] = repl[u]
                   /\ disturbed => disturbed'
<1>2. SUFFICES Goal
  OBVIOUS
<1>3. CASE MarkOffline(t)
  BY <1>3 DEF MarkOffline, localVars, ghosts, Lost, Failure, clusterVars
<1>4. CASE FindCluster(t)
  BY <1>4 DEF FindCluster, localVars, ghosts, GivesUp, Failure, clusterVars
<1>5. CASE TakeLock(t)
  BY <1>5 DEF TakeLock, localVars, ghosts, clusterVars
<1>6. CASE MarkFailed(t)
  BY <1>6 DEF MarkFailed, localVars, ghosts, Lost, Failure
<1>7. CASE Degrade(t)
  BY <1>7 DEF Degrade, localVars, ghosts, Lost, Failure
<1>8. CASE ReadMembers(t)
  BY <1>8 DEF ReadMembers, ghosts, clusterVars
<1>9. CASE CountMissing(t)
  BY <1>9 DEF CountMissing, Return, ghosts, clusterVars
<1>10. CASE ReadPorts(t)
  BY <1>10 DEF ReadPorts, Return, localVars, ghosts, clusterVars
<1>11. CASE ReadFails(t)
  BY <1>11 DEF ReadFails, Return, GivesUp, Failure, clusterVars
<1>12. CASE Select(t)
  BY <1>12 DEF Select, ghosts, clusterVars
<1>13. CASE SelectFails(t)
  BY <1>13 DEF SelectFails, Return, EndLoop, localVars, ghosts, clusterVars
<1>14. CASE Allocate(t)
  BY <1>14 DEF Allocate, localVars, ghosts
<1>15. CASE AllocateFails(t)
  BY <1>15 DEF AllocateFails, Return, EndLoop, localVars, GivesUp, Failure, clusterVars
<1>16. CASE ReadSurvivors(t)
  BY <1>16 DEF ReadSurvivors, localVars, ghosts, GivesUp, Failure, clusterVars
<1>17. CASE Rollback(t)
  BY <1>17 DEF Rollback, Return, EndLoop, localVars, ghosts, GivesUp, Failure
<1>18. CASE SwapRecord(t)
  BY <1>18 DEF SwapRecord, localVars, ghosts, Lost, Failure
<1>19. CASE AddRecord(t)
  BY <1>19 DEF AddRecord, ghosts, Lost, Failure
<1>20. CASE ReleasePorts(t)
  BY <1>20 DEF ReleasePorts, localVars, ghosts, Lost, Failure
<1>21. CASE Unassign(t)
  BY <1>21 DEF Unassign, localVars, ghosts, Lost, Failure
<1>22. CASE Finish(t)
  BY <1>22 DEF Finish, Return, ghosts, GivesUp, Failure
<1>23. ASSUME NEW r \in Roles, Spawn(t, r) PROVE Goal
  BY <1>23 DEF Spawn, localVars, ghosts, Lost, Failure
<1>24. ASSUME NEW r \in Roles, SpawnFails(t, r) PROVE Goal
  BY <1>24 DEF SpawnFails, ghosts, GivesUp, Failure, clusterVars
<1>25. ASSUME NEW r \in Roles, SkipRole(t, r) PROVE Goal
  BY <1>25 DEF SkipRole, localVars, ghosts, clusterVars
<1> QED
  BY <1>3, <1>4, <1>5, <1>6, <1>7, <1>8, <1>9, <1>10, <1>11, <1>12, <1>13, <1>14, <1>15, <1>16,
      <1>17, <1>18, <1>19, <1>20, <1>21, <1>22, <1>23, <1>24, <1>25
  DEF Step

\* What holds of the cluster while t is the only task that runs.
CalmAt(t) ==
    /\ ActiveNodes \subseteq blocks
    /\ \A n \in Nodes : HasRows(n) => n \in records \cup Exempt(t)
    /\ TaskCalm(t)

\* Each task stays in its program.
LEMMA KindStep ==
    ASSUME Inv, NEW t \in Tasks, CalmAt(t), Step(t), ~disturbed', pc'[t] \in Running
    PROVE  Kind(t)'
<1>1. /\ pc \in [Tasks -> PCs] /\ repl \in [Tasks -> Nodes \cup {NoNode}]
      /\ rows \in [Nodes -> [Roles -> {"none", "running", "failed"}]]
      /\ exclude \in [Tasks -> SUBSET Nodes] /\ roles \in [Tasks -> SUBSET Roles]
      /\ errs \in [Tasks -> BOOLEAN] /\ blocks \subseteq Nodes /\ records \subseteq Nodes
  BY Parts DEF Locals, Shared
<1>2. IsRepair(t) <=> Dead(t) \notin Nodes
  BY RecoveryAssumption DEF Tasks, IsRepair, Dead
<1> USE <1>1, <1>2 DEF Running, Locking, Working, Roles, ReplaceOnly, Kind, CalmAt, TaskCalm
<1>3. CASE MarkOffline(t)
  BY <1>3 DEF MarkOffline, localVars, ghosts, Lost, clusterVars
<1>4. CASE FindCluster(t)
  BY <1>4 DEF FindCluster, localVars, ghosts, clusterVars
<1>5. CASE TakeLock(t)
  BY <1>5 DEF TakeLock, localVars, ghosts, clusterVars
<1>6. CASE MarkFailed(t)
  BY <1>6 DEF MarkFailed, localVars, ghosts, Lost
<1>7. CASE Degrade(t)
  BY <1>7 DEF Degrade, localVars, ghosts, Lost
<1>8. CASE ReadMembers(t)
  BY <1>8 DEF ReadMembers, ghosts, clusterVars
<1>9. CASE CountMissing(t)
  BY <1>9 DEF CountMissing, Return, ghosts, clusterVars
<1>10. CASE ReadPorts(t)
  BY <1>10 DEF ReadPorts, Return, localVars, ghosts, clusterVars
<1>11. CASE ReadFails(t)
  BY <1>11 DEF ReadFails, Return, clusterVars
<1>12. CASE Select(t)
  BY <1>12 DEF Select, ghosts, clusterVars
<1>13. CASE SelectFails(t)
  BY <1>13 DEF SelectFails, Return, EndLoop, localVars, ghosts, clusterVars
<1>14. CASE Allocate(t)
  BY <1>14 DEF Allocate, localVars, ghosts
<1>15. CASE AllocateFails(t)
  BY <1>15 DEF AllocateFails, Return, EndLoop, localVars, clusterVars
<1>16. CASE ReadSurvivors(t)
  BY <1>16 DEF ReadSurvivors, localVars, ghosts, clusterVars
<1>17. CASE Rollback(t)
  BY <1>17 DEF Rollback, Return, EndLoop, localVars, ghosts
<1>18. CASE SwapRecord(t)
  BY <1>18 DEF SwapRecord, localVars, ghosts, Lost
<1>19. CASE AddRecord(t)
  BY <1>19 DEF AddRecord, ghosts, Lost
<1>20. CASE ReleasePorts(t)
  BY <1>20 DEF ReleasePorts, localVars, ghosts, Lost
<1>21. CASE Unassign(t)
  BY <1>21 DEF Unassign, localVars, ghosts, Lost
<1>22. CASE Finish(t)
  BY <1>22 DEF Finish, Return, ghosts
<1>23. ASSUME NEW r \in Roles, Spawn(t, r) PROVE Kind(t)'
  BY <1>23 DEF Spawn, localVars, ghosts, Lost, AfterRole
<1>24. ASSUME NEW r \in Roles, SpawnFails(t, r) PROVE Kind(t)'
  BY <1>24 DEF SpawnFails, ghosts, clusterVars, AfterRole
<1>25. ASSUME NEW r \in Roles, SkipRole(t, r) PROVE Kind(t)'
  BY <1>25 DEF SkipRole, localVars, ghosts, clusterVars, AfterRole
<1> QED
  BY <1>3, <1>4, <1>5, <1>6, <1>7, <1>8, <1>9, <1>10, <1>11, <1>12, <1>13, <1>14, <1>15, <1>16,
      <1>17, <1>18, <1>19, <1>20, <1>21, <1>22, <1>23, <1>24, <1>25 DEF Step

\* Ports are given before services start, and taken after they are marked.
LEMMA ActiveStep ==
    ASSUME Inv, NEW t \in Tasks, CalmAt(t), Step(t), ~disturbed'
    PROVE  (ActiveNodes \subseteq blocks)'
<1>1. /\ pc \in [Tasks -> PCs] /\ repl \in [Tasks -> Nodes \cup {NoNode}]
      /\ rows \in [Nodes -> [Roles -> {"none", "running", "failed"}]]
      /\ exclude \in [Tasks -> SUBSET Nodes] /\ roles \in [Tasks -> SUBSET Roles]
      /\ errs \in [Tasks -> BOOLEAN] /\ blocks \subseteq Nodes /\ records \subseteq Nodes
  BY Parts DEF Locals, Shared
<1>2. IsRepair(t) <=> Dead(t) \notin Nodes
  BY RecoveryAssumption DEF Tasks, IsRepair, Dead
<1> USE <1>1, <1>2 DEF Running, Locking, Working, Roles, CalmAt, TaskCalm, ActiveNodes, HasRows,
    Chosen, Marked, DeadNode, Replacement, Kind, ReplaceOnly
<1>3. CASE MarkOffline(t)
  BY <1>3 DEF MarkOffline, localVars, ghosts, Lost, clusterVars
<1>4. CASE FindCluster(t)
  BY <1>4 DEF FindCluster, localVars, ghosts, clusterVars
<1>5. CASE TakeLock(t)
  BY <1>5 DEF TakeLock, localVars, ghosts, clusterVars
<1>6. CASE MarkFailed(t)
  BY <1>6 DEF MarkFailed, localVars, ghosts, Lost
<1>7. CASE Degrade(t)
  BY <1>7 DEF Degrade, localVars, ghosts, Lost
<1>8. CASE ReadMembers(t)
  BY <1>8 DEF ReadMembers, ghosts, clusterVars
<1>9. CASE CountMissing(t)
  BY <1>9 DEF CountMissing, Return, ghosts, clusterVars
<1>10. CASE ReadPorts(t)
  BY <1>10 DEF ReadPorts, Return, localVars, ghosts, clusterVars
<1>11. CASE ReadFails(t)
  BY <1>11 DEF ReadFails, Return, clusterVars
<1>12. CASE Select(t)
  BY <1>12 DEF Select, ghosts, clusterVars
<1>13. CASE SelectFails(t)
  BY <1>13 DEF SelectFails, Return, EndLoop, localVars, ghosts, clusterVars
<1>14. CASE Allocate(t)
  BY <1>14 DEF Allocate, localVars, ghosts
<1>15. CASE AllocateFails(t)
  BY <1>15 DEF AllocateFails, Return, EndLoop, localVars, clusterVars
<1>16. CASE ReadSurvivors(t)
  BY <1>16 DEF ReadSurvivors, localVars, ghosts, clusterVars
<1>17. CASE Rollback(t)
  BY <1>17 DEF Rollback, Return, EndLoop, localVars, ghosts
<1>18. CASE SwapRecord(t)
  BY <1>18 DEF SwapRecord, localVars, ghosts, Lost
<1>19. CASE AddRecord(t)
  BY <1>19 DEF AddRecord, ghosts, Lost
<1>20. CASE ReleasePorts(t)
  BY <1>20 DEF ReleasePorts, localVars, ghosts, Lost
<1>21. CASE Unassign(t)
  BY <1>21 DEF Unassign, localVars, ghosts, Lost
<1>22. CASE Finish(t)
  BY <1>22 DEF Finish, Return, ghosts
<1>23. ASSUME NEW r \in Roles, Spawn(t, r) PROVE (ActiveNodes \subseteq blocks)'
  BY <1>23 DEF Spawn, localVars, ghosts, Lost, InsertRow
<1>24. ASSUME NEW r \in Roles, SpawnFails(t, r) PROVE (ActiveNodes \subseteq blocks)'
  BY <1>24 DEF SpawnFails, ghosts, clusterVars
<1>25. ASSUME NEW r \in Roles, SkipRole(t, r) PROVE (ActiveNodes \subseteq blocks)'
  BY <1>25 DEF SkipRole, localVars, ghosts, clusterVars
<1> QED
  BY <1>3, <1>4, <1>5, <1>6, <1>7, <1>8, <1>9, <1>10, <1>11, <1>12, <1>13, <1>14, <1>15, <1>16,
      <1>17, <1>18, <1>19, <1>20, <1>21, <1>22, <1>23, <1>24, <1>25 DEF Step

\* Only the node that is being moved has rows and no record.
LEMMA CoveredStep ==
    ASSUME Inv, NEW t \in Tasks, CalmAt(t), Step(t), ~disturbed'
    PROVE  (\A n \in Nodes : HasRows(n) => n \in records \cup Exempt(t))'
<1>1. /\ pc \in [Tasks -> PCs] /\ repl \in [Tasks -> Nodes \cup {NoNode}]
      /\ rows \in [Nodes -> [Roles -> {"none", "running", "failed"}]]
      /\ exclude \in [Tasks -> SUBSET Nodes] /\ roles \in [Tasks -> SUBSET Roles]
      /\ errs \in [Tasks -> BOOLEAN] /\ blocks \subseteq Nodes /\ records \subseteq Nodes
  BY Parts DEF Locals, Shared
<1>2. IsRepair(t) <=> Dead(t) \notin Nodes
  BY RecoveryAssumption DEF Tasks, IsRepair, Dead
<1> USE <1>1, <1>2 DEF Running, Locking, Working, Roles, CalmAt, TaskCalm, HasRows, Exempt,
    Chosen, Marked, DeadNode, Replaced, Replacement, Kind, ReplaceOnly, Swapped
<1>3. CASE MarkOffline(t)
  BY <1>3 DEF MarkOffline, localVars, ghosts, Lost, clusterVars
<1>4. CASE FindCluster(t)
  BY <1>4 DEF FindCluster, localVars, ghosts, clusterVars
<1>5. CASE TakeLock(t)
  BY <1>5 DEF TakeLock, localVars, ghosts, clusterVars
<1>6. CASE MarkFailed(t)
  BY <1>6 DEF MarkFailed, localVars, ghosts, Lost
<1>7. CASE Degrade(t)
  BY <1>7 DEF Degrade, localVars, ghosts, Lost
<1>8. CASE ReadMembers(t)
  BY <1>8 DEF ReadMembers, ghosts, clusterVars
<1>9. CASE CountMissing(t)
  BY <1>9 DEF CountMissing, Return, ghosts, clusterVars
<1>10. CASE ReadPorts(t)
  BY <1>10 DEF ReadPorts, Return, localVars, ghosts, clusterVars
<1>11. CASE ReadFails(t)
  BY <1>11 DEF ReadFails, Return, clusterVars
<1>12. CASE Select(t)
  BY <1>12 DEF Select, ghosts, clusterVars
<1>13. CASE SelectFails(t)
  BY <1>13 DEF SelectFails, Return, EndLoop, localVars, ghosts, clusterVars
<1>14. CASE Allocate(t)
  BY <1>14 DEF Allocate, localVars, ghosts
<1>15. CASE AllocateFails(t)
  BY <1>15 DEF AllocateFails, Return, EndLoop, localVars, clusterVars
<1>16. CASE ReadSurvivors(t)
  BY <1>16 DEF ReadSurvivors, localVars, ghosts, clusterVars
<1>17. CASE Rollback(t)
  BY <1>17 DEF Rollback, Return, EndLoop, localVars, ghosts
<1>18. CASE SwapRecord(t)
  BY <1>18 DEF SwapRecord, localVars, ghosts, Lost, UpdateNamespaceRecord
<1>19. CASE AddRecord(t)
  BY <1>19 DEF AddRecord, ghosts, Lost
<1>20. CASE ReleasePorts(t)
  BY <1>20 DEF ReleasePorts, localVars, ghosts, Lost
<1>21. CASE Unassign(t)
  BY <1>21 DEF Unassign, localVars, ghosts, Lost
<1>22. CASE Finish(t)
  BY <1>22 DEF Finish, Return, ghosts
<1>23. ASSUME NEW r \in Roles, Spawn(t, r) PROVE (\A n \in Nodes : HasRows(n) => n \in records \cup Exempt(t))'
  BY <1>23 DEF Spawn, localVars, ghosts, Lost, InsertRow, AfterRole
<1>24. ASSUME NEW r \in Roles, SpawnFails(t, r) PROVE (\A n \in Nodes : HasRows(n) => n \in records \cup Exempt(t))'
  BY <1>24 DEF SpawnFails, ghosts, clusterVars, AfterRole
<1>25. ASSUME NEW r \in Roles, SkipRole(t, r) PROVE (\A n \in Nodes : HasRows(n) => n \in records \cup Exempt(t))'
  BY <1>25 DEF SkipRole, localVars, ghosts, clusterVars, AfterRole
<1> QED
  BY <1>3, <1>4, <1>5, <1>6, <1>7, <1>8, <1>9, <1>10, <1>11, <1>12, <1>13, <1>14, <1>15, <1>16,
      <1>17, <1>18, <1>19, <1>20, <1>21, <1>22, <1>23, <1>24, <1>25 DEF Step

\* The dead node is marked, then loses its ports, then its rows.
LEMMA DeadStep ==
    ASSUME Inv, NEW t \in Tasks, CalmAt(t), Step(t), ~disturbed', pc'[t] \in Running
    PROVE  DeadNode(t)'
<1>1. /\ pc \in [Tasks -> PCs] /\ repl \in [Tasks -> Nodes \cup {NoNode}]
      /\ rows \in [Nodes -> [Roles -> {"none", "running", "failed"}]]
      /\ exclude \in [Tasks -> SUBSET Nodes] /\ roles \in [Tasks -> SUBSET Roles]
      /\ errs \in [Tasks -> BOOLEAN] /\ blocks \subseteq Nodes /\ records \subseteq Nodes
  BY Parts DEF Locals, Shared
<1>2. IsRepair(t) <=> Dead(t) \notin Nodes
  BY RecoveryAssumption DEF Tasks, IsRepair, Dead
<1> USE <1>1, <1>2 DEF Running, Locking, Working, Roles, CalmAt, TaskCalm, ActiveNodes, HasRows,
    Chosen, Marked, DeadNode, Replaced, Kind, ReplaceOnly, Swapped
<1>3. CASE MarkOffline(t)
  BY <1>3 DEF MarkOffline, localVars, ghosts, Lost, clusterVars
<1>4. CASE FindCluster(t)
  BY <1>4 DEF FindCluster, localVars, ghosts, clusterVars
<1>5. CASE TakeLock(t)
  BY <1>5 DEF TakeLock, localVars, ghosts, clusterVars
<1>6. CASE MarkFailed(t)
  BY <1>6 DEF MarkFailed, localVars, ghosts, Lost
<1>7. CASE Degrade(t)
  BY <1>7 DEF Degrade, localVars, ghosts, Lost
<1>8. CASE ReadMembers(t)
  BY <1>8 DEF ReadMembers, ghosts, clusterVars
<1>9. CASE CountMissing(t)
  BY <1>9 DEF CountMissing, Return, ghosts, clusterVars
<1>10. CASE ReadPorts(t)
  BY <1>10 DEF ReadPorts, Return, localVars, ghosts, clusterVars
<1>11. CASE ReadFails(t)
  BY <1>11 DEF ReadFails, Return, clusterVars
<1>12. CASE Select(t)
  BY <1>12 DEF Select, ghosts, clusterVars
<1>13. CASE SelectFails(t)
  BY <1>13 DEF SelectFails, Return, EndLoop, localVars, ghosts, clusterVars
<1>14. CASE Allocate(t)
  BY <1>14 DEF Allocate, localVars, ghosts
<1>15. CASE AllocateFails(t)
  BY <1>15 DEF AllocateFails, Return, EndLoop, localVars, clusterVars
<1>16. CASE ReadSurvivors(t)
  BY <1>16 DEF ReadSurvivors, localVars, ghosts, clusterVars
<1>17. CASE Rollback(t)
  BY <1>17 DEF Rollback, Return, EndLoop, localVars, ghosts
<1>18. CASE SwapRecord(t)
  BY <1>18 DEF SwapRecord, localVars, ghosts, Lost
<1>19. CASE AddRecord(t)
  BY <1>19 DEF AddRecord, ghosts, Lost
<1>20. CASE ReleasePorts(t)
  BY <1>20 DEF ReleasePorts, localVars, ghosts, Lost
<1>21. CASE Unassign(t)
  BY <1>21 DEF Unassign, localVars, ghosts, Lost
<1>22. CASE Finish(t)
  BY <1>22 DEF Finish, Return, ghosts
<1>23. ASSUME NEW r \in Roles, Spawn(t, r) PROVE DeadNode(t)'
  BY <1>23 DEF Spawn, localVars, ghosts, Lost, InsertRow, AfterRole
<1>24. ASSUME NEW r \in Roles, SpawnFails(t, r) PROVE DeadNode(t)'
  BY <1>24 DEF SpawnFails, ghosts, clusterVars, AfterRole
<1>25. ASSUME NEW r \in Roles, SkipRole(t, r) PROVE DeadNode(t)'
  BY <1>25 DEF SkipRole, localVars, ghosts, clusterVars, AfterRole
<1> QED
  BY <1>3, <1>4, <1>5, <1>6, <1>7, <1>8, <1>9, <1>10, <1>11, <1>12, <1>13, <1>14, <1>15, <1>16,
      <1>17, <1>18, <1>19, <1>20, <1>21, <1>22, <1>23, <1>24, <1>25 DEF Step

\* The replacement is a node without rows until its roles start.
LEMMA ReplacementStep ==
    ASSUME Inv, NEW t \in Tasks, CalmAt(t), Step(t), ~disturbed', pc'[t] \in Running
    PROVE  Replacement(t)'
<1>1. /\ pc \in [Tasks -> PCs] /\ repl \in [Tasks -> Nodes \cup {NoNode}]
      /\ rows \in [Nodes -> [Roles -> {"none", "running", "failed"}]]
      /\ exclude \in [Tasks -> SUBSET Nodes] /\ roles \in [Tasks -> SUBSET Roles]
      /\ errs \in [Tasks -> BOOLEAN] /\ blocks \subseteq Nodes /\ records \subseteq Nodes
  BY Parts DEF Locals, Shared
<1>2. IsRepair(t) <=> Dead(t) \notin Nodes
  BY RecoveryAssumption DEF Tasks, IsRepair, Dead
<1> USE <1>1, <1>2 DEF Running, Locking, Working, Roles, CalmAt, TaskCalm, HasRows, Chosen,
    Marked, Replacement, Before, Kind, ReplaceOnly
<1>3. CASE MarkOffline(t)
  BY <1>3 DEF MarkOffline, localVars, ghosts, Lost, clusterVars
<1>4. CASE FindCluster(t)
  BY <1>4 DEF FindCluster, localVars, ghosts, clusterVars
<1>5. CASE TakeLock(t)
  BY <1>5 DEF TakeLock, localVars, ghosts, clusterVars
<1>6. CASE MarkFailed(t)
  BY <1>6 DEF MarkFailed, localVars, ghosts, Lost
<1>7. CASE Degrade(t)
  BY <1>7 DEF Degrade, localVars, ghosts, Lost
<1>8. CASE ReadMembers(t)
  BY <1>8 DEF ReadMembers, ghosts, clusterVars
<1>9. CASE CountMissing(t)
  BY <1>9 DEF CountMissing, Return, ghosts, clusterVars
<1>10. CASE ReadPorts(t)
  BY <1>10 DEF ReadPorts, Return, localVars, ghosts, clusterVars
<1>11. CASE ReadFails(t)
  BY <1>11 DEF ReadFails, Return, clusterVars
<1>12. CASE Select(t)
  BY <1>12 DEF Select, ghosts, clusterVars, Candidates
<1>13. CASE SelectFails(t)
  BY <1>13 DEF SelectFails, Return, EndLoop, localVars, ghosts, clusterVars
<1>14. CASE Allocate(t)
  BY <1>14 DEF Allocate, localVars, ghosts
<1>15. CASE AllocateFails(t)
  BY <1>15 DEF AllocateFails, Return, EndLoop, localVars, clusterVars
<1>16. CASE ReadSurvivors(t)
  BY <1>16 DEF ReadSurvivors, localVars, ghosts, clusterVars
<1>17. CASE Rollback(t)
  BY <1>17 DEF Rollback, Return, EndLoop, localVars, ghosts
<1>18. CASE SwapRecord(t)
  BY <1>18 DEF SwapRecord, localVars, ghosts, Lost
<1>19. CASE AddRecord(t)
  BY <1>19 DEF AddRecord, ghosts, Lost
<1>20. CASE ReleasePorts(t)
  BY <1>20 DEF ReleasePorts, localVars, ghosts, Lost
<1>21. CASE Unassign(t)
  BY <1>21 DEF Unassign, localVars, ghosts, Lost
<1>22. CASE Finish(t)
  BY <1>22 DEF Finish, Return, ghosts
<1>23. ASSUME NEW r \in Roles, Spawn(t, r) PROVE Replacement(t)'
  BY <1>23 DEF Spawn, localVars, ghosts, Lost, InsertRow, AfterRole
<1>24. ASSUME NEW r \in Roles, SpawnFails(t, r) PROVE Replacement(t)'
  BY <1>24 DEF SpawnFails, ghosts, clusterVars, AfterRole
<1>25. ASSUME NEW r \in Roles, SkipRole(t, r) PROVE Replacement(t)'
  BY <1>25 DEF SkipRole, localVars, ghosts, clusterVars, AfterRole
<1> QED
  BY <1>3, <1>4, <1>5, <1>6, <1>7, <1>8, <1>9, <1>10, <1>11, <1>12, <1>13, <1>14, <1>15, <1>16,
      <1>17, <1>18, <1>19, <1>20, <1>21, <1>22, <1>23, <1>24, <1>25 DEF Step

\* It gets its ports, its rows and its record one after the other.
LEMMA ReplacedStep ==
    ASSUME Inv, NEW t \in Tasks, CalmAt(t), Step(t), ~disturbed', pc'[t] \in Running
    PROVE  Replaced(t)'
<1>1. /\ pc \in [Tasks -> PCs] /\ repl \in [Tasks -> Nodes \cup {NoNode}]
      /\ rows \in [Nodes -> [Roles -> {"none", "running", "failed"}]]
      /\ exclude \in [Tasks -> SUBSET Nodes] /\ roles \in [Tasks -> SUBSET Roles]
      /\ errs \in [Tasks -> BOOLEAN] /\ blocks \subseteq Nodes /\ records \subseteq Nodes
  BY Parts DEF Locals, Shared
<1>2. IsRepair(t) <=> Dead(t) \notin Nodes
  BY RecoveryAssumption DEF Tasks, IsRepair, Dead
<1> USE <1>1, <1>2 DEF Running, Locking, Working, Roles, CalmAt, TaskCalm, HasRows, Exempt,
    Chosen, Marked, Swapped, DeadNode, Replacement, Replaced, Before, Kind, ReplaceOnly
<1>3. CASE MarkOffline(t)
  BY <1>3 DEF MarkOffline, localVars, ghosts, Lost, clusterVars
<1>4. CASE FindCluster(t)
  BY <1>4 DEF FindCluster, localVars, ghosts, clusterVars
<1>5. CASE TakeLock(t)
  BY <1>5 DEF TakeLock, localVars, ghosts, clusterVars
<1>6. CASE MarkFailed(t)
  BY <1>6 DEF MarkFailed, localVars, ghosts, Lost
<1>7. CASE Degrade(t)
  BY <1>7 DEF Degrade, localVars, ghosts, Lost
<1>8. CASE ReadMembers(t)
  BY <1>8 DEF ReadMembers, ghosts, clusterVars
<1>9. CASE CountMissing(t)
  BY <1>9 DEF CountMissing, Return, ghosts, clusterVars
<1>10. CASE ReadPorts(t)
  BY <1>10 DEF ReadPorts, Return, localVars, ghosts, clusterVars
<1>11. CASE ReadFails(t)
  BY <1>11 DEF ReadFails, Return, clusterVars
<1>12. CASE Select(t)
  BY <1>12 DEF Select, ghosts, clusterVars, Candidates
<1>13. CASE SelectFails(t)
  BY <1>13 DEF SelectFails, Return, EndLoop, localVars, ghosts, clusterVars
<1>14. CASE Allocate(t)
  BY <1>14 DEF Allocate, localVars, ghosts
<1>15. CASE AllocateFails(t)
  BY <1>15 DEF AllocateFails, Return, EndLoop, localVars, clusterVars
<1>16. CASE ReadSurvivors(t)
  BY <1>16 DEF ReadSurvivors, localVars, ghosts, clusterVars
<1>17. CASE Rollback(t)
  BY <1>17 DEF Rollback, Return, EndLoop, localVars, ghosts
<1>18. CASE SwapRecord(t)
  BY <1>18 DEF SwapRecord, localVars, ghosts, Lost, UpdateNamespaceRecord
<1>19. CASE AddRecord(t)
  BY <1>19 DEF AddRecord, ghosts, Lost
<1>20. CASE ReleasePorts(t)
  BY <1>20 DEF ReleasePorts, localVars, ghosts, Lost
<1>21. CASE Unassign(t)
  BY <1>21 DEF Unassign, localVars, ghosts, Lost
<1>22. CASE Finish(t)
  BY <1>22 DEF Finish, Return, ghosts
<1>23. ASSUME NEW r \in Roles, Spawn(t, r) PROVE Replaced(t)'
  BY <1>23 DEF Spawn, localVars, ghosts, Lost, InsertRow, AfterRole
<1>24. ASSUME NEW r \in Roles, SpawnFails(t, r) PROVE Replaced(t)'
  BY <1>24 DEF SpawnFails, ghosts, clusterVars, AfterRole
<1>25. ASSUME NEW r \in Roles, SkipRole(t, r) PROVE Replaced(t)'
  BY <1>25 DEF SkipRole, localVars, ghosts, clusterVars, AfterRole
<1> QED
  BY <1>3, <1>4, <1>5, <1>6, <1>7, <1>8, <1>9, <1>10, <1>11, <1>12, <1>13, <1>14, <1>15, <1>16,
      <1>17, <1>18, <1>19, <1>20, <1>21, <1>22, <1>23, <1>24, <1>25 DEF Step

\* Every step of a task keeps the calm.
LEMMA CalmKeeps ==
    ASSUME Inv, Calm, NEW t \in Tasks, Step(t) PROVE Calm'
<1>1. SUFFICES ASSUME ~disturbed'
               PROVE  /\ \A u, v \in Tasks : pc'[u] \in Running /\ pc'[v] \in Running => u = v
                      /\ (ActiveNodes \subseteq blocks)'
                      /\ \A n \in Nodes : HasRows(n)' =>
                            n \in records' \/ \E u \in Tasks : n \in Exempt(u)'
                      /\ \A u \in Tasks : pc'[u] \in Running => TaskCalm(u)'
  BY DEF Calm
<1>2. /\ ~disturbed /\ pc[t] \in Running
      /\ \A u \in Tasks \ {t} : pc'[u] = pc[u] /\ repl'[u] = repl[u]
  BY <1>1, StepShape
<1>3. \A u \in Tasks \ {t} : pc[u] \notin Running
  BY <1>2 DEF Calm
<1>4. \A u \in Tasks \ {t}, n \in Nodes : n \notin Exempt(u)
  BY <1>3 DEF Exempt, Running, Working, Roles
<1>5. CalmAt(t)
  BY <1>2, <1>4 DEF Calm, CalmAt
<1>6. pc'[t] \in Running => TaskCalm(t)'
  BY <1>1, <1>5, KindStep, DeadStep, ReplacementStep, ReplacedStep DEF TaskCalm
<1>7. (ActiveNodes \subseteq blocks)' /\ (\A n \in Nodes : HasRows(n) => n \in records \cup Exempt(t))'
  BY <1>1, <1>5, ActiveStep, CoveredStep
<1> QED
  BY <1>2, <1>3, <1>6, <1>7

\* Steps that leave the cluster and the tasks under way alone.
LEMMA CalmSame ==
    ASSUME Calm, UNCHANGED <<clusterVars, localVars, disturbed>>,
           \A t \in Tasks : pc'[t] = pc[t] \/ (pc'[t] \notin Running /\ pc[t] \notin Running)
    PROVE  Calm'
<1>1. SUFFICES ASSUME ~disturbed'
               PROVE  /\ \A t, u \in Tasks : pc'[t] \in Running /\ pc'[u] \in Running => t = u
                      /\ (ActiveNodes \subseteq blocks)'
                      /\ \A n \in Nodes : HasRows(n)' =>
                            n \in records' \/ \E t \in Tasks : n \in Exempt(t)'
                      /\ \A t \in Tasks : pc'[t] \in Running => TaskCalm(t)'
  BY DEF Calm
<1>2. /\ ~disturbed /\ rows' = rows /\ blocks' = blocks /\ records' = records
      /\ exclude' = exclude /\ repl' = repl /\ roles' = roles /\ errs' = errs
  BY <1>1 DEF clusterVars, localVars
<1>3. /\ \A t, u \in Tasks : pc[t] \in Running /\ pc[u] \in Running => t = u
      /\ ActiveNodes \subseteq blocks
      /\ \A n \in Nodes : HasRows(n) => n \in records \/ \E t \in Tasks : n \in Exempt(t)
      /\ \A t \in Tasks : pc[t] \in Running => TaskCalm(t)
  BY <1>2 DEF Calm
<1>4. \A t \in Tasks, n \in Nodes : n \in Exempt(t) => n \in Exempt(t)'
  BY <1>2 DEF Exempt, Running, Working, Roles
<1>5. (ActiveNodes \subseteq blocks)' /\ \A n \in Nodes : HasRows(n)' <=> HasRows(n)
  BY <1>2, <1>3 DEF ActiveNodes, HasRows
<1>6. ASSUME NEW t \in Tasks, pc'[t] \in Running PROVE TaskCalm(t)'
  <2>1. TaskCalm(t) /\ pc'[t] = pc[t]
    BY <1>3, <1>6
  <2> QED
    BY <1>2, <2>1 DEF TaskCalm, Kind, DeadNode, Replacement, Replaced, HasRows, ActiveNodes
<1>7. \A t, u \in Tasks : pc'[t] \in Running /\ pc'[u] \in Running => t = u
  <2>1. \A t \in Tasks : pc'[t] \in Running => pc[t] \in Running
    OBVIOUS
  <2> QED
    BY <1>3, <2>1
<1>8. \A n \in Nodes : HasRows(n)' => n \in records' \/ \E t \in Tasks : n \in Exempt(t)'
  <2>1. SUFFICES ASSUME NEW n \in Nodes, HasRows(n)', n \notin records'
                 PROVE  \E t \in Tasks : n \in Exempt(t)'
    OBVIOUS
  <2>2. HasRows(n) /\ n \notin records
    BY <1>2, <1>5, <2>1
  <2>3. PICK t \in Tasks : n \in Exempt(t)
    BY <1>3, <2>2
  <2> QED
    BY <1>4, <2>3
<1> QED
  BY <1>5, <1>6, <1>7, <1>8

\* A call that begins while no other is under way, at a statement before which
\* nothing is asked of the cluster.
LEMMA CalmBegins ==
    ASSUME Inv, Calm, NEW t \in Tasks, NEW p \in {"offline", "count"},
           p = "offline" <=> ~IsRepair(t), pc[t] = "idle",
           pc' = [pc EXCEPT ![t] = p], disturbed' = (disturbed \/ Overlaps(t)),
           UNCHANGED <<clusterVars, localVars>>
    PROVE  Calm'
<1>1. SUFFICES ASSUME ~disturbed'
               PROVE  /\ \A u, v \in Tasks : pc'[u] \in Running /\ pc'[v] \in Running => u = v
                      /\ (ActiveNodes \subseteq blocks)'
                      /\ \A n \in Nodes : HasRows(n)' =>
                            n \in records' \/ \E u \in Tasks : n \in Exempt(u)'
                      /\ \A u \in Tasks : pc'[u] \in Running => TaskCalm(u)'
  BY DEF Calm
<1>2. ~disturbed /\ \A u \in Tasks \ {t} : pc[u] \notin Running
  BY <1>1 DEF Overlaps
<1>3. pc \in [Tasks -> PCs] /\ pc[t] \notin Running
  BY Parts DEF Locals, Running, Locking, Working, Roles
<1>4. rows' = rows /\ blocks' = blocks /\ records' = records
  BY DEF clusterVars
<1>5. \A u \in Tasks : pc[u] \notin Running
  BY <1>2, <1>3
<1>6. \A u \in Tasks, n \in Nodes : n \notin Exempt(u)
  BY <1>5 DEF Exempt, Running, Working, Roles
<1>7. /\ (ActiveNodes \subseteq blocks)'
      /\ \A n \in Nodes : HasRows(n)' => n \in records'
  BY <1>2, <1>4, <1>6 DEF Calm, ActiveNodes, HasRows
<1>8. pc'[t] = p /\ \A u \in Tasks \ {t} : pc'[u] \notin Running
  BY <1>2, <1>3
<1>9. TaskCalm(t)'
  BY <1>8 DEF TaskCalm, Kind, DeadNode, Replacement, Replaced, ReplaceOnly, Locking, Marked,
              Chosen, Swapped, Roles
<1> QED
  BY <1>7, <1>8, <1>9

\* Every action keeps what holds while nothing goes wrong.
LEMMA CalmNext ==
    ASSUME Inv, Calm, [Next]_vars PROVE Calm'
<1>1. ASSUME NEW n \in Nodes, Crash(n) PROVE Calm'
  BY <1>1, CalmSame DEF Crash, ghosts
<1>2. ASSUME NEW n \in Nodes, Restart(n) PROVE Calm'
  <2>1. \A t \in Tasks : pc'[t] = pc[t] \/ (pc'[t] \notin Running /\ pc[t] \notin Running)
    BY <1>2 DEF Restart, Running, Locking, Working, Roles
  <2> QED
    BY <1>2, <2>1, CalmSame DEF Restart, ghosts
<1>3. ASSUME NEW p \in Procs, NEW n \in Nodes, NodeDead(p, n) PROVE Calm'
  <2>1. <<p, n>> \in Tasks /\ ~IsRepair(<<p, n>>)
    BY RecoveryAssumption DEF Tasks, IsRepair
  <2> QED
    BY <1>3, <2>1, CalmBegins DEF NodeDead
<1>4. ASSUME NEW p \in Procs, RepairCluster(p) PROVE Calm'
  <2>1. <<p, NoNode>> \in Tasks /\ IsRepair(<<p, NoNode>>)
    BY DEF Tasks, IsRepair
  <2> QED
    BY <1>4, <2>1, CalmBegins DEF RepairCluster
<1>5. CASE UNCHANGED vars
  BY <1>5, CalmSame DEF vars, clusterVars, localVars
<1> QED
  BY <1>1, <1>2, <1>3, <1>4, <1>5, CalmKeeps DEF Next

\* It holds at first,
LEMMA CalmInit == Init => Calm
<1> SUFFICES ASSUME Init PROVE Calm
  OBVIOUS
<1>1. \A t \in Tasks : pc[t] \notin Running
  BY DEF Init, Running, Locking, Working, Roles
<1>2. ActiveNodes \subseteq blocks /\ \A n \in Nodes : HasRows(n) => n \in records
  BY DEF Init, ActiveNodes, HasRows
<1> QED
  BY <1>1, <1>2 DEF Calm

\* and in every reachable state.
LEMMA AlwaysCalm == Spec => []Calm
<1>1. Inv /\ Calm /\ [Next]_vars => Calm'
  BY CalmNext
<1> QED
  BY <1>1, CalmInit, Invariance, PTL DEF Spec

\* As long as recoveries and repairs do not overlap and no statement is lost,
\* a node that counts as running a service holds the cluster's ports.
THEOREM PortsKept == Spec => []PortsHeld
<1>1. Calm => PortsHeld
  BY DEF Calm, PortsHeld
<1> QED
  BY <1>1, AlwaysCalm, PTL

\* ReplaceClusterNode, undisturbed and with all services started, has moved
\* everything from the dead node to the replacement before the cluster becomes
\* ready: rows, ports and DNS record.
THEOREM ReplacementsComplete == Spec => []ReplacementComplete
<1>1. ASSUME Inv, Calm PROVE ReplacementComplete
  <2>1. SUFFICES ASSUME NEW t \in Tasks, pc[t] = "finish", ~IsRepair(t), ~errs[t], ~disturbed
                 PROVE  /\ ~HasRows(Dead(t)) /\ Dead(t) \notin blocks
                        /\ \A r \in roles[t] : rows[repl[t]][r] = "running"
                        /\ repl[t] \in blocks \cap records
    BY DEF ReplacementComplete
  <2>2. TaskCalm(t)
    BY <1>1, <2>1 DEF Calm, Running, Working
  <2>3. Before(pc[t]) = Roles /\ roles[t] \subseteq Roles
    BY <1>1, <2>1 DEF Before, Inv, TypeOK
  <2> QED
    BY <2>1, <2>2, <2>3 DEF TaskCalm, DeadNode, Replaced, Swapped
<1> QED
  BY <1>1, AlwaysCalm, Invariance, PTL

=============================================================================
