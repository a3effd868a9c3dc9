-------------------------- MODULE NodeHealthProofs --------------------------
(***************************************************************************)
(* Proofs about the failure detector and about what follows from a         *)
(* suspicion: HealthMonitor for any ring, thresholds and faults, and       *)
(* SuspectDNS for any monitors, nodes and namespaces.                      *)
(***************************************************************************)
EXTENDS HealthMonitor, SuspectDNS, FiniteSetTheorems, FunctionTheorems, TLAPS

USE DEF nodeVars, peerVars

\* The next step of a check keeps goroutines and cutoffs well typed.
LEMMA CheckTypes ==
    ASSUME TypeOK, NEW m \in Nodes, NEW t \in Watched, NEW next \in Tasks,
           Check(m, t, next)
    PROVE  /\ task' \in [Nodes -> [Watched -> Tasks]]
           /\ held' \in [Nodes -> [Watched -> SUBSET Nodes]]
<1>1. task' \in [Nodes -> [Watched -> Tasks]]
  BY DEF Check, TypeOK
<1>2. \/ held' = held
      \/ held' = [held EXCEPT ![m][t] = {}]
  BY Zenon DEF Check
<1>3. ASSUME held' = [held EXCEPT ![m][t] = {}]
      PROVE  held' \in [Nodes -> [Watched -> SUBSET Nodes]]
  BY <1>3 DEF TypeOK
<1>4. held \in [Nodes -> [Watched -> SUBSET Nodes]]
  BY DEF TypeOK
<1> QED
  BY <1>1, <1>2, <1>3, <1>4

\* The monitors, the node table and the recovery goroutines are well typed.
THEOREM TypeCorrect == Spec => []TypeOK
<1>1. Init => TypeOK
  BY MonitorAssumption DEF Init, TypeOK, Tasks, Statuses, Handlers
<1>2. TypeOK /\ [Next]_vars => TypeOK'
  <2> SUFFICES ASSUME TypeOK, [Next]_vars PROVE TypeOK'
    OBVIOUS
  <2> USE MonitorAssumption DEF TypeOK
  <2>1. ASSUME NEW m \in Nodes, StartRound(m) PROVE TypeOK'
    BY <2>1 DEF StartRound, RingNeighbors, Ring, Tasks
  <2>2. ASSUME NEW m \in Nodes, NEW t \in Watched, ProbeOk(m, t) PROVE TypeOK'
    <3>1. /\ handlers' \subseteq Handlers
          /\ recovered' \in [Watched -> BOOLEAN]
      <4>1. [kind |-> "recovered", by |-> m, node |-> t] \in Handlers
        BY DEF Handlers
      <4> QED
        BY <2>2, <4>1 DEF ProbeOk
    <3>2. /\ task' \in [Nodes -> [Watched -> Tasks]]
          /\ miss' \in [Nodes -> [Watched -> 0 .. DeadAfter]]
      BY <2>2 DEF ProbeOk, Tasks
    <3>3. /\ health' \in [Nodes -> [Watched -> Statuses]]
          /\ reported' \in [Nodes -> [Watched -> BOOLEAN]]
      BY <2>2 DEF ProbeOk, Statuses
    <3> QED
      BY <2>2, <3>1, <3>2, <3>3 DEF ProbeOk
  <2>3. ASSUME NEW m \in Nodes, NEW t \in Watched, ProbeMiss(m, t) PROVE TypeOK'
    <3>1. Misses(m, t) \in 0 .. DeadAfter
      BY DEF Misses
    <3>2. miss' \in [Nodes -> [Watched -> 0 .. DeadAfter]]
      BY <2>3, <3>1 DEF ProbeMiss, Miss
    <3>3. health' \in [Nodes -> [Watched -> Statuses]]
      <4>1. health[m][t] \in Statuses /\ "suspect" \in Statuses /\ "dead" \in Statuses
        BY DEF Statuses
      <4>2. PICK s \in Statuses : health' = [health EXCEPT ![m][t] = s]
        BY <2>3, <4>1 DEF ProbeMiss, Miss
      <4> QED
        BY <4>2
    <3>4. task' \in [Nodes -> [Watched -> Tasks]]
      BY <2>3 DEF ProbeMiss, Miss, Tasks
    <3>5. reported' \in [Nodes -> [Watched -> BOOLEAN]]
      <4>1. \/ reported' = reported
            \/ reported' = [reported EXCEPT ![m][t] = TRUE]
        BY <2>3, Zenon DEF ProbeMiss, Miss
      <4>2. ASSUME reported' = [reported EXCEPT ![m][t] = TRUE]
            PROVE  reported' \in [Nodes -> [Watched -> BOOLEAN]]
        <5>1. [reported[m] EXCEPT ![t] = TRUE] \in [Watched -> BOOLEAN]
          OBVIOUS
        <5>2. reported' = [reported EXCEPT ![m] = [reported[m] EXCEPT ![t] = TRUE]]
          BY <4>2
        <5> QED
          BY <5>1, <5>2
      <4> QED
        BY <4>1, <4>2
    <3> QED
      BY <2>3, <3>2, <3>3, <3>4, <3>5 DEF ProbeMiss
  <2>4. ASSUME NEW m \in Nodes, NEW t \in Watched, WriteDeadEvent(m, t) PROVE TypeOK'
    BY <2>4 DEF WriteDeadEvent, Tasks
  <2>5. ASSUME NEW m \in Nodes, NEW t \in Watched, CountObservers(m, t) PROVE TypeOK'
    <3>1. PICK next \in Tasks : Check(m, t, next)
      BY <2>5 DEF CountObservers, Tasks
    <3>2. task' \in [Nodes -> [Watched -> Tasks]] /\ held' \in [Nodes -> [Watched -> SUBSET Nodes]]
      BY <3>1, CheckTypes
    <3> QED
      BY <2>5, <3>2 DEF CountObservers
  <2>6. ASSUME NEW m \in Nodes, NEW t \in Watched, CheckLowest(m, t) PROVE TypeOK'
    <3>1. task' \in [Nodes -> [Watched -> Tasks]] /\ held' \in [Nodes -> [Watched -> SUBSET Nodes]]
      <4>1. "none" \in Tasks /\ Check(m, t, "none")
        BY <2>6 DEF CheckLowest, Tasks
      <4> QED
        BY <4>1, CheckTypes
    <3>2. /\ recovery' \in [Watched -> SUBSET Nodes]
          /\ recovered' \in [Watched -> BOOLEAN]
          /\ handlers' \subseteq Handlers
      <4>1. [kind |-> "dead", by |-> m, node |-> t] \in Handlers
        BY DEF Handlers
      <4>2. \/ UNCHANGED <<recovery, recovered, handlers>>
            \/ /\ recovery' = [recovery EXCEPT ![t] = @ \cup {m}]
               /\ recovered' = [recovered EXCEPT ![t] = FALSE]
               /\ handlers' = handlers \cup
                      {[kind |-> "dead", by |-> m, node |-> t]}
        BY <2>6, Zenon DEF CheckLowest
      <4>3. recovery' \in [Watched -> SUBSET Nodes] /\ handlers' \subseteq Handlers
        BY <4>1, <4>2
      <4>4. recovered' \in [Watched -> BOOLEAN]
        BY <4>2
      <4> QED
        BY <4>3, <4>4
    <3> QED
      BY <2>6, <3>1, <3>2 DEF CheckLowest
  <2>7. ASSUME NEW m \in Nodes, NEW t \in Watched, CheckFails(m, t) PROVE TypeOK'
    <3>1. task' \in [Nodes -> [Watched -> Tasks]] /\ held' \in [Nodes -> [Watched -> SUBSET Nodes]]
      <4>1. "none" \in Tasks /\ Check(m, t, "none")
        BY <2>7 DEF CheckFails, Tasks
      <4> QED
        BY <4>1, CheckTypes
    <3> QED
      BY <2>7, <3>1 DEF CheckFails
  <2>8. ASSUME NEW m \in Nodes, EndRound(m) PROVE TypeOK'
    <3>1. miss' \in [Nodes -> [Watched -> 0 .. DeadAfter]]
      BY <2>8 DEF EndRound, Pruned
    <3>2. health' \in [Nodes -> [Watched -> Statuses]]
      BY <2>8 DEF EndRound, Pruned, Statuses
    <3>3. reported' \in [Nodes -> [Watched -> BOOLEAN]]
      BY <2>8 DEF EndRound, Pruned
    <3> QED
      BY <2>8, <3>1, <3>2, <3>3 DEF EndRound
  <2>9. ASSUME NEW m \in Nodes, EndGrace(m) PROVE TypeOK'
    BY <2>9 DEF EndGrace
  <2>10. ASSUME NEW m \in Nodes, NEW t \in Watched, EventExpires(m, t) PROVE TypeOK'
    BY <2>10 DEF EventExpires
  <2>11. ASSUME NEW n \in Nodes, Crash(n) PROVE TypeOK'
    BY <2>11 DEF Crash, Tasks, Statuses
  <2>12. ASSUME NEW n \in Nodes, Restart(n) PROVE TypeOK'
    BY <2>12 DEF Restart
  <2>13. ASSUME NEW n \in Nodes, Heartbeat(n) PROVE TypeOK'
    BY <2>13 DEF Heartbeat
  <2>14. ASSUME NEW n \in Nodes, LastSeenLapses(n) PROVE TypeOK'
    BY <2>14 DEF LastSeenLapses
  <2>15. ASSUME NEW n \in Nodes, CleanupStaleNode(n) PROVE TypeOK'
    BY <2>15 DEF CleanupStaleNode
  <2>16. ASSUME NEW h \in handlers, HandleDeadNode(h) PROVE TypeOK'
    BY <2>16 DEF HandleDeadNode, Handlers
  <2>17. ASSUME NEW h \in handlers, HandleRecoveredNode(h) PROVE TypeOK'
    BY <2>17 DEF HandleRecoveredNode, Handlers
  <2>18. CASE UNCHANGED vars
    BY <2>18 DEF vars
  <2> QED
    BY <2>1, <2>2, <2>3, <2>4, <2>5, <2>6, <2>7, <2>8, <2>9, <2>10, <2>11,
       <2>12, <2>13, <2>14, <2>15, <2>16, <2>17, <2>18 DEF Next, Goroutine
<1> QED
  BY <1>1, <1>2, PTL DEF Spec

----------------------------------------------------------------------------
(* The peer states of a monitor *)

\* A node that is down runs no goroutine and remembers no peer.
DownIsEmpty ==
    \A n \in Nodes, t \in Watched :
        ~up[n] => task[n][t] = "none" /\ health[n][t] = "healthy"

PeerInv == PeerStateConsistent /\ GraceHoldsNobodyDead /\ DownIsEmpty

\* An action that changes at most the peer state of m about t preserves
\* PeerInv if it leaves that state consistent.
LEMMA PeerStep ==
    ASSUME TypeOK, PeerInv, UNCHANGED <<up, grace>>,
           NEW m \in Nodes, NEW t \in Watched, up[m],
           NEW c \in 0 .. DeadAfter, NEW s \in Statuses, NEW r \in BOOLEAN,
           NEW k \in Tasks,
           miss' = [miss EXCEPT ![m][t] = c],
           health' = [health EXCEPT ![m][t] = s],
           reported' = [reported EXCEPT ![m][t] = r],
           task' = [task EXCEPT ![m][t] = k],
           s = "healthy" => c < SuspectAfter,
           s # "healthy" => c >= SuspectAfter,
           s = "dead" => c = DeadAfter /\ ~grace[m],
           r <=> s = "dead"
    PROVE  PeerInv'
<1>1. ASSUME NEW n \in Nodes, NEW u \in Watched
      PROVE  /\ <<n, u>> = <<m, t>> =>
                    /\ miss'[n][u] = c /\ health'[n][u] = s
                    /\ reported'[n][u] = r /\ task'[n][u] = k
             /\ <<n, u>> # <<m, t>> =>
                    /\ miss'[n][u] = miss[n][u] /\ health'[n][u] = health[n][u]
                    /\ reported'[n][u] = reported[n][u]
                    /\ task'[n][u] = task[n][u]
  BY DEF TypeOK
<1>2. ASSUME NEW n \in Nodes, NEW u \in Watched
      PROVE  /\ health'[n][u] = "healthy" => miss'[n][u] < SuspectAfter
             /\ health'[n][u] # "healthy" => miss'[n][u] >= SuspectAfter
             /\ health'[n][u] = "dead" => miss'[n][u] = DeadAfter
             /\ reported'[n][u] <=> health'[n][u] = "dead"
             /\ health'[n][u] = "dead" => ~grace'[n]
             /\ ~up'[n] => task'[n][u] = "none" /\ health'[n][u] = "healthy"
  <2>1. CASE <<n, u>> = <<m, t>>
    BY <1>1, <2>1
  <2>2. CASE <<n, u>> # <<m, t>>
    BY <1>1, <2>2 DEF PeerInv, PeerStateConsistent, GraceHoldsNobodyDead, DownIsEmpty
  <2> QED
    BY <2>1, <2>2
<1> QED
  BY <1>2 DEF PeerInv, PeerStateConsistent, GraceHoldsNobodyDead, DownIsEmpty

\* Every action preserves the invariant of the peer states.
LEMMA PeerInvStep == TypeOK /\ PeerInv /\ [Next]_vars => PeerInv'
<1> SUFFICES ASSUME TypeOK, PeerInv, [Next]_vars PROVE PeerInv'
  OBVIOUS
<1> USE MonitorAssumption
<1>a. ASSUME UNCHANGED <<up, grace, task, peerVars>> PROVE PeerInv'
  BY <1>a DEF PeerInv, PeerStateConsistent, GraceHoldsNobodyDead, DownIsEmpty
<1>b. ASSUME NEW m \in Nodes, NEW t \in Watched, NEW k \in Tasks, task[m][t] # "none",
             task' = [task EXCEPT ![m][t] = k], UNCHANGED <<up, grace, peerVars>>
      PROVE  PeerInv'
  BY <1>b DEF PeerInv, PeerStateConsistent, GraceHoldsNobodyDead, DownIsEmpty, TypeOK
<1>1. ASSUME NEW m \in Nodes, StartRound(m) PROVE PeerInv'
  BY <1>1 DEF StartRound, TypeOK, PeerInv, PeerStateConsistent,
              GraceHoldsNobodyDead, DownIsEmpty
<1>2. ASSUME NEW m \in Nodes, NEW t \in Watched, ProbeOk(m, t) PROVE PeerInv'
  <2>1. up[m]
    BY <1>2 DEF ProbeOk, PeerInv, DownIsEmpty
  <2>2. 0 \in 0 .. DeadAfter /\ "healthy" \in Statuses /\ "none" \in Tasks
    BY DEF Statuses, Tasks
  <2>3. /\ UNCHANGED <<up, grace>>
        /\ miss' = [miss EXCEPT ![m][t] = 0]
        /\ health' = [health EXCEPT ![m][t] = "healthy"]
        /\ reported' = [reported EXCEPT ![m][t] = FALSE]
        /\ task' = [task EXCEPT ![m][t] = "none"]
    BY <1>2 DEF ProbeOk
  <2>4. 0 < SuspectAfter /\ "healthy" # "dead" /\ FALSE \in BOOLEAN
    OBVIOUS
  <2> QED
    BY <2>1, <2>2, <2>3, <2>4, PeerStep
<1>3. ASSUME NEW m \in Nodes, NEW t \in Watched, ProbeMiss(m, t) PROVE PeerInv'
  <2>1. up[m]
    BY <1>3 DEF ProbeMiss, PeerInv, DownIsEmpty
  <2>2. /\ Misses(m, t) \in 0 .. DeadAfter
        /\ Misses(m, t) >= miss[m][t]
    BY DEF Misses, TypeOK
  <2>3. /\ health[m][t] \in Statuses /\ reported[m][t] \in BOOLEAN
        /\ {"suspect", "dead"} \subseteq Statuses
        /\ {"none", "dead"} \subseteq Tasks
    BY DEF TypeOK, Statuses, Tasks
  <2>4. /\ UNCHANGED <<up, grace>>
        /\ miss' = [miss EXCEPT ![m][t] = Misses(m, t)]
        /\ Miss(m, t)
    BY <1>3 DEF ProbeMiss, Miss
  <2>5. /\ health[m][t] = "healthy" => miss[m][t] < SuspectAfter
        /\ health[m][t] # "healthy" => miss[m][t] >= SuspectAfter
        /\ health[m][t] = "dead" => miss[m][t] = DeadAfter /\ ~grace[m]
        /\ reported[m][t] <=> health[m][t] = "dead"
        /\ miss[m][t] \in 0 .. DeadAfter
    BY DEF PeerInv, PeerStateConsistent, GraceHoldsNobodyDead, TypeOK
  <2>6. reported = [reported EXCEPT ![m][t] = reported[m][t]]
    BY DEF TypeOK
  <2>7. CASE ReachesDead(m, t) /\ InStartupGrace(m)
    <3>1. /\ health' = [health EXCEPT ![m][t] = "suspect"]
          /\ reported' = reported
          /\ task' = [task EXCEPT ![m][t] = "none"]
      BY <2>4, <2>7 DEF Miss
    <3>2. Misses(m, t) >= SuspectAfter /\ ~reported[m][t]
      BY <2>2, <2>7 DEF ReachesDead
    <3> QED
      BY <2>1, <2>2, <2>3, <2>4, <2>6, <3>1, <3>2, PeerStep
  <2>8. CASE ReachesDead(m, t) /\ ~InStartupGrace(m)
    <3>1. /\ health' = [health EXCEPT ![m][t] = "dead"]
          /\ reported' = [reported EXCEPT ![m][t] = TRUE]
          /\ task' = [task EXCEPT ![m][t] = "dead"]
      BY <2>4, <2>8 DEF Miss
    <3>2. Misses(m, t) = DeadAfter /\ Misses(m, t) >= SuspectAfter /\ ~grace[m]
      BY <2>2, <2>8 DEF ReachesDead, InStartupGrace
    <3> QED
      BY <2>1, <2>2, <2>3, <2>4, <3>1, <3>2, PeerStep
  <2>9. CASE ~ReachesDead(m, t)
    <3> DEFINE s == IF ReachesSuspect(m, t) THEN "suspect" ELSE health[m][t]
    <3>1. /\ health' = [health EXCEPT ![m][t] = s]
          /\ reported' = reported
          /\ task' = [task EXCEPT ![m][t] = "none"]
      BY <2>4, <2>9 DEF Miss
    <3>2. /\ s \in Statuses
          /\ s = "healthy" => Misses(m, t) < SuspectAfter
          /\ s # "healthy" => Misses(m, t) >= SuspectAfter
          /\ s = "dead" => Misses(m, t) = DeadAfter /\ ~grace[m]
          /\ reported[m][t] <=> s = "dead"
      BY <2>2, <2>3, <2>5 DEF ReachesSuspect, Statuses
    <3> HIDE DEF s
    <3> QED
      BY <2>1, <2>2, <2>3, <2>4, <2>6, <3>1, <3>2, PeerStep
  <2> QED
    BY <2>7, <2>8, <2>9
<1>4. ASSUME NEW m \in Nodes, NEW t \in Watched,
             \/ WriteDeadEvent(m, t) \/ CountObservers(m, t)
             \/ CheckLowest(m, t) \/ CheckFails(m, t)
      PROVE  PeerInv'
  <2>1. /\ UNCHANGED <<up, grace, peerVars>> /\ task[m][t] # "none"
        /\ \E k \in Tasks : task' = [task EXCEPT ![m][t] = k]
    BY <1>4 DEF WriteDeadEvent, CountObservers, CheckLowest, CheckFails, Check, Tasks
  <2> QED
    BY <1>b, <2>1
<1>5. ASSUME NEW m \in Nodes, EndRound(m) PROVE PeerInv'
  <2>1. ASSUME NEW n \in Nodes, NEW u \in Watched
        PROVE  \/ /\ miss'[n][u] = miss[n][u] /\ health'[n][u] = health[n][u]
                  /\ reported'[n][u] = reported[n][u]
               \/ /\ miss'[n][u] = 0 /\ health'[n][u] = "healthy"
                  /\ reported'[n][u] = FALSE
    BY <1>5 DEF EndRound, Pruned, TypeOK
  <2>2. UNCHANGED <<up, grace, task>>
    BY <1>5 DEF EndRound
  <2>3. ASSUME NEW o \in Nodes, NEW u \in Watched
        PROVE  /\ health'[o][u] = "healthy" => miss'[o][u] < SuspectAfter
               /\ health'[o][u] # "healthy" => miss'[o][u] >= SuspectAfter
               /\ health'[o][u] = "dead" => miss'[o][u] = DeadAfter
               /\ reported'[o][u] <=> health'[o][u] = "dead"
               /\ health'[o][u] = "dead" => ~grace'[o]
               /\ ~up'[o] => task'[o][u] = "none" /\ health'[o][u] = "healthy"
    <3>1. /\ health[o][u] = "healthy" => miss[o][u] < SuspectAfter
          /\ health[o][u] # "healthy" => miss[o][u] >= SuspectAfter
          /\ health[o][u] = "dead" => miss[o][u] = DeadAfter
          /\ reported[o][u] <=> health[o][u] = "dead"
          /\ health[o][u] = "dead" => ~grace[o]
          /\ ~up[o] => task[o][u] = "none" /\ health[o][u] = "healthy"
      BY DEF PeerInv, PeerStateConsistent, GraceHoldsNobodyDead, DownIsEmpty
    <3>2. reported[o][u] \in BOOLEAN /\ 0 < SuspectAfter /\ "healthy" # "dead"
      BY DEF TypeOK
    <3> QED
      BY <2>1, <2>2, <3>1, <3>2
  <2> QED
    BY <2>3 DEF PeerInv, PeerStateConsistent, GraceHoldsNobodyDead, DownIsEmpty
<1>6. ASSUME NEW m \in Nodes, EndGrace(m) PROVE PeerInv'
  BY <1>6 DEF EndGrace, TypeOK, PeerInv, PeerStateConsistent,
              GraceHoldsNobodyDead, DownIsEmpty
<1>7. ASSUME NEW n \in Nodes, Crash(n) PROVE PeerInv'
  <2>1. ASSUME NEW o \in Nodes, NEW u \in Watched
        PROVE  /\ o # n => /\ miss'[o][u] = miss[o][u]
                           /\ health'[o][u] = health[o][u]
                           /\ reported'[o][u] = reported[o][u]
                           /\ task'[o][u] = task[o][u] /\ up'[o] = up[o]
               /\ o = n => /\ miss'[o][u] = 0 /\ health'[o][u] = "healthy"
                           /\ reported'[o][u] = FALSE /\ task'[o][u] = "none"
    BY <1>7 DEF Crash, TypeOK
  <2>2. grace' = grace
    BY <1>7 DEF Crash
  <2>3. ASSUME NEW o \in Nodes, NEW u \in Watched
        PROVE  /\ health'[o][u] = "healthy" => miss'[o][u] < SuspectAfter
               /\ health'[o][u] # "healthy" => miss'[o][u] >= SuspectAfter
               /\ health'[o][u] = "dead" => miss'[o][u] = DeadAfter
               /\ reported'[o][u] <=> health'[o][u] = "dead"
               /\ health'[o][u] = "dead" => ~grace'[o]
               /\ ~up'[o] => task'[o][u] = "none" /\ health'[o][u] = "healthy"
    <3>1. /\ health[o][u] = "healthy" => miss[o][u] < SuspectAfter
          /\ health[o][u] # "healthy" => miss[o][u] >= SuspectAfter
          /\ health[o][u] = "dead" => miss[o][u] = DeadAfter
          /\ reported[o][u] <=> health[o][u] = "dead"
          /\ health[o][u] = "dead" => ~grace[o]
          /\ ~up[o] => task[o][u] = "none" /\ health[o][u] = "healthy"
      BY DEF PeerInv, PeerStateConsistent, GraceHoldsNobodyDead, DownIsEmpty
    <3>2. reported[o][u] \in BOOLEAN /\ 0 < SuspectAfter /\ "healthy" # "dead"
      BY DEF TypeOK
    <3> QED
      BY <2>1, <2>2, <3>1, <3>2
  <2> QED
    BY <2>3 DEF PeerInv, PeerStateConsistent, GraceHoldsNobodyDead, DownIsEmpty
<1>8. ASSUME NEW n \in Nodes, Restart(n) PROVE PeerInv'
  <2>1. \A u \in Watched : health[n][u] # "dead"
    BY <1>8 DEF Restart, PeerInv, DownIsEmpty
  <2> QED
    BY <1>8, <2>1 DEF Restart, TypeOK, PeerInv, PeerStateConsistent,
                GraceHoldsNobodyDead, DownIsEmpty
<1>9. ASSUME NEW n \in Nodes,
             \/ \E t \in Watched : EventExpires(n, t)
             \/ Heartbeat(n) \/ LastSeenLapses(n) \/ CleanupStaleNode(n)
      PROVE  PeerInv'
  BY <1>9, <1>a DEF EventExpires, Heartbeat, LastSeenLapses, CleanupStaleNode
<1>10. ASSUME NEW h \in handlers, HandleDeadNode(h) \/ HandleRecoveredNode(h)
       PROVE  PeerInv'
  BY <1>10, <1>a DEF HandleDeadNode, HandleRecoveredNode
<1>11. CASE UNCHANGED vars
  BY <1>11, <1>a DEF vars
<1> QED
  BY <1>1, <1>2, <1>3, <1>4, <1>5, <1>6, <1>7, <1>8, <1>9, <1>10, <1>11
     DEF Next, Goroutine

\* The inductive invariant of the peer states.
THEOREM PeerInvariant == Spec => []PeerInv
<1>1. Init => PeerInv
  BY MonitorAssumption DEF Init, PeerInv, PeerStateConsistent,
                           GraceHoldsNobodyDead, DownIsEmpty
<1> QED
  BY <1>1, PeerInvStep, TypeCorrect, PTL DEF Spec

\* The fields of every peer state agree, whatever the interleaving of probes,
\* rounds, crashes and restarts.
THEOREM PeerStatesAgree == Spec => []PeerStateConsistent
BY PeerInvariant, PTL DEF PeerInv

\* A monitor in its startup grace period declares nobody dead.
THEOREM GraceKept == Spec => []GraceHoldsNobodyDead
BY PeerInvariant, PTL DEF PeerInv

----------------------------------------------------------------------------
(* Deaths and quorums *)

\* What follows from the report of a node that never went down.
Blame ==
    /\ \A n \in Nodes : crashes[n] = 0 => up[n]
    /\ \A m \in Nodes, t \in Watched :
          /\ crashes[t] = 0
          /\ \/ task[m][t] \in {"dead", "count", "lowest"}
             \/ <<m, t>> \in deadEvents
             \/ \E o \in Nodes : m \in held[o][t]
          => <<m, t>> \in Lossy

\* A monitor that has counted a quorum still has it when it asks for the
\* lowest observer.
CountedQuorum ==
    \A m \in Nodes, t \in Watched :
        task[m][t] = "lowest" => Quorum(SeenObservers(m, t))

DeathInv == Blame /\ CountedQuorum /\ NoFalseDeath

\* What a check sees is a finite set of nodes.
LEMMA SeenFinite ==
    ASSUME TypeOK, NEW m \in Nodes, NEW t \in Watched
    PROVE  /\ SeenObservers(m, t) \subseteq Nodes
           /\ IsFiniteSet(SeenObservers(m, t))
           /\ Cardinality(SeenObservers(m, t)) \in Nat
<1>1. SeenObservers(m, t) \subseteq Nodes
  BY DEF SeenObservers, DeadObservers, TypeOK
<1> QED
  BY <1>1, MonitorAssumption, FS_Subset, FS_CardinalityType

\* A larger set of observers is still a quorum.
LEMMA QuorumGrows ==
    ASSUME NEW S, NEW T, IsFiniteSet(T), S \subseteq T, Quorum(S)
    PROVE  Quorum(T)
<1>1. IsFiniteSet(S) /\ Cardinality(S) <= Cardinality(T)
  BY FS_Subset
<1>2. Cardinality(S) \in Nat /\ Cardinality(T) \in Nat
  BY <1>1, FS_CardinalityType
<1> QED
  BY <1>1, <1>2, MonitorAssumption DEF Quorum

\* A quorum against a node that never went down consists of observers with
\* lossy links.
LEMMA QuorumIsLossy ==
    ASSUME TypeOK, Blame, NEW m \in Nodes, NEW t \in Watched, crashes[t] = 0,
           Quorum(SeenObservers(m, t))
    PROVE  Cardinality({o \in Nodes : <<o, t>> \in Lossy}) >= MinQuorum
<1> DEFINE L == {o \in Nodes : <<o, t>> \in Lossy}
<1>1. IsFiniteSet(L)
  BY MonitorAssumption, FS_Subset
<1>2. SeenObservers(m, t) \subseteq L
  BY SeenFinite DEF SeenObservers, DeadObservers, Blame
<1> HIDE DEF L
<1>3. Quorum(L)
  BY <1>1, <1>2, QuorumGrows
<1> QED
  BY <1>3 DEF L, Quorum

\* An action that takes no event away from a check keeps the quorum it has
\* counted.
LEMMA CountedKept ==
    ASSUME TypeOK, TypeOK', CountedQuorum,
           \A m \in Nodes, t \in Watched : task'[m][t] = "lowest" =>
               /\ task[m][t] = "lowest"
               /\ SeenObservers(m, t) \subseteq SeenObservers(m, t)'
    PROVE  CountedQuorum'
<1> SUFFICES ASSUME NEW m \in Nodes, NEW t \in Watched, task'[m][t] = "lowest"
             PROVE  Quorum(SeenObservers(m, t))'
  BY DEF CountedQuorum
<1>1. Quorum(SeenObservers(m, t))
  BY DEF CountedQuorum
<1>2. SeenObservers(m, t)' \subseteq Nodes
  BY DEF SeenObservers, DeadObservers, TypeOK
<1>3. IsFiniteSet(SeenObservers(m, t)')
  BY <1>2, MonitorAssumption, FS_Subset
<1>4. SeenObservers(m, t) \subseteq SeenObservers(m, t)'
  OBVIOUS
<1>5. PICK S : S = SeenObservers(m, t)'
  OBVIOUS
<1>6. Quorum(S)
  BY <1>1, <1>3, <1>4, <1>5, QuorumGrows
<1> QED
  BY <1>5, <1>6 DEF Quorum

\* Every action preserves the invariant about deaths.
LEMMA DeathInvStep == TypeOK /\ TypeOK' /\ PeerInv /\ DeathInv /\ [Next]_vars => DeathInv'
<1> SUFFICES ASSUME TypeOK, TypeOK', PeerInv, DeathInv, [Next]_vars PROVE DeathInv'
  OBVIOUS
<1> USE MonitorAssumption
<1> DEFINE Reporting == {"dead", "count", "lowest"}
\* An action that starts no report and no quorum check.
<1>a. ASSUME UNCHANGED <<up, crashes, recovery>>, deadEvents' = deadEvents,
             \A m \in Nodes, t \in Watched :
                 /\ task'[m][t] \in Reporting => /\ task'[m][t] = task[m][t]
                                                 /\ held'[m][t] = held[m][t]
                 /\ held'[m][t] \subseteq held[m][t]
      PROVE  DeathInv'
  <2>1. Blame'
    BY <1>a DEF DeathInv, Blame
  <2>2. CountedQuorum'
    <3>1. ASSUME NEW m \in Nodes, NEW t \in Watched, task'[m][t] = "lowest"
          PROVE  /\ task[m][t] = "lowest"
                 /\ SeenObservers(m, t) \subseteq SeenObservers(m, t)'
      BY <1>a, <3>1 DEF SeenObservers, DeadObservers
    <3> QED
      BY <3>1, CountedKept DEF DeathInv
  <2>3. NoFalseDeath'
    BY <1>a DEF DeathInv, NoFalseDeath
  <2> QED
    BY <2>1, <2>2, <2>3 DEF DeathInv
<1>1. ASSUME NEW m \in Nodes, StartRound(m) PROVE DeathInv'
  BY <1>1, <1>a DEF StartRound, TypeOK
<1>2. ASSUME NEW m \in Nodes, NEW t \in Watched, ProbeOk(m, t) PROVE DeathInv'
  BY <1>2, <1>a DEF ProbeOk, TypeOK
<1>3. ASSUME NEW m \in Nodes, NEW t \in Watched, ProbeMiss(m, t) PROVE DeathInv'
  <2>1. \/ task' = [task EXCEPT ![m][t] = "none"]
        \/ task' = [task EXCEPT ![m][t] = "dead"]
    BY <1>3, Zenon DEF ProbeMiss, Miss
  <2>2. crashes[t] = 0 => <<m, t>> \in Lossy
    BY <1>3 DEF ProbeMiss, DeathInv, Blame
  <2>3. UNCHANGED <<up, crashes, recovery, deadEvents, held>>
    BY <1>3 DEF ProbeMiss
  <2>4. Blame'
    <3>1. ASSUME NEW o \in Nodes, NEW u \in Watched,
                 task'[o][u] \in {"dead", "count", "lowest"}
          PROVE  task[o][u] = task'[o][u] \/ (o = m /\ u = t)
      BY <2>1, <3>1 DEF TypeOK
    <3> QED
      BY <2>2, <2>3, <3>1 DEF DeathInv, Blame
  <2>5. CountedQuorum'
    <3>1. ASSUME NEW o \in Nodes, NEW u \in Watched, task'[o][u] = "lowest"
          PROVE  task[o][u] = "lowest"
      <4>1. /\ task \in [Nodes -> [Watched -> Tasks]]
            /\ task' = [task EXCEPT ![m][t] = "none"] \/ task' = [task EXCEPT ![m][t] = "dead"]
        BY <2>1 DEF TypeOK
      <4> QED
        BY <3>1, <4>1
    <3>2. \A o \in Nodes, u \in Watched : SeenObservers(o, u)' = SeenObservers(o, u)
      BY <2>3 DEF SeenObservers, DeadObservers
    <3> QED
      BY <3>1, <3>2, CountedKept DEF DeathInv
  <2>6. NoFalseDeath'
    BY <2>3 DEF DeathInv, NoFalseDeath
  <2> QED
    BY <2>4, <2>5, <2>6 DEF DeathInv
<1>4. ASSUME NEW m \in Nodes, NEW t \in Watched, WriteDeadEvent(m, t) PROVE DeathInv'
  <2>1. /\ task[m][t] = "dead"
        /\ task' = [task EXCEPT ![m][t] = "count"]
        /\ deadEvents \subseteq deadEvents'
        /\ deadEvents' \subseteq deadEvents \cup {<<m, t>>}
        /\ UNCHANGED <<up, crashes, recovery, held>>
    BY <1>4 DEF WriteDeadEvent
  <2>2. crashes[t] = 0 => <<m, t>> \in Lossy
    BY <2>1 DEF DeathInv, Blame
  <2>3. Blame'
    BY <2>1, <2>2 DEF DeathInv, Blame, TypeOK
  <2>4. CountedQuorum'
    <3>1. ASSUME NEW o \in Nodes, NEW u \in Watched, task'[o][u] = "lowest"
          PROVE  /\ task[o][u] = "lowest"
                 /\ SeenObservers(o, u) \subseteq SeenObservers(o, u)'
      <4>1. task[o][u] = "lowest"
        BY <2>1, <3>1 DEF TypeOK
      <4>2. SeenObservers(o, u) \subseteq SeenObservers(o, u)'
        BY <2>1 DEF SeenObservers, DeadObservers
      <4> QED
        BY <4>1, <4>2
    <3> QED
      BY <3>1, CountedKept DEF DeathInv
  <2>5. NoFalseDeath'
    BY <2>1 DEF DeathInv, NoFalseDeath
  <2> QED
    BY <2>3, <2>4, <2>5 DEF DeathInv
<1>5. ASSUME NEW m \in Nodes, NEW t \in Watched, CountObservers(m, t) PROVE DeathInv'
  <2>1. CASE Quorum(SeenObservers(m, t))
    <3>1. /\ task[m][t] = "count"
          /\ UNCHANGED <<up, crashes, recovery, deadEvents, held>>
          /\ task' = [task EXCEPT ![m][t] = "lowest"]
      BY <1>5, <2>1 DEF CountObservers, Check
    <3>2. Blame'
      BY <3>1, SMTT(20) DEF DeathInv, Blame, TypeOK
    <3>3. CountedQuorum'
      <4>1. ASSUME NEW o \in Nodes, NEW u \in Watched, task'[o][u] = "lowest"
            PROVE  Quorum(SeenObservers(o, u))
        <5>1. task[o][u] = "lowest" \/ (u = t /\ o = m)
          BY <3>1, <4>1 DEF TypeOK
        <5> QED
          BY <2>1, <5>1 DEF DeathInv, CountedQuorum
      <4>2. \A o \in Nodes, u \in Watched : SeenObservers(o, u)' = SeenObservers(o, u)
        BY <3>1 DEF SeenObservers, DeadObservers
      <4> QED
        BY <4>1, <4>2 DEF CountedQuorum, Quorum
    <3>4. NoFalseDeath'
      BY <3>1 DEF DeathInv, NoFalseDeath
    <3> QED
      BY <3>2, <3>3, <3>4 DEF DeathInv
  <2>2. CASE ~Quorum(SeenObservers(m, t))
    <3>1. /\ UNCHANGED <<up, crashes, recovery, deadEvents>>
          /\ task' = [task EXCEPT ![m][t] = "none"]
          /\ held' = [held EXCEPT ![m][t] = {}]
      BY <1>5, <2>2 DEF CountObservers, Check
    <3> QED
      BY <1>a, <3>1 DEF TypeOK
  <2> QED
    BY <2>1, <2>2
<1>6. ASSUME NEW m \in Nodes, NEW t \in Watched, CheckLowest(m, t) PROVE DeathInv'
  <2>1. /\ task[m][t] = "lowest"
        /\ task' = [task EXCEPT ![m][t] = "none"]
        /\ held' = [held EXCEPT ![m][t] = {}]
        /\ UNCHANGED <<up, crashes, deadEvents>>
    BY <1>6 DEF CheckLowest, Check
  <2>2. \A u \in Watched : u # t => recovery'[u] = recovery[u]
    <3>1. \/ recovery' = recovery
          \/ recovery' = [recovery EXCEPT ![t] = @ \cup {m}]
      BY <1>6, Zenon DEF CheckLowest
    <3> QED
      BY <3>1 DEF TypeOK
  <2>3. crashes[t] = 0 =>
            Cardinality({o \in Nodes : <<o, t>> \in Lossy}) >= MinQuorum
    BY <2>1, QuorumIsLossy DEF DeathInv, CountedQuorum
  <2>4. Blame'
    <3>1. \A o \in Nodes, u \in Watched :
             /\ held'[o][u] \subseteq held[o][u]
             /\ task'[o][u] \in Reporting => task[o][u] = task'[o][u]
      BY <2>1 DEF TypeOK
    <3> QED
      BY <2>1, <3>1 DEF DeathInv, Blame
  <2>5. CountedQuorum'
    <3>1. ASSUME NEW o \in Nodes, NEW u \in Watched, task'[o][u] = "lowest"
          PROVE  /\ task[o][u] = "lowest"
                 /\ SeenObservers(o, u) \subseteq SeenObservers(o, u)'
      <4>1. task[o][u] = "lowest" /\ held'[o][u] = held[o][u]
        BY <2>1, <3>1 DEF TypeOK
      <4> QED
        BY <2>1, <4>1 DEF SeenObservers, DeadObservers
    <3> QED
      BY <3>1, CountedKept DEF DeathInv
  <2>6. ASSUME NEW u \in Watched, crashes'[u] = 0,
               Cardinality({o \in Nodes : <<o, u>> \in Lossy}) < MinQuorum
        PROVE  recovery'[u] = {}
    <3>1. CASE u = t
      <4>1. IsFiniteSet({o \in Nodes : <<o, t>> \in Lossy})
        BY FS_Subset
      <4>2. Cardinality({o \in Nodes : <<o, t>> \in Lossy}) \in Nat
        BY <4>1, FS_CardinalityType
      <4> QED
        BY <2>1, <2>3, <2>6, <3>1, <4>2
    <3>2. CASE u # t
      BY <2>1, <2>2, <2>6, <3>2 DEF DeathInv, NoFalseDeath
    <3> QED
      BY <3>1, <3>2
  <2>7. NoFalseDeath'
    BY <2>6 DEF NoFalseDeath
  <2> QED
    BY <2>4, <2>5, <2>7 DEF DeathInv
<1>7. ASSUME NEW m \in Nodes, NEW t \in Watched, CheckFails(m, t) PROVE DeathInv'
  BY <1>7, <1>a DEF CheckFails, Check, TypeOK
<1>8. ASSUME NEW m \in Nodes, EndRound(m) \/ EndGrace(m) PROVE DeathInv'
  BY <1>8, <1>a DEF EndRound, EndGrace
<1>9. ASSUME NEW o \in Nodes, NEW t \in Watched, EventExpires(o, t) PROVE DeathInv'
  <2>1. /\ <<o, t>> \in deadEvents
        /\ deadEvents' = deadEvents \ {<<o, t>>}
        /\ UNCHANGED <<up, crashes, recovery, task>>
    BY <1>9 DEF EventExpires
  <2>2. ASSUME NEW m \in Nodes, NEW u \in Watched
        PROVE  held'[m][u] = IF u = t /\ task[m][t] \in {"count", "lowest"}
                             THEN held[m][u] \cup {o} ELSE held[m][u]
    BY <1>9 DEF EventExpires
  <2>3. Blame'
    <3>1. \A m, x \in Nodes, u \in Watched :
             x \in held'[m][u] => x \in held[m][u] \/ <<x, u>> \in deadEvents
      <4>1. TAKE m, x \in Nodes, u \in Watched
      <4>2. held'[m][u] = held[m][u] \/ (u = t /\ held'[m][u] = held[m][u] \cup {o})
        BY <2>2
      <4> QED
        BY <2>1, <4>2
    <3> QED
      BY <2>1, <3>1 DEF DeathInv, Blame
  <2>4. CountedQuorum'
    <3>1. ASSUME NEW m \in Nodes, NEW u \in Watched, task'[m][u] = "lowest"
          PROVE  /\ task[m][u] = "lowest"
                 /\ SeenObservers(m, u) \subseteq SeenObservers(m, u)'
      BY <2>1, <2>2, <3>1 DEF SeenObservers, DeadObservers
    <3> QED
      BY <3>1, CountedKept DEF DeathInv
  <2>5. NoFalseDeath'
    BY <2>1 DEF DeathInv, NoFalseDeath
  <2> QED
    BY <2>3, <2>4, <2>5 DEF DeathInv
<1>10. ASSUME NEW n \in Nodes, Crash(n) PROVE DeathInv'
  <2>1. /\ UNCHANGED <<deadEvents, recovery>>
        /\ \A o \in Nodes : crashes'[o] = 0 => /\ crashes[o] = 0
                                               /\ up'[o] = up[o]
        /\ \A m \in Nodes, t \in Watched :
               /\ task'[m][t] \in Reporting => /\ task'[m][t] = task[m][t]
                                               /\ held'[m][t] = held[m][t]
               /\ held'[m][t] \subseteq held[m][t]
    <3>1. ASSUME NEW o \in Nodes, crashes'[o] = 0
          PROVE  crashes[o] = 0 /\ up'[o] = up[o]
      <4>1. /\ crashes' = [crashes EXCEPT ![n] = crashes[n] + 1]
            /\ up' = [up EXCEPT ![n] = FALSE]
        BY <1>10 DEF Crash
      <4>2. crashes[n] \in Nat /\ crashes'[n] = crashes[n] + 1
        BY <4>1 DEF TypeOK
      <4>3. o # n
        BY <3>1, <4>2
      <4> QED
        BY <3>1, <4>1, <4>3 DEF TypeOK
    <3>2. \A m \in Nodes, t \in Watched :
             /\ task'[m][t] = IF m = n THEN "none" ELSE task[m][t]
             /\ held'[m][t] = IF m = n THEN {} ELSE held[m][t]
      BY <1>10 DEF Crash, TypeOK
    <3>3. UNCHANGED <<deadEvents, recovery>>
      BY <1>10 DEF Crash
    <3>4. \A m \in Nodes, t \in Watched :
               /\ task'[m][t] \in Reporting => /\ task'[m][t] = task[m][t]
                                               /\ held'[m][t] = held[m][t]
               /\ held'[m][t] \subseteq held[m][t]
      BY <3>2
    <3> QED
      BY <3>1, <3>3, <3>4
  <2>2. Blame'
    BY <2>1 DEF DeathInv, Blame
  <2>3. CountedQuorum'
    <3>1. ASSUME NEW m \in Nodes, NEW t \in Watched, task'[m][t] = "lowest"
          PROVE  /\ task[m][t] = "lowest"
                 /\ SeenObservers(m, t) \subseteq SeenObservers(m, t)'
      BY <2>1, <3>1 DEF SeenObservers, DeadObservers
    <3> QED
      BY <3>1, CountedKept DEF DeathInv
  <2>4. NoFalseDeath'
    BY <2>1 DEF DeathInv, NoFalseDeath
  <2> QED
    BY <2>2, <2>3, <2>4 DEF DeathInv
<1>11. ASSUME NEW n \in Nodes, Restart(n) PROVE DeathInv'
  <2>1. /\ UNCHANGED <<deadEvents, crashes, task, held>>
        /\ \A o \in Nodes : up[o] => up'[o]
        /\ \A t \in Watched : recovery'[t] = {} \/ recovery'[t] = recovery[t]
    BY <1>11 DEF Restart, TypeOK
  <2>2. Blame'
    BY <2>1 DEF DeathInv, Blame
  <2>3. CountedQuorum'
    BY <2>1 DEF DeathInv, CountedQuorum, Quorum, SeenObservers, DeadObservers
  <2>4. NoFalseDeath'
    BY <2>1 DEF DeathInv, NoFalseDeath
  <2> QED
    BY <2>2, <2>3, <2>4 DEF DeathInv
<1>12. ASSUME NEW n \in Nodes,
              Heartbeat(n) \/ LastSeenLapses(n) \/ CleanupStaleNode(n)
       PROVE  DeathInv'
  BY <1>12, <1>a DEF Heartbeat, LastSeenLapses, CleanupStaleNode
<1>13. ASSUME NEW h \in handlers, HandleDeadNode(h) \/ HandleRecoveredNode(h)
       PROVE  DeathInv'
  BY <1>13, <1>a DEF HandleDeadNode, HandleRecoveredNode
<1>14. CASE UNCHANGED vars
  BY <1>14, <1>a DEF vars
<1> QED
  BY <1>1, <1>2, <1>3, <1>4, <1>5, <1>6, <1>7, <1>8, <1>9, <1>10, <1>11,
     <1>12, <1>13, <1>14 DEF Next, Goroutine

\* The inductive invariant about deaths.
THEOREM DeathInvariant == Spec => []DeathInv
<1>1. Init => DeathInv
  BY MonitorAssumption DEF Init, DeathInv, Blame, CountedQuorum, NoFalseDeath
<1> QED
  BY <1>1, DeathInvStep, TypeCorrect, PeerInvariant, PTL DEF Spec

\* Fewer monitors than a quorum cannot have a running node recovered from,
\* however long their probes fail and however often they restart.
THEOREM NoFalseDeaths == Spec => []NoFalseDeath
BY DeathInvariant, PTL DEF DeathInv

----------------------------------------------------------------------------
(* The ring *)

\* One turn around a ring of n.
LEMMA Around ==
    ASSUME NEW n \in Nat, n > 0, NEW x \in Nat, x < 2 * n
    PROVE  x % n = IF x < n THEN x ELSE x - n
OBVIOUS

\* The nodes of a ring are numbered from 0, each number is given once.
LEMMA IndexBijection ==
    ASSUME NEW ring \in SUBSET Nodes
    PROVE  /\ IsFiniteSet(ring) /\ Cardinality(ring) \in Nat
           /\ [u \in ring |-> Index(ring, u)] \in Bijection(ring, 0 .. Cardinality(ring) - 1)
<1> DEFINE n == Cardinality(ring)
           Below(u) == {w \in ring : w < u}
           f == [u \in ring |-> Index(ring, u)]
<1>1. IsFiniteSet(ring) /\ n \in Nat
  BY MonitorAssumption, FS_Subset, FS_CardinalityType
<1>2. ASSUME NEW u \in ring
      PROVE  IsFiniteSet(Below(u)) /\ Index(ring, u) = Cardinality(Below(u)) /\ Cardinality(Below(u)) \in Nat
  <2>1. IsFiniteSet(Below(u))
    BY <1>1, FS_Subset
  <2> QED
    BY <2>1, FS_CardinalityType DEF Index
<1>3. ASSUME NEW u \in ring, NEW S \in SUBSET ring, Below(u) \cup {u} \subseteq S
      PROVE  Index(ring, u) + 1 <= Cardinality(S)
  <2>1. u \notin Below(u)
    BY MonitorAssumption
  <2>2. Cardinality(Below(u) \cup {u}) = Cardinality(Below(u)) + 1
    BY <1>2, <2>1, FS_AddElement
  <2>3. IsFiniteSet(S) /\ Cardinality(S) \in Nat
    BY <1>1, FS_Subset, FS_CardinalityType
  <2>4. Cardinality(Below(u) \cup {u}) <= Cardinality(S)
    BY <1>3, <2>3, FS_Subset
  <2> QED
    BY <1>2, <2>2, <2>3, <2>4
<1>4. ASSUME NEW u \in ring PROVE Index(ring, u) \in 0 .. n - 1
  <2>1. Index(ring, u) + 1 <= n
    BY <1>3
  <2> QED
    <3>1. Index(ring, u) \in Nat
      BY <1>2
    <3> QED
      BY <1>1, <2>1, <3>1
<1>5. ASSUME NEW u \in ring, NEW v \in ring, u < v PROVE Index(ring, u) < Index(ring, v)
  <2>1. Below(u) \cup {u} \subseteq Below(v)
    <3>1. u \in Nat /\ v \in Nat /\ \A w \in ring : w \in Nat
      BY MonitorAssumption
    <3>2. \A w \in ring : w < u => w < v
      BY <1>5, <3>1
    <3> QED
      BY <1>5, <3>2
  <2>2. Index(ring, u) + 1 <= Cardinality(Below(v))
    BY <1>3, <2>1
  <2>3. Index(ring, u) \in Nat /\ Index(ring, v) \in Nat
        /\ Cardinality(Below(v)) = Index(ring, v)
    BY <1>2
  <2>4. Index(ring, u) + 1 <= Index(ring, v)
    BY <2>2, <2>3
  <2> QED
    BY <2>3, <2>4
<1>6. f \in Injection(ring, 0 .. n - 1)
  <2>1. f \in [ring -> 0 .. n - 1]
    BY <1>4
  <2>2. ASSUME NEW u \in ring, NEW v \in ring, f[u] = f[v] PROVE u = v
    <3>1. u \in Nat /\ v \in Nat
      BY MonitorAssumption
    <3>2. Index(ring, u) = Index(ring, v) /\ Index(ring, u) \in Nat
      BY <1>2, <2>2
    <3> QED
      BY <1>5, <3>1, <3>2
  <2> QED
    BY <2>1, <2>2, Fun_IsInj
<1>7. Cardinality(0 .. n - 1) = n /\ IsFiniteSet(0 .. n - 1)
  BY <1>1, FS_Interval
<1>8. f \in Surjection(ring, 0 .. n - 1)
  <2> HIDE DEF f, n
  <2>1. Cardinality(ring) = Cardinality(0 .. n - 1)
    BY <1>7 DEF n
  <2> QED
    BY <1>6, <1>7, <2>1, FS_Injection
<1> QED
  BY <1>1, <1>6, <1>8 DEF Bijection

\* Whoever probes t has its index some steps before t's: a bijection between
\* the observers of t and the steps 1 .. count.
LEMMA ObserversCounted ==
    ASSUME NEW ring \in SUBSET Nodes, NEW t \in ring
    PROVE  LET observers == {m \in Nodes : t \in RingNeighbors(ring, m, K)}
               others    == Cardinality(ring) - 1
           IN  /\ t \notin observers
               /\ Cardinality(observers) = IF K > others THEN others ELSE K
<1> DEFINE n == Cardinality(ring)
           count == IF K > n - 1 THEN n - 1 ELSE K
           index == [u \in ring |-> Index(ring, u)]
           observers == {m \in Nodes : t \in RingNeighbors(ring, m, K)}
           a == index[t]
           before == [i \in 1 .. count |-> IF i <= a THEN a - i ELSE a - i + n]
<1>1. /\ n \in Nat /\ n > 0 /\ index \in Bijection(ring, 0 .. n - 1)
      /\ index \in [ring -> 0 .. n - 1]
  <2>1. n \in Nat /\ IsFiniteSet(ring) /\ index \in Bijection(ring, 0 .. n - 1)
    BY IndexBijection
  <2>2. n # 0
    BY <2>1, FS_EmptySet
  <2> QED
    BY <2>1, <2>2 DEF Bijection, Injection
<1>2. /\ \A u, v \in ring : index[u] = index[v] => u = v
      /\ \A k \in 0 .. n - 1 : \E u \in ring : index[u] = k
  BY <1>1 DEF Bijection, Injection, Surjection, IsInjective
<1>3. K \in Nat /\ K > 0 /\ count \in Nat /\ count <= n - 1 /\ a \in 0 .. n - 1
  BY <1>1, MonitorAssumption
<1>4. observers = {m \in ring : \E i \in 1 .. count : a = (index[m] + i) % n}
  <2>1. ASSUME NEW m \in Nodes
        PROVE  m \in observers <=> m \in ring /\ \E i \in 1 .. count : a = (index[m] + i) % n
    <3>1. m \in observers <=> /\ n > 1 /\ m \in ring
                              /\ \E i \in 1 .. count :
                                    Index(ring, t) = (Index(ring, m) + i) % n
      BY DEF RingNeighbors
    <3>2. (\E i \in 1 .. count : TRUE) => n > 1
      BY <1>1, <1>3
    <3> QED
      BY <3>1, <3>2
  <2> QED
    BY <2>1
<1> HIDE DEF n, count, index, observers, a
<1>5. ASSUME NEW m \in ring, NEW i \in 1 .. count
      PROVE  a = (index[m] + i) % n <=> index[m] = before[i]
  <2>1. index[m] \in 0 .. n - 1
    BY <1>1
  <2>2. index[m] + i \in Nat /\ index[m] + i < 2 * n
    BY <1>1, <1>3, <2>1
  <2>3. (index[m] + i) % n = IF index[m] + i < n THEN index[m] + i ELSE index[m] + i - n
    BY <1>1, <2>2, Around, SMTT(20)
  <2> QED
    BY <1>1, <1>3, <2>1, <2>3
<1>6. ASSUME NEW i \in 1 .. count PROVE before[i] \in 0 .. n - 1 /\ before[i] # a
  BY <1>1, <1>3
<1>7. ASSUME NEW i \in 1 .. count, NEW j \in 1 .. count, before[i] = before[j]
      PROVE  i = j
  BY <1>1, <1>3, <1>7
<1> DEFINE at == [i \in 1 .. count |-> CHOOSE m \in ring : index[m] = before[i]]
<1> HIDE DEF before
<1>8. ASSUME NEW i \in 1 .. count PROVE at[i] \in ring /\ index[at[i]] = before[i]
  <2>1. \E m \in ring : index[m] = before[i]
    BY <1>2, <1>6
  <2> QED
    BY <2>1
<1> HIDE DEF at
<1>9. at \in Bijection(1 .. count, observers)
  <2>0. DOMAIN at = 1 .. count /\ at = [i \in 1 .. count |-> at[i]]
    BY DEF at
  <2>1. at \in [1 .. count -> observers]
    <3>1. ASSUME NEW i \in 1 .. count PROVE at[i] \in observers
      BY <1>4, <1>5, <1>8
    <3> QED
      BY <2>0, <3>1
  <2>2. ASSUME NEW i \in 1 .. count, NEW j \in 1 .. count, at[i] = at[j] PROVE i = j
    BY <1>7, <1>8, <2>2
  <2>3. ASSUME NEW m \in observers PROVE \E i \in 1 .. count : at[i] = m
    <3>1. m \in ring
      BY <1>4
    <3>2. PICK i \in 1 .. count : a = (index[m] + i) % n
      BY <1>4
    <3>3. index[at[i]] = index[m] /\ at[i] \in ring
      BY <1>5, <1>8, <3>1, <3>2
    <3> QED
      BY <1>2, <3>1, <3>3
  <2> QED
    BY <2>1, <2>2, <2>3, Fun_IsBij
<1>10. Cardinality(observers) = count
  <2>1. IsFiniteSet(1 .. count) /\ Cardinality(1 .. count) = count
    BY <1>3, FS_Interval
  <2> QED
    BY <1>9, <2>1, FS_Bijection, Fun_ExistsBij
<1>11. t \notin observers
  <2>1. SUFFICES ASSUME t \in observers PROVE FALSE
    OBVIOUS
  <2>2. PICK i \in 1 .. count : a = (index[t] + i) % n
    BY <1>4, <2>1
  <2>3. index[t] = before[i]
    BY <1>5, <2>2
  <2> QED
    BY <1>6, <2>3 DEF a
<1> QED
  BY <1>10, <1>11 DEF n, count, observers

\* No node probes itself, in whatever ring it finds itself.
LEMMA NotOwnNeighbor ==
    ASSUME NEW ring \in SUBSET Nodes, NEW t \in Nodes
    PROVE  t \notin RingNeighbors(ring, t, K)
<1>1. CASE t \in ring
  BY <1>1, ObserversCounted
<1>2. CASE t \notin ring
  BY <1>2 DEF RingNeighbors
<1> QED
  BY <1>1, <1>2

\* A node never reports itself dead.
NotItself ==
    \A t \in Watched :
        /\ task[t][t] = "none"
        /\ <<t, t>> \notin deadEvents
        /\ \A m \in Nodes : t \notin held[m][t]

\* The nodes above m that can report t.
Above(t, m) == {o \in Nodes \ {t} : o > m}

\* The highest monitor that recovered from an outage left MinQuorum - 1
\* observers above it.
Topped ==
    \A t \in Watched : recovery[t] # {} =>
        /\ t \notin recovery[t]
        /\ \E top \in Nodes : /\ \A m \in recovery[t] : m <= top
                              /\ Cardinality(Above(t, top)) >= MinQuorum - 1

OutageInv == NotItself /\ Topped

\* The lowest observer of a quorum has the others above it.
LEMMA LowestLeavesQuorum ==
    ASSUME TypeOK, NotItself, NEW m \in Nodes, NEW t \in Watched,
           Quorum(SeenObservers(m, t)), Responsible(m, t)
    PROVE  m # t /\ Cardinality(Above(t, m)) >= MinQuorum - 1
<1> DEFINE S == SeenObservers(m, t)
           A == Above(t, m)
<1>1. S \subseteq Nodes /\ IsFiniteSet(S) /\ Cardinality(S) \in Nat
  BY SeenFinite
<1>2. m \in S /\ \A o \in S : m <= o
  BY DEF Responsible
<1>3. t \notin S
  BY DEF NotItself, SeenObservers, DeadObservers
<1>4. S \ {m} \subseteq A
  <2> SUFFICES ASSUME NEW o \in S, o # m PROVE o \in A
    OBVIOUS
  <2>1. o \in Nodes /\ o # t /\ m <= o
    BY <1>1, <1>2, <1>3
  <2>2. o \in Nat /\ m \in Nat
    BY <2>1, MonitorAssumption
  <2>3. o > m
    BY <2>1, <2>2
  <2> QED
    BY <2>1, <2>3 DEF Above
<1>5. IsFiniteSet(A)
  BY MonitorAssumption, FS_Subset DEF Above
<1>6. Cardinality(S) >= MinQuorum
  BY DEF Quorum
<1> HIDE DEF S, A
<1>7. Cardinality(S \ {m}) = Cardinality(S) - 1
  BY <1>1, <1>2, FS_RemoveElement
<1>8. Cardinality(S \ {m}) <= Cardinality(A) /\ IsFiniteSet(S \ {m})
  BY <1>4, <1>5, FS_Subset
<1>9. Cardinality(A) \in Nat
  BY <1>5, FS_CardinalityType
<1>10. Cardinality(A) >= MinQuorum - 1
  BY <1>1, <1>6, <1>7, <1>8, <1>9, MonitorAssumption
<1> QED
  BY <1>2, <1>3, <1>10 DEF A

\* Every action keeps the node out of the observers of its own outage, and
\* every recovery leaves the observers above it.
LEMMA OutageStep ==
    TypeOK /\ TypeOK' /\ DeathInv /\ OutageInv /\ [Next]_vars => OutageInv'
<1> SUFFICES ASSUME TypeOK, TypeOK', DeathInv, OutageInv, [Next]_vars
             PROVE  OutageInv'
  OBVIOUS
<1>a. ASSUME recovery' = recovery PROVE Topped'
  BY <1>a DEF OutageInv, Topped, Above
<1>b. ASSUME deadEvents' = deadEvents,
             \A t \in Watched : task'[t][t] = "none" \/ task'[t][t] = task[t][t],
             \A m \in Nodes, t \in Watched : held'[m][t] \subseteq held[m][t]
      PROVE  NotItself'
  BY <1>b DEF OutageInv, NotItself
<1>c. Watched \subseteq Nodes
  BY MonitorAssumption
<1>1. ASSUME NEW m \in Nodes, StartRound(m) PROVE OutageInv'
  <2>1. UNCHANGED <<deadEvents, held, recovery>>
    BY <1>1 DEF StartRound
  <2>2. Ring \in SUBSET Nodes
    BY DEF Ring
  <2>3. ASSUME NEW t \in Watched PROVE task'[t][t] = "none" \/ task'[t][t] = task[t][t]
    <3>1. t \notin RingNeighbors(Ring, t, K)
      BY <1>c, <2>2, NotOwnNeighbor
    <3>2. CASE t = m
      BY <1>1, <1>c, <3>1, <3>2 DEF StartRound, TypeOK
    <3>3. CASE t # m
      BY <1>1, <1>c, <3>3 DEF StartRound, TypeOK
    <3> QED
      BY <3>2, <3>3
  <2> QED
    BY <1>a, <1>b, <2>1, <2>3 DEF OutageInv
<1>2. ASSUME NEW m \in Nodes, NEW t \in Watched,
             ProbeOk(m, t) \/ ProbeMiss(m, t)
      PROVE  OutageInv'
  <2>1. UNCHANGED <<deadEvents, held, recovery>>
    BY <1>2 DEF ProbeOk, ProbeMiss
  <2>2. m # t
    BY <1>2 DEF ProbeOk, ProbeMiss, OutageInv, NotItself
  <2>3. \E k \in Tasks : task' = [task EXCEPT ![m][t] = k]
    BY <1>2 DEF ProbeOk, ProbeMiss, Miss, Tasks
  <2>4. \A u \in Watched : task'[u][u] = task[u][u]
    BY <1>c, <2>2, <2>3 DEF TypeOK
  <2> QED
    BY <1>a, <1>b, <2>1, <2>4 DEF OutageInv
<1>3. ASSUME NEW m \in Nodes, NEW t \in Watched, WriteDeadEvent(m, t)
      PROVE  OutageInv'
  <2>1. /\ m # t
        /\ deadEvents' \subseteq deadEvents \cup {<<m, t>>}
        /\ task' = [task EXCEPT ![m][t] = "count"]
        /\ UNCHANGED <<held, recovery>>
    BY <1>3 DEF WriteDeadEvent, OutageInv, NotItself
  <2>2. \A u \in Watched : task'[u][u] = task[u][u]
    BY <1>c, <2>1 DEF TypeOK
  <2>3. \A u \in Watched : <<u, u>> \notin deadEvents'
    BY <2>1 DEF OutageInv, NotItself
  <2>4. NotItself'
    BY <2>1, <2>2, <2>3 DEF OutageInv, NotItself
  <2> QED
    BY <1>a, <2>1, <2>4 DEF OutageInv
<1>4. ASSUME NEW m \in Nodes, NEW t \in Watched,
             CountObservers(m, t) \/ CheckLowest(m, t) \/ CheckFails(m, t)
      PROVE  NotItself'
  <2>1. deadEvents' = deadEvents /\ m # t
    BY <1>4 DEF CountObservers, CheckLowest, CheckFails, OutageInv, NotItself
  <2>2. PICK next : Check(m, t, next)
    BY <1>4 DEF CountObservers, CheckLowest, CheckFails
  <2>3. ASSUME NEW u \in Watched PROVE task'[u][u] = task[u][u]
    BY <1>c, <2>1, <2>2 DEF Check, TypeOK
  <2>4. ASSUME NEW o \in Nodes, NEW u \in Watched PROVE held'[o][u] \subseteq held[o][u]
    <3>1. held' = held \/ held' = [held EXCEPT ![m][t] = {}]
      BY <2>2, Zenon DEF Check
    <3>2. held \in [Nodes -> [Watched -> SUBSET Nodes]]
      BY DEF TypeOK
    <3>3. CASE held' = [held EXCEPT ![m][t] = {}]
      <4>1. CASE o = m /\ u = t
        BY <3>2, <3>3, <4>1
      <4>2. CASE ~(o = m /\ u = t)
        BY <3>2, <3>3, <4>2
      <4> QED
        BY <4>1, <4>2
    <3> QED
      BY <3>1, <3>3
  <2> QED
    BY <1>b, <2>1, <2>3, <2>4
<1>5. ASSUME NEW m \in Nodes, NEW t \in Watched, CountObservers(m, t) \/ CheckFails(m, t)
      PROVE  OutageInv'
  BY <1>4, <1>5, <1>a DEF CountObservers, CheckFails, OutageInv
<1>6. ASSUME NEW m \in Nodes, NEW t \in Watched, CheckLowest(m, t) PROVE OutageInv'
  <2>1. CASE Responsible(m, t)
    <3>1. /\ task[m][t] = "lowest"
          /\ recovery' = [recovery EXCEPT ![t] = @ \cup {m}]
      BY <1>6, <2>1, Zenon DEF CheckLowest
    <3>2. Quorum(SeenObservers(m, t))
      BY <3>1 DEF DeathInv, CountedQuorum
    <3>3. m # t /\ Cardinality(Above(t, m)) >= MinQuorum - 1
      BY <2>1, <3>2, LowestLeavesQuorum DEF OutageInv
    <3>4. /\ recovery'[t] = recovery[t] \cup {m}
          /\ \A u \in Watched : u # t => recovery'[u] = recovery[u]
          /\ recovery[t] \subseteq Nodes
      BY <3>1 DEF TypeOK
    <3>5. t \notin recovery'[t]
      BY <3>3, <3>4 DEF OutageInv, Topped
    <3>6. \E top \in Nodes : /\ \A o \in recovery'[t] : o <= top
                             /\ Cardinality(Above(t, top)) >= MinQuorum - 1
      <4>1. CASE recovery[t] = {}
        <5>1. \A o \in recovery'[t] : o <= m
          BY <3>4, <4>1, MonitorAssumption
        <5> QED
          BY <3>3, <5>1
      <4>2. CASE recovery[t] # {}
        <5>1. PICK top \in Nodes : /\ \A o \in recovery[t] : o <= top
                                  /\ Cardinality(Above(t, top)) >= MinQuorum - 1
          BY <4>2 DEF OutageInv, Topped
        <5>2. CASE m <= top
          <6>1. \A o \in recovery'[t] : o <= top
            BY <3>4, <5>1, <5>2
          <6> QED
            BY <5>1, <6>1
        <5>3. CASE ~(m <= top)
          <6>1. ASSUME NEW o \in recovery'[t] PROVE o <= m
            <7>1. o = m \/ (o \in recovery[t] /\ o <= top)
              BY <3>4, <5>1
            <7>2. o \in Nat /\ m \in Nat /\ top \in Nat
              BY <3>4, <7>1, MonitorAssumption
            <7> QED
              BY <5>3, <7>1, <7>2
          <6> QED
            BY <3>3, <6>1
        <5> QED
          BY <5>2, <5>3
      <4> QED
        BY <4>1, <4>2
    <3>7. \A u, top : Above(u, top)' = Above(u, top)
      BY DEF Above
    <3>8. Topped'
      <4> SUFFICES ASSUME NEW u \in Watched, recovery'[u] # {}
                   PROVE  /\ u \notin recovery'[u]
                          /\ \E top \in Nodes :
                                /\ \A o \in recovery'[u] : o <= top
                                /\ Cardinality(Above(u, top)) >= MinQuorum - 1
        BY <3>7 DEF Topped, Above
      <4>1. CASE u = t
        BY <3>5, <3>6, <4>1
      <4>2. CASE u # t
        BY <3>4, <4>2 DEF OutageInv, Topped
      <4> QED
        BY <4>1, <4>2
    <3> QED
      BY <1>4, <1>6, <3>8 DEF OutageInv
  <2>2. CASE ~Responsible(m, t)
    <3>1. recovery' = recovery
      BY <1>6, <2>2, Zenon DEF CheckLowest
    <3> QED
      BY <1>4, <1>6, <1>a, <3>1 DEF OutageInv
  <2> QED
    BY <2>1, <2>2
<1>7. ASSUME NEW m \in Nodes, EndRound(m) \/ EndGrace(m) PROVE OutageInv'
  BY <1>7, <1>a, <1>b DEF EndRound, EndGrace, OutageInv
<1>8. ASSUME NEW o \in Nodes, NEW t \in Watched, EventExpires(o, t) PROVE OutageInv'
  <2>1. /\ <<o, t>> \in deadEvents
        /\ deadEvents' \subseteq deadEvents
        /\ UNCHANGED <<recovery, task>>
    BY <1>8 DEF EventExpires
  <2>2. ASSUME NEW m \in Nodes, NEW u \in Watched
        PROVE  u \notin held'[m][u]
    <3>1. held'[m][u] = held[m][u] \/ (u = t /\ held'[m][u] = held[m][u] \cup {o})
      BY <1>8 DEF EventExpires
    <3> QED
      BY <2>1, <3>1 DEF OutageInv, NotItself
  <2>3. NotItself'
    BY <2>1, <2>2 DEF OutageInv, NotItself
  <2> QED
    BY <1>a, <2>1, <2>3 DEF OutageInv
<1>9. ASSUME NEW n \in Nodes, Crash(n) PROVE OutageInv'
  <2>1. UNCHANGED <<deadEvents, recovery>>
    BY <1>9 DEF Crash
  <2>2. \A m \in Nodes, t \in Watched :
           /\ task'[m][t] = "none" \/ task'[m][t] = task[m][t]
           /\ held'[m][t] \subseteq held[m][t]
    BY <1>9 DEF Crash, TypeOK
  <2> QED
    BY <1>a, <1>b, <1>c, <2>1, <2>2 DEF OutageInv
<1>10. ASSUME NEW n \in Nodes, Restart(n) PROVE OutageInv'
  <2>1. /\ UNCHANGED <<deadEvents, held, task>>
        /\ \A t \in Watched : recovery'[t] = {} \/ recovery'[t] = recovery[t]
    BY <1>10 DEF Restart
  <2>2. Topped'
    BY <2>1 DEF OutageInv, Topped, Above
  <2> QED
    BY <1>b, <2>1, <2>2 DEF OutageInv
<1>11. ASSUME NEW n \in Nodes,
              Heartbeat(n) \/ LastSeenLapses(n) \/ CleanupStaleNode(n)
       PROVE  OutageInv'
  BY <1>11, <1>a, <1>b DEF Heartbeat, LastSeenLapses, CleanupStaleNode, OutageInv
<1>12. ASSUME NEW h \in handlers, HandleDeadNode(h) \/ HandleRecoveredNode(h)
       PROVE  OutageInv'
  BY <1>12, <1>a, <1>b DEF HandleDeadNode, HandleRecoveredNode, OutageInv
<1>13. CASE UNCHANGED vars
  BY <1>13, <1>a, <1>b DEF vars, OutageInv
<1> QED
  BY <1>1, <1>2, <1>3, <1>5, <1>6, <1>7, <1>8, <1>9, <1>10, <1>11, <1>12, <1>13
     DEF Next, Goroutine

\* An outage is recovered from by at most one monitor more than the quorum
\* leaves observers to spare, although events are inserted and expire between
\* the two queries of checkQuorum and monitors restart and report again.
THEOREM RecoveriesAreBounded == Spec => []RecoveriesBounded
<1>1. Init => OutageInv
  BY MonitorAssumption DEF Init, OutageInv, NotItself, Topped
<1>2. Spec => []OutageInv
  BY <1>1, OutageStep, TypeCorrect, DeathInvariant, PTL DEF Spec
<1>3. TypeOK /\ OutageInv => RecoveriesBounded
  <2> SUFFICES ASSUME TypeOK, OutageInv, NEW t \in Watched, recovery[t] # {}
               PROVE  /\ t \notin recovery[t]
                      /\ Cardinality(recovery[t]) <= 1 + Cardinality(Nodes \ {t}) - MinQuorum
    BY DEF RecoveriesBounded
  <2>1. PICK top \in Nodes : /\ \A m \in recovery[t] : m <= top
                            /\ Cardinality(Above(t, top)) >= MinQuorum - 1
    BY DEF OutageInv, Topped
  <2>2. t \notin recovery[t]
    BY DEF OutageInv, Topped
  <2> DEFINE A == Above(t, top)
             R == recovery[t]
             O == Nodes \ {t}
  <2>3. IsFiniteSet(O) /\ R \subseteq O /\ A \subseteq O
    <3>1. IsFiniteSet(O)
      BY MonitorAssumption, FS_Subset
    <3> QED
      BY <2>2, <3>1 DEF Above, TypeOK
  <2>4. R \cap A = {}
    <3> SUFFICES ASSUME NEW o \in R, o \in A PROVE FALSE
      OBVIOUS
    <3>1. o <= top /\ o > top /\ o \in Nodes
      BY <2>1 DEF Above
    <3>2. o \in Nat /\ top \in Nat
      BY <3>1, MonitorAssumption
    <3> QED
      BY <3>1, <3>2
  <2>5. Cardinality(A) >= MinQuorum - 1
    BY <2>1
  <2> HIDE DEF A, R, O
  <2>6. IsFiniteSet(R) /\ IsFiniteSet(A) /\ IsFiniteSet(R \cup A) /\ R \cup A \subseteq O
    BY <2>3, FS_Subset, FS_Union
  <2>7. Cardinality(R \cup A) = Cardinality(R) + Cardinality(A)
    <3>1. Cardinality(R \cap A) = 0
      BY <2>4, FS_EmptySet
    <3>2. Cardinality(R) \in Nat /\ Cardinality(A) \in Nat
      BY <2>6, FS_CardinalityType
    <3>3. Cardinality(R \cup A) = Cardinality(R) + Cardinality(A) - Cardinality(R \cap A)
      BY <2>6, FS_Union
    <3> QED
      BY <3>1, <3>2, <3>3
  <2>8. Cardinality(R \cup A) <= Cardinality(O)
    BY <2>3, <2>6, FS_Subset
  <2>9. /\ Cardinality(R) \in Nat /\ Cardinality(A) \in Nat
        /\ Cardinality(O) \in Nat
    BY <2>3, <2>6, FS_CardinalityType
  <2>10. Cardinality(R) <= 1 + Cardinality(O) - MinQuorum
    BY <2>5, <2>7, <2>8, <2>9, MonitorAssumption
  <2> QED
    BY <2>2, <2>10 DEF R, O
<1> QED
  BY <1>2, <1>3, TypeCorrect, PTL

\* Every node of the ring is probed by min(K, n - 1) others and not by itself,
\* in every ring that dns_nodes can hold (getRingNeighbors).
THEOREM RingIsCovered == Spec => []RingCovered
<1>1. Ring \in SUBSET Nodes
  BY DEF Ring
<1>2. RingCovered
  <2> HIDE DEF Ring
  <2> SUFFICES ASSUME NEW t \in Ring
               PROVE  LET observers == {m \in Nodes : t \in RingNeighbors(Ring, m, K)}
                          others    == Cardinality(Ring) - 1
                      IN  /\ t \notin observers
                          /\ Cardinality(observers) = IF K > others THEN others ELSE K
    BY DEF RingCovered
  <2> QED
    BY <1>1, ObserversCounted
<1> QED
  BY <1>2, PTL

-----------------------------------------------------------------------------
(* The records of the namespaces while nodes are suspected. *)

\* A suspicion has a round.
Rounds == \A m \in Monitors, n \in Members : sees[m][n] = "suspect" => flaps[m][n] >= 1

\* What a handler works on are clusters of its node.
OwnClusters ==
    \A h \in SuspectHandlers :
        /\ todo[h] \subseteq ClustersByNode(h.node)
        /\ pc[h] \in {"main", "wildcard"} => current[h] \in ClustersByNode(h.node)

TypeInv == SuspectTypeOK /\ Rounds /\ OwnClusters

\* The types of a handler's fields.
LEMMA HandlerFields ==
    ASSUME NEW h \in SuspectHandlers
    PROVE  /\ h.kind \in {"suspect", "recovery"} /\ h.by \in Monitors
           /\ h.node \in Members /\ ClustersByNode(h.node) \subseteq Namespaces
BY DEF SuspectHandlers, ClustersByNode

\* The goroutine of a callback is a handler.
LEMMA HandlerType ==
    ASSUME NEW k \in {"suspect", "recovery"}, NEW m \in Monitors, NEW n \in Members,
           NEW r \in 1 .. MaxFlaps
    PROVE  /\ Handler(k, m, n, r) \in SuspectHandlers
           /\ Handler(k, m, n, r).kind = k /\ Handler(k, m, n, r).node = n
BY DEF Handler, SuspectHandlers

\* A step of a handler that leaves its own state well typed.
LEMMA HandlerUpdate ==
    ASSUME TypeInv, NEW h \in SuspectHandlers,
           NEW p \in {"idle", "start", "done"} \cup Running,
           NEW t \in SUBSET ClustersByNode(h.node),
           NEW c \in Namespaces \cup {NoNamespace},
           p \in {"main", "wildcard"} => c \in ClustersByNode(h.node),
           pc' = [pc EXCEPT ![h] = p], todo' = [todo EXCEPT ![h] = t],
           current' = [current EXCEPT ![h] = c], active' \subseteq Records,
           clean' \subseteq clean, raced' \subseteq Namespaces,
           UNCHANGED <<sees, flaps, forgets>>
    PROVE  TypeInv'
<1>1. SuspectTypeOK'
  BY HandlerFields DEF TypeInv, SuspectTypeOK
<1>2. Rounds'
  BY DEF TypeInv, Rounds
<1>3. OwnClusters'
  BY DEF TypeInv, SuspectTypeOK, OwnClusters
<1> QED
  BY <1>1, <1>2, <1>3 DEF TypeInv

\* A record a handler writes is a record of the clusters.
LEMMA RecordExists ==
    ASSUME TypeInv, NEW h \in SuspectHandlers, NEW f \in Fqdns,
           pc[h] \in {"main", "wildcard"}, SetRecord(h, f)
    PROVE  active' \subseteq Records
<1>1. /\ current[h] \in Namespaces /\ h.node \in Hosts[current[h]]
      /\ h.node \in Members
  BY HandlerFields DEF TypeInv, OwnClusters, ClustersByNode
<1>2. <<current[h], h.node, f>> \in Records
  BY <1>1 DEF Records
<1> QED
  BY <1>2 DEF SetRecord, TypeInv, SuspectTypeOK

\* Every step of a handler keeps the types.
LEMMA HandlerTypes ==
    ASSUME TypeInv, NEW h \in SuspectHandlers, HandlerStep(h) PROVE TypeInv'
<1> DEFINE own == ClustersByNode(h.node)
<1>a. /\ todo[h] \in SUBSET own
      /\ pc[h] \in {"main", "wildcard"} => current[h] \in own
      /\ current[h] \in Namespaces \cup {NoNamespace}
      /\ pc[h] \in {"idle", "start", "done"} \cup Running
      /\ pc = [pc EXCEPT ![h] = pc[h]] /\ todo = [todo EXCEPT ![h] = todo[h]]
      /\ current = [current EXCEPT ![h] = current[h]]
      /\ active \subseteq Records /\ raced \subseteq Namespaces
      /\ own \in SUBSET own
  BY DEF TypeInv, SuspectTypeOK, OwnClusters
<1>b. {"loop", "main", "wildcard", "done"} \subseteq {"idle", "start", "done"} \cup Running
  BY DEF Running
<1>1. CASE BeginSuspect(h)
  <2>1. CASE Locked(h)
    <3>1. /\ pc' = [pc EXCEPT ![h] = "done"] /\ todo' = [todo EXCEPT ![h] = todo[h]]
          /\ current' = [current EXCEPT ![h] = current[h]]
          /\ UNCHANGED <<sees, flaps, forgets, active, clean, raced>>
      BY <1>1, <1>a, <2>1 DEF BeginSuspect
    <3> QED
      BY <1>a, <1>b, <3>1, HandlerUpdate
  <2>2. CASE ~Locked(h)
    BY <1>1, <2>2, <1>a, <1>b, HandlerUpdate DEF BeginSuspect
  <2> QED
    BY <2>1, <2>2
<1>2. CASE BeginRecovery(h)
  BY <1>2, <1>a, <1>b, HandlerUpdate DEF BeginRecovery
<1>3. CASE BeginFails(h) \/ Finish(h)
  <2>1. /\ pc' = [pc EXCEPT ![h] = "done"] /\ todo' = [todo EXCEPT ![h] = todo[h]]
        /\ current' = [current EXCEPT ![h] = current[h]] /\ clean' \subseteq clean
        /\ UNCHANGED <<sees, flaps, forgets, active, raced>>
    BY <1>3, <1>a DEF BeginFails, Finish
  <2> QED
    BY <1>a, <1>b, <2>1, HandlerUpdate
<1>4. ASSUME NEW ns \in Namespaces, CountActive(h, ns) PROVE TypeInv'
  <2>1. todo[h] \ {ns} \in SUBSET own /\ ns \in own
        /\ todo' = [todo EXCEPT ![h] = todo[h] \ {ns}]
        /\ raced' \subseteq Namespaces
    BY <1>4, <1>a DEF CountActive
  <2>2. CASE LastRecord(ns)
    <3>1. /\ pc' = [pc EXCEPT ![h] = pc[h]]
          /\ current' = [current EXCEPT ![h] = current[h]]
          /\ UNCHANGED <<sees, flaps, forgets, active, clean>>
      BY <1>4, <1>a, <2>2 DEF CountActive
    <3> QED
      BY <1>a, <2>1, <3>1, HandlerUpdate
  <2>3. CASE ~LastRecord(ns)
    <3>1. /\ pc' = [pc EXCEPT ![h] = "main"] /\ current' = [current EXCEPT ![h] = ns]
          /\ UNCHANGED <<sees, flaps, forgets, active, clean>>
      BY <1>4, <2>3 DEF CountActive
    <3> QED
      BY <1>a, <1>b, <2>1, <3>1, HandlerUpdate
  <2> QED
    BY <2>2, <2>3
<1>5. ASSUME NEW ns \in Namespaces, CountFails(h, ns) PROVE TypeInv'
  <2>1. todo[h] \ {ns} \in SUBSET own
        /\ todo' = [todo EXCEPT ![h] = todo[h] \ {ns}]
    BY <1>5, <1>a DEF CountFails
  <2>2. /\ pc' = [pc EXCEPT ![h] = pc[h]] /\ current' = [current EXCEPT ![h] = current[h]]
        /\ UNCHANGED <<sees, flaps, forgets, active, clean, raced>>
    BY <1>5, <1>a DEF CountFails
  <2> QED
    BY <1>a, <2>1, <2>2, HandlerUpdate
<1>6. ASSUME NEW ns \in Namespaces, NextNamespace(h, ns) PROVE TypeInv'
  <2>1. todo[h] \ {ns} \in SUBSET own /\ ns \in own
        /\ todo' = [todo EXCEPT ![h] = todo[h] \ {ns}]
    BY <1>6, <1>a DEF NextNamespace
  <2>2. /\ pc' = [pc EXCEPT ![h] = "main"] /\ current' = [current EXCEPT ![h] = ns]
        /\ UNCHANGED <<sees, flaps, forgets, active, clean, raced>>
    BY <1>6 DEF NextNamespace
  <2> QED
    BY <1>a, <1>b, <2>1, <2>2, HandlerUpdate
<1>7. CASE UpdateMain(h)
  <2>1. active' \subseteq Records /\ clean' \subseteq clean
    BY <1>7, <1>a, RecordExists DEF UpdateMain, TrySetRecord, Fqdns
  <2>2. raced' \subseteq Namespaces
    BY <1>7, <1>a DEF UpdateMain
  <2> QED
    BY <1>7, <1>a, <1>b, <2>1, <2>2, HandlerUpdate DEF UpdateMain
<1>8. CASE UpdateWildcard(h)
  <2>1. active' \subseteq Records /\ clean' \subseteq clean
    BY <1>8, <1>a, RecordExists DEF UpdateWildcard, TrySetRecord, Fqdns
  <2> QED
    BY <1>8, <1>a, <1>b, <2>1, HandlerUpdate DEF UpdateWildcard
<1> QED
  BY <1>1, <1>2, <1>3, <1>4, <1>5, <1>6, <1>7, <1>8 DEF HandlerStep

\* Every action keeps the types.
LEMMA TypeStep == TypeInv /\ [SuspectNext]_suspectVars => TypeInv'
<1> SUFFICES ASSUME TypeInv, [SuspectNext]_suspectVars PROVE TypeInv'
  OBVIOUS
<1> USE SuspectAssumption DEF TypeInv, SuspectTypeOK, Rounds, OwnClusters
<1>1. ASSUME NEW m \in Monitors, NEW n \in Members, Suspect(m, n) PROVE TypeInv'
  <2> DEFINE g == Handler("suspect", m, n, flaps[m][n] + 1)
  <2>1. flaps[m][n] \in 0 .. MaxFlaps /\ flaps[m][n] + 1 \in 1 .. MaxFlaps
    BY <1>1 DEF Suspect
  <2>2. g \in SuspectHandlers
    BY <2>1, HandlerType
  <2> HIDE DEF g
  <2>3. pc' = [pc EXCEPT ![g] = "start"] /\ UNCHANGED <<todo, current, active, forgets, raced>>
    BY <1>1 DEF Suspect, g
  <2>4. /\ sees' \in [Monitors -> [Members -> {"healthy", "suspect"}]]
        /\ flaps' \in [Monitors -> [Members -> 0 .. MaxFlaps]]
        /\ clean' \subseteq SuspectHandlers
    BY <1>1, <2>1 DEF Suspect
  <2>5. Rounds'
    BY <1>1, <2>1 DEF Suspect
  <2>6. OwnClusters'
    BY <2>2, <2>3
  <2>7. pc' \in [SuspectHandlers -> {"idle", "start", "done"} \cup Running]
    BY <2>2, <2>3
  <2> QED
    BY <2>3, <2>4, <2>5, <2>6, <2>7
<1>2. ASSUME NEW m \in Monitors, NEW n \in Members, Recover(m, n) PROVE TypeInv'
  <2> DEFINE g == Handler("recovery", m, n, flaps[m][n])
  <2>1. flaps[m][n] \in 1 .. MaxFlaps
    BY <1>2 DEF Recover
  <2>2. g \in SuspectHandlers
    BY <2>1, HandlerType
  <2> HIDE DEF g
  <2>3. /\ pc' = [pc EXCEPT ![g] = "start"]
        /\ clean' \subseteq clean \cup {g}
        /\ sees' = [sees EXCEPT ![m][n] = "healthy"]
        /\ UNCHANGED <<flaps, forgets, active, todo, current, raced>>
    BY <1>2 DEF Recover, g
  <2>4. /\ sees' \in [Monitors -> [Members -> {"healthy", "suspect"}]]
        /\ clean' \subseteq SuspectHandlers
    BY <2>2, <2>3
  <2>5. Rounds'
    BY <2>3
  <2>6. OwnClusters'
    BY <2>2, <2>3
  <2>7. pc' \in [SuspectHandlers -> {"idle", "start", "done"} \cup Running]
    BY <2>2, <2>3
  <2> QED
    BY <2>3, <2>4, <2>5, <2>6, <2>7
<1>3. ASSUME NEW m \in Monitors, NEW n \in Members, Forget(m, n) PROVE TypeInv'
  <2>1. /\ sees' \in [Monitors -> [Members -> {"healthy", "suspect"}]]
        /\ forgets' \in 0 .. MaxForgets
        /\ Rounds'
    BY <1>3 DEF Forget
  <2>2. UNCHANGED <<flaps, active, pc, todo, current, clean, raced>>
    BY <1>3 DEF Forget
  <2>3. OwnClusters'
    BY <2>2
  <2> QED
    BY <2>1, <2>2, <2>3
<1>4. ASSUME NEW h \in SuspectHandlers, HandlerStep(h) PROVE TypeInv'
  BY <1>4, HandlerTypes
<1>5. CASE UNCHANGED suspectVars
  BY <1>5 DEF suspectVars
<1> QED
  BY <1>1, <1>2, <1>3, <1>4, <1>5 DEF SuspectNext

\* The records, the monitors and the handlers are well typed, and a handler
\* only works on clusters of its node.
THEOREM SuspectTypeInvariant == SuspectSpec => []TypeInv
<1>1. SuspectInit => TypeInv
  BY SuspectAssumption DEF SuspectInit, TypeInv, SuspectTypeOK, Rounds, OwnClusters
<1> QED
  BY <1>1, TypeStep, PTL DEF SuspectSpec

\* Well-typedness as the runs check it.
THEOREM SuspectTypeCorrect == SuspectSpec => []SuspectTypeOK
BY SuspectTypeInvariant, PTL DEF TypeInv

----------------------------------------------------------------------------
(* The lock *)

\* The lock of a process admits one HandleSuspectNode per node.
THEOREM LockExcludes == SuspectSpec => []OneSuspectHandler
<1>1. SuspectInit => OneSuspectHandler
  BY DEF SuspectInit, OneSuspectHandler, Running
<1>2. TypeInv /\ OneSuspectHandler /\ [SuspectNext]_suspectVars => OneSuspectHandler'
  <2> SUFFICES ASSUME TypeInv, OneSuspectHandler, [SuspectNext]_suspectVars PROVE OneSuspectHandler'
    OBVIOUS
  <2> USE DEF TypeInv, SuspectTypeOK
  \* Actions after which no further handler is past its lock.
  <2>a. ASSUME \A h \in SuspectHandlers : pc'[h] \in Running => pc[h] \in Running \/ h.kind # "suspect"
        PROVE  OneSuspectHandler'
    BY <2>a DEF OneSuspectHandler
  <2>1. ASSUME NEW m \in Monitors, NEW n \in Members,
               Suspect(m, n) \/ Recover(m, n) \/ Forget(m, n)
        PROVE  OneSuspectHandler'
    BY <2>1, <2>a DEF Suspect, Recover, Forget, Running
  <2>2. ASSUME NEW h \in SuspectHandlers, HandlerStep(h) PROVE OneSuspectHandler'
    <3>1. CASE BeginSuspect(h) /\ ~Locked(h)
      <4>1. pc' = [pc EXCEPT ![h] = "loop"]
        BY <3>1 DEF BeginSuspect
      <4>2. \A g \in SuspectHandlers : /\ g.kind = "suspect" /\ g.by = h.by
                                /\ g.node = h.node /\ pc'[g] \in Running
                                => g = h
        BY <3>1, <4>1 DEF Locked
      <4>3. \A g \in SuspectHandlers : g # h => pc'[g] = pc[g]
        BY <4>1
      <4> QED
        BY <4>2, <4>3 DEF OneSuspectHandler
    <3>2. CASE BeginSuspect(h) /\ Locked(h)
      BY <3>2, <2>a DEF BeginSuspect, Running
    <3>3. CASE BeginRecovery(h) \/ BeginFails(h) \/ Finish(h)
      BY <3>3, <2>a DEF BeginRecovery, BeginFails, Finish, Running
    <3>4. CASE UpdateMain(h) \/ UpdateWildcard(h)
      BY <3>4, <2>a DEF UpdateMain, UpdateWildcard, Running
    <3>5. ASSUME NEW ns \in Namespaces,
                 CountActive(h, ns) \/ CountFails(h, ns) \/ NextNamespace(h, ns)
          PROVE  OneSuspectHandler'
      <4>1. pc[h] = "loop" /\ (pc' = pc \/ pc' = [pc EXCEPT ![h] = "main"])
        BY <3>5, Zenon DEF CountActive, CountFails, NextNamespace
      <4> QED
        BY <4>1, <2>a DEF Running
    <3> QED
      BY <2>2, <3>1, <3>2, <3>3, <3>4, <3>5 DEF HandlerStep
  <2>3. CASE UNCHANGED suspectVars
    BY <2>3, <2>a DEF suspectVars
  <2> QED
    BY <2>1, <2>2, <2>3 DEF SuspectNext
<1> QED
  BY <1>1, <1>2, SuspectTypeInvariant, PTL DEF SuspectSpec

----------------------------------------------------------------------------
(* The last record *)

\* Outside a race the handlers between count and update are those of one node.
OneDisables ==
    \A ns \in Namespaces \ raced : \A g, h \in Disabling(ns) : g.node = h.node

\* A namespace whose record is about to be disabled has another active one.
Backed ==
    \A ns \in Namespaces \ raced : \A h \in Disabling(ns) :
        \E o \in ActiveHosts(ns) : o # h.node

KeptInv == OneDisables /\ Backed /\ LostOnlyInRace

\* A step that disables no main record and brings no suspect handler to its update.
LEMMA KeptQuietly ==
    ASSUME KeptInv, raced' = raced,
           \A ns \in Namespaces : ActiveHosts(ns) \subseteq ActiveHosts(ns)',
           \A h \in SuspectHandlers : h.kind = "suspect" /\ pc'[h] = "main" =>
               pc[h] = "main" /\ current'[h] = current[h]
    PROVE  KeptInv'
<1>1. \A ns \in Namespaces : Disabling(ns)' \subseteq Disabling(ns)
  BY DEF Disabling
<1>2. OneDisables'
  BY <1>1 DEF KeptInv, OneDisables
<1>3. Backed'
  BY <1>1 DEF KeptInv, Backed
<1>4. LostOnlyInRace'
  BY DEF KeptInv, LostOnlyInRace
<1> QED
  BY <1>2, <1>3, <1>4 DEF KeptInv

\* Without a change of the records there are the same active hosts.
LEMMA SameHosts ==
    ASSUME active' = active, NEW ns
    PROVE  ActiveHosts(ns)' = ActiveHosts(ns)
BY DEF ActiveHosts

\* More than one active record means one of another node.
LEMMA AnotherRecord ==
    ASSUME NEW ns \in Namespaces, NEW n, ~LastRecord(ns)
    PROVE  \E o \in ActiveHosts(ns) : o # n
<1> SUFFICES ASSUME ActiveHosts(ns) \subseteq {n} PROVE FALSE
  OBVIOUS
<1>1. ActiveHosts(ns) = {} \/ ActiveHosts(ns) = {n}
  OBVIOUS
<1>2. Cardinality({}) = 0 /\ Cardinality({n}) = 1
  BY FS_EmptySet, FS_Singleton
<1> QED
  BY <1>1, <1>2 DEF LastRecord

\* A handler that has counted: it finds another record, or it joins a race.
LEMMA CountKeeps ==
    ASSUME TypeInv, KeptInv, NEW h \in SuspectHandlers, NEW ns \in Namespaces,
           CountActive(h, ns), ~LastRecord(ns)
    PROVE  KeptInv'
<1>1. /\ pc[h] = "loop" /\ h.kind = "suspect" /\ active' = active
      /\ pc' = [pc EXCEPT ![h] = "main"] /\ current' = [current EXCEPT ![h] = ns]
      /\ raced' = IF \E g \in Disabling(ns) : g.node # h.node THEN raced \cup {ns} ELSE raced
  BY DEF CountActive
<1>2. \A x \in Namespaces : Disabling(x)' = IF x = ns THEN Disabling(x) \cup {h} ELSE Disabling(x)
  BY <1>1 DEF Disabling, TypeInv, SuspectTypeOK
<1>3. \A x \in Namespaces : ActiveHosts(x)' = ActiveHosts(x)
  BY <1>1, SameHosts
<1>4. raced \subseteq raced' /\ (ns \notin raced' => \A g \in Disabling(ns) : g.node = h.node)
  BY <1>1
<1>5. PICK o \in ActiveHosts(ns) : o # h.node
  BY AnotherRecord
<1>6. OneDisables'
  BY <1>2, <1>4 DEF KeptInv, OneDisables
<1>7. Backed'
  BY <1>2, <1>3, <1>4, <1>5 DEF KeptInv, Backed
<1>8. LostOnlyInRace'
  BY <1>3, <1>4 DEF KeptInv, LostOnlyInRace
<1> QED
  BY <1>6, <1>7, <1>8 DEF KeptInv

\* The main record is disabled while another one is active, or enabled.
LEMMA UpdateKeeps ==
    ASSUME TypeInv, KeptInv, NEW h \in SuspectHandlers, UpdateMain(h)
    PROVE  KeptInv'
<1>0. PICK ns : ns = current[h]
  OBVIOUS
<1>1. /\ pc[h] = "main" /\ pc' = [pc EXCEPT ![h] = "wildcard"] /\ current' = current
      /\ ns \in Namespaces /\ h.node \in Members /\ h.node \in Hosts[ns]
  BY <1>0, HandlerFields DEF UpdateMain, TypeInv, OwnClusters, ClustersByNode
<1>2. \A x \in Namespaces : Disabling(x)' = Disabling(x) \ {h}
  BY <1>1 DEF Disabling, TypeInv, SuspectTypeOK
<1>3. CASE h.kind = "suspect"
  <2>1. h \in Disabling(ns) /\ raced' = raced
    BY <1>0, <1>1, <1>3 DEF Disabling, UpdateMain
  <2>2. \/ active' = active
        \/ active' = active \ {<<ns, h.node, "main">>}
    BY <1>0, <1>3 DEF UpdateMain, TrySetRecord, SetRecord
  <2>3. \A x \in Namespaces : x # ns => ActiveHosts(x)' = ActiveHosts(x)
    BY <2>2 DEF ActiveHosts
  <2>4. ActiveHosts(ns) \ {h.node} \subseteq ActiveHosts(ns)'
    BY <2>2 DEF ActiveHosts
  <2>5. OneDisables'
    BY <1>2, <2>1 DEF KeptInv, OneDisables
  <2>6. ASSUME ns \notin raced PROVE \E o \in ActiveHosts(ns)' : o # h.node
    BY <1>1, <2>1, <2>4, <2>6 DEF KeptInv, Backed
  <2>7. ASSUME ns \notin raced PROVE \A g \in Disabling(ns) : g.node = h.node
    BY <1>1, <2>1, <2>7 DEF KeptInv, OneDisables
  <2>8. Backed'
    BY <1>2, <2>1, <2>3, <2>6, <2>7 DEF KeptInv, Backed
  <2>9. LostOnlyInRace'
    BY <2>1, <2>3, <2>6 DEF KeptInv, LostOnlyInRace
  <2> QED
    BY <2>5, <2>8, <2>9 DEF KeptInv
<1>4. CASE h.kind # "suspect"
  <2>1. active \subseteq active' /\ h.kind = "recovery"
    BY <1>4, HandlerFields DEF UpdateMain, TrySetRecord, SetRecord
  <2>2. \A x \in Namespaces : ActiveHosts(x) \subseteq ActiveHosts(x)'
    BY <2>1 DEF ActiveHosts
  <2>3. CASE <<ns, h.node, "main">> \in active' /\ Disabling(ns) = {}
    <3>1. raced' = raced \ {ns} /\ h.node \in ActiveHosts(ns)' /\ Disabling(ns)' = {}
      BY <1>0, <1>1, <1>2, <2>1, <2>3 DEF UpdateMain, ActiveHosts
    <3>2. OneDisables' /\ Backed'
      BY <1>2, <2>2, <3>1 DEF KeptInv, OneDisables, Backed
    <3>3. LostOnlyInRace'
      BY <2>2, <3>1 DEF KeptInv, LostOnlyInRace
    <3> QED
      BY <3>2, <3>3 DEF KeptInv
  <2>4. CASE ~(<<ns, h.node, "main">> \in active' /\ Disabling(ns) = {})
    <3>1. raced' = raced
      BY <1>0, <2>4 DEF UpdateMain
    <3> QED
      BY <1>1, <2>2, <3>1, KeptQuietly DEF TypeInv, SuspectTypeOK
  <2> QED
    BY <2>3, <2>4
<1> QED
  BY <1>3, <1>4

\* Every action keeps it.
LEMMA KeptStep ==
    ASSUME TypeInv, KeptInv, [SuspectNext]_suspectVars
    PROVE  KeptInv'
<1> USE SuspectAssumption
<1>1. ASSUME NEW m \in Monitors, NEW n \in Members, Suspect(m, n) PROVE KeptInv'
  <2> DEFINE g == Handler("suspect", m, n, flaps[m][n] + 1)
  <2>1. flaps[m][n] + 1 \in 1 .. MaxFlaps
    BY <1>1 DEF Suspect, TypeInv, SuspectTypeOK
  <2>2. g \in SuspectHandlers
    BY <2>1, HandlerType
  <2> HIDE DEF g
  <2>3. pc' = [pc EXCEPT ![g] = "start"] /\ UNCHANGED <<active, current, raced>>
    BY <1>1 DEF Suspect, g
  <2> QED
    BY <2>2, <2>3, SameHosts, KeptQuietly DEF TypeInv, SuspectTypeOK
<1>2. ASSUME NEW m \in Monitors, NEW n \in Members, Recover(m, n) PROVE KeptInv'
  <2> DEFINE g == Handler("recovery", m, n, flaps[m][n])
  <2>1. flaps[m][n] \in 1 .. MaxFlaps
    BY <1>2 DEF Recover, TypeInv, SuspectTypeOK, Rounds
  <2>2. g \in SuspectHandlers
    BY <2>1, HandlerType
  <2> HIDE DEF g
  <2>3. pc' = [pc EXCEPT ![g] = "start"] /\ UNCHANGED <<active, current, raced>>
    BY <1>2 DEF Recover, g
  <2> QED
    BY <2>2, <2>3, SameHosts, KeptQuietly DEF TypeInv, SuspectTypeOK
<1>3. ASSUME NEW m \in Monitors, NEW n \in Members, Forget(m, n) PROVE KeptInv'
  BY <1>3, SameHosts, KeptQuietly DEF Forget
<1>4. ASSUME NEW h \in SuspectHandlers, HandlerStep(h) PROVE KeptInv'
  <2>1. CASE BeginSuspect(h)
    <3>1. /\ UNCHANGED <<active, current, raced>>
          /\ pc' = [pc EXCEPT ![h] = "done"] \/ pc' = [pc EXCEPT ![h] = "loop"]
      BY <2>1, Zenon DEF BeginSuspect
    <3> QED
      BY <3>1, SameHosts, KeptQuietly DEF TypeInv, SuspectTypeOK
  <2>2. CASE BeginRecovery(h) \/ BeginFails(h) \/ Finish(h)
    <3>1. /\ UNCHANGED <<active, current, raced>>
          /\ pc' = [pc EXCEPT ![h] = "done"] \/ pc' = [pc EXCEPT ![h] = "loop"]
      BY <2>2 DEF BeginRecovery, BeginFails, Finish
    <3> QED
      BY <3>1, SameHosts, KeptQuietly DEF TypeInv, SuspectTypeOK
  <2>3. ASSUME NEW ns \in Namespaces, CountActive(h, ns) PROVE KeptInv'
    <3>1. CASE LastRecord(ns)
      <4>1. UNCHANGED <<active, pc, current, raced>>
        BY <2>3, <3>1 DEF CountActive
      <4> QED
        BY <4>1, SameHosts, KeptQuietly
    <3>2. CASE ~LastRecord(ns)
      BY <2>3, <3>2, CountKeeps
    <3> QED
      BY <3>1, <3>2
  <2>4. ASSUME NEW ns \in Namespaces, CountFails(h, ns) PROVE KeptInv'
    BY <2>4, SameHosts, KeptQuietly DEF CountFails
  <2>5. ASSUME NEW ns \in Namespaces, NextNamespace(h, ns) PROVE KeptInv'
    <3>1. /\ h.kind = "recovery" /\ UNCHANGED <<active, raced>>
          /\ pc' = [pc EXCEPT ![h] = "main"] /\ current' = [current EXCEPT ![h] = ns]
      BY <2>5 DEF NextNamespace
    <3> QED
      BY <3>1, SameHosts, KeptQuietly DEF TypeInv, SuspectTypeOK
  <2>6. CASE UpdateMain(h)
    BY <2>6, UpdateKeeps
  <2>7. CASE UpdateWildcard(h)
    <3>1. /\ pc[h] = "wildcard" /\ raced' = raced /\ pc' = [pc EXCEPT ![h] = "loop"]
          /\ current' = [current EXCEPT ![h] = NoNamespace]
      BY <2>7 DEF UpdateWildcard
    <3>2. \A ns \in Namespaces : ActiveHosts(ns) \subseteq ActiveHosts(ns)'
      BY <2>7 DEF UpdateWildcard, TrySetRecord, SetRecord, ActiveHosts
    <3> QED
      BY <3>1, <3>2, KeptQuietly DEF TypeInv, SuspectTypeOK
  <2> QED
    BY <1>4, <2>1, <2>2, <2>3, <2>4, <2>5, <2>6, <2>7 DEF HandlerStep
<1>5. CASE UNCHANGED suspectVars
  BY <1>5, SameHosts, KeptQuietly DEF suspectVars
<1> QED
  BY <1>1, <1>2, <1>3, <1>4, <1>5 DEF SuspectNext

\* However many nodes are suspected, by any number of monitors and however
\* often, a namespace loses its last active record only when the handlers of two
\* of its nodes had both counted before either disabled.
THEOREM OnlyRacesLose == SuspectSpec => []LostOnlyInRace
<1>1. SuspectInit => KeptInv
  <2> SUFFICES ASSUME SuspectInit PROVE KeptInv
    OBVIOUS
  <2>1. \A ns \in Namespaces : Disabling(ns) = {}
    BY DEF SuspectInit, Disabling
  <2>2. \A ns \in Namespaces : \A n \in Hosts[ns] : n \in ActiveHosts(ns)
    BY SuspectAssumption DEF SuspectInit, ActiveHosts, Records, Fqdns
  <2> QED
    BY <2>1, <2>2 DEF KeptInv, OneDisables, Backed, LostOnlyInRace
<1>2. TypeInv /\ KeptInv /\ [SuspectNext]_suspectVars => KeptInv'
  BY KeptStep
<1>3. KeptInv => LostOnlyInRace
  BY DEF KeptInv
<1> QED
  BY <1>1, <1>2, <1>3, SuspectTypeInvariant, PTL DEF SuspectSpec

----------------------------------------------------------------------------
(* Recovery *)

\* Both records of a namespace on a node are active.
Both(ns, n) == <<ns, n, "main">> \in active /\ <<ns, n, "wildcard">> \in active

\* What a recovery handler has got done for a namespace.
Restored(h, ns) ==
    /\ pc[h] = "done" => Both(ns, h.node)
    /\ pc[h] \in Running =>
          \/ ns \in todo[h]
          \/ ns = current[h] /\ pc[h] = "main"
          \/ ns = current[h] /\ pc[h] = "wildcard" /\ <<ns, h.node, "main">> \in active
          \/ Both(ns, h.node)

CleanInv ==
    \A h \in clean :
        /\ h.kind = "recovery" /\ ~SuspectPending(h.node)
        /\ \A ns \in ClustersByNode(h.node) : Restored(h, ns)

\* What a step of g does to the recovery h that runs undisturbed.
LEMMA CleanHandlerStep ==
    ASSUME TypeInv, CleanInv, NEW g \in SuspectHandlers, HandlerStep(g), NEW h \in clean,
           h \in clean', NEW ns \in ClustersByNode(h.node)
    PROVE  Restored(h, ns)'
<1>1. /\ h \in SuspectHandlers /\ h.kind = "recovery" /\ ~SuspectPending(h.node)
      /\ Restored(h, ns)
  BY DEF CleanInv, TypeInv, SuspectTypeOK
<1>2. g.kind \in {"suspect", "recovery"}
  BY HandlerFields
\* No record of the node is disabled.
<1>3. \A f \in Fqdns : <<ns, h.node, f>> \in active => <<ns, h.node, f>> \in active'
  <2>1. ASSUME NEW e \in Fqdns, SetRecord(g, e), pc[g] \in Running
        PROVE  \A f \in Fqdns : <<ns, h.node, f>> \in active => <<ns, h.node, f>> \in active'
    <3>1. g.kind = "suspect" => g.node # h.node
      BY <1>1, <2>1 DEF SuspectPending
    <3> QED
      BY <2>1, <3>1 DEF SetRecord
  <2>2. \/ UNCHANGED active
        \/ \E e \in Fqdns : SetRecord(g, e) /\ pc[g] \in Running
    BY DEF HandlerStep, BeginSuspect, BeginRecovery, BeginFails, CountActive, CountFails,
           NextNamespace, UpdateMain, UpdateWildcard, Finish, TrySetRecord, Fqdns, Running
  <2> QED
    BY <2>1, <2>2
<1>4. CASE g # h
  <2>1. pc'[h] = pc[h] /\ todo'[h] = todo[h] /\ current'[h] = current[h]
    BY <1>1, <1>4 DEF HandlerStep, BeginSuspect, BeginRecovery, BeginFails, CountActive,
       CountFails, NextNamespace, UpdateMain, UpdateWildcard, Finish, TypeInv, SuspectTypeOK
  <2> QED
    BY <1>1, <1>3, <2>1 DEF Restored, Both, Fqdns
<1>5. CASE g = h
  <2>1. CASE BeginRecovery(h)
    BY <1>1, <2>1 DEF BeginRecovery, Restored, Running, TypeInv, SuspectTypeOK
  <2>2. ASSUME NEW s \in Namespaces, NextNamespace(h, s) PROVE Restored(h, ns)'
    BY <1>1, <2>2 DEF NextNamespace, Restored, Both, Running, TypeInv, SuspectTypeOK
  <2>3. CASE UpdateMain(h)
    <3>1. /\ pc[h] = "main" /\ pc'[h] = "wildcard" /\ UNCHANGED <<todo, current>>
          /\ active' = active \cup {<<current[h], h.node, "main">>}
      BY <1>1, <2>3 DEF UpdateMain, TrySetRecord, SetRecord, TypeInv, SuspectTypeOK
    <3> QED
      BY <1>1, <3>1 DEF Restored, Both, Running
  <2>4. CASE UpdateWildcard(h)
    <3>1. /\ pc[h] = "wildcard" /\ pc'[h] = "loop" /\ UNCHANGED todo
          /\ active' = active \cup {<<current[h], h.node, "wildcard">>}
      BY <1>1, <2>4 DEF UpdateWildcard, TrySetRecord, SetRecord, TypeInv, SuspectTypeOK
    <3> QED
      BY <1>1, <3>1 DEF Restored, Both, Running
  <2>5. CASE Finish(h)
    BY <1>1, <2>5 DEF Finish, Restored, Both, Running, TypeInv, SuspectTypeOK
  <2> QED
    BY <1>1, <1>5, <2>1, <2>2, <2>3, <2>4, <2>5
       DEF HandlerStep, BeginSuspect, BeginFails, CountActive, CountFails
<1> QED
  BY <1>4, <1>5

\* Every action preserves the invariant of undisturbed recoveries.
LEMMA CleanStep == TypeInv /\ CleanInv /\ [SuspectNext]_suspectVars => CleanInv'
<1> SUFFICES ASSUME TypeInv, CleanInv, [SuspectNext]_suspectVars, NEW h \in clean'
             PROVE  /\ h.kind = "recovery" /\ ~SuspectPending(h.node)'
                    /\ \A ns \in ClustersByNode(h.node) : Restored(h, ns)'
  BY DEF CleanInv
<1> USE SuspectAssumption
<1>1. ASSUME NEW m \in Monitors, NEW n \in Members, Suspect(m, n)
      PROVE  /\ h.kind = "recovery" /\ ~SuspectPending(h.node)'
             /\ \A ns \in ClustersByNode(h.node) : Restored(h, ns)'
  <2> DEFINE g == Handler("suspect", m, n, flaps[m][n] + 1)
  <2>1. flaps[m][n] + 1 \in 1 .. MaxFlaps
    BY <1>1 DEF Suspect, TypeInv, SuspectTypeOK
  <2>2. g \in SuspectHandlers /\ g.node = n
    BY <2>1, HandlerType
  <2> HIDE DEF g
  <2>3. /\ pc' = [pc EXCEPT ![g] = "start"] /\ UNCHANGED <<active, todo, current>>
        /\ h \in clean /\ h.node # n
    BY <1>1 DEF Suspect, g
  <2>4. h \in SuspectHandlers /\ \A e \in SuspectHandlers : e.node = h.node => pc'[e] = pc[e]
    BY <2>2, <2>3 DEF TypeInv, SuspectTypeOK
  <2> QED
    BY <2>3, <2>4 DEF CleanInv, SuspectPending, Restored, Both
<1>2. ASSUME NEW m \in Monitors, NEW n \in Members, Recover(m, n)
      PROVE  /\ h.kind = "recovery" /\ ~SuspectPending(h.node)'
             /\ \A ns \in ClustersByNode(h.node) : Restored(h, ns)'
  <2> DEFINE g == Handler("recovery", m, n, flaps[m][n])
  <2>1. flaps[m][n] \in 1 .. MaxFlaps
    BY <1>2 DEF Recover, TypeInv, SuspectTypeOK, Rounds
  <2>2. g \in SuspectHandlers /\ g.node = n /\ g.kind = "recovery"
    BY <2>1, HandlerType
  <2> HIDE DEF g
  <2>3. /\ pc' = [pc EXCEPT ![g] = "start"] /\ UNCHANGED <<active, todo, current>>
        /\ h \in clean \/ (h = g /\ ~SuspectPending(n))
    BY <1>2 DEF Recover, g
  <2>4. h.kind = "recovery" /\ ~SuspectPending(h.node) /\ h \in SuspectHandlers
    BY <2>2, <2>3 DEF CleanInv, TypeInv, SuspectTypeOK
  <2>5. ~SuspectPending(h.node)'
    BY <2>2, <2>3, <2>4 DEF SuspectPending, TypeInv, SuspectTypeOK
  <2>6. CASE h = g
    BY <2>2, <2>3, <2>4, <2>5, <2>6 DEF Restored, Running, TypeInv, SuspectTypeOK
  <2>7. CASE h # g
    BY <2>2, <2>3, <2>4, <2>5, <2>7 DEF CleanInv, Restored, Both, TypeInv, SuspectTypeOK
  <2> QED
    BY <2>6, <2>7
<1>3. CASE UNCHANGED <<pc, active, todo, current, clean>>
  BY <1>3 DEF CleanInv, SuspectPending, Restored, Both
<1>4. ASSUME NEW g \in SuspectHandlers, HandlerStep(g)
      PROVE  /\ h.kind = "recovery" /\ ~SuspectPending(h.node)'
             /\ \A ns \in ClustersByNode(h.node) : Restored(h, ns)'
  <2>1. clean' \subseteq clean
    BY <1>4 DEF HandlerStep, BeginSuspect, BeginRecovery, BeginFails, CountActive,
       CountFails, NextNamespace, UpdateMain, UpdateWildcard, Finish, TrySetRecord
  <2>2. \A e \in SuspectHandlers : pc'[e] \in {"start"} \cup Running =>
                               pc[e] \in {"start"} \cup Running
    BY <1>4 DEF HandlerStep, BeginSuspect, BeginRecovery, BeginFails, CountActive,
       CountFails, NextNamespace, UpdateMain, UpdateWildcard, Finish, Running, TypeInv,
       SuspectTypeOK
  <2>3. h.kind = "recovery" /\ ~SuspectPending(h.node)'
    BY <2>1, <2>2 DEF CleanInv, SuspectPending
  <2> QED
    BY <1>4, <2>1, <2>3, CleanHandlerStep
<1> QED
  BY <1>1, <1>2, <1>3, <1>4 DEF SuspectNext, Forget, suspectVars

\* A recovery beside which no suspect handler of the node runs restores all
\* its records, whatever the other monitors' handlers left behind.
THEOREM RecoveryRestores == SuspectSpec => []UndisturbedRecovery
<1>1. SuspectInit => CleanInv
  BY DEF SuspectInit, CleanInv
<1>2. CleanInv => UndisturbedRecovery
  BY DEF CleanInv, UndisturbedRecovery, Restored, Both, Fqdns
<1> QED
  BY <1>1, <1>2, CleanStep, SuspectTypeInvariant, PTL DEF SuspectSpec
=============================================================================
