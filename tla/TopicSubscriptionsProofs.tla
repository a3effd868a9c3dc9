---------------------- MODULE TopicSubscriptionsProofs ----------------------
(* Proofs about TopicSubscriptions, for any number of clients. *)
EXTENDS TopicSubscriptions, FiniteSetTheorems, TLAPS

In == {s \in Subscribers : sub[s] = "in"}
Stages == {"out", "look", "create", "join", "cancelled", "in"}

Types ==
    /\ trigger \in BOOLEAN /\ subscribedKeys \in BOOLEAN /\ misled \in BOOLEAN
    /\ refresh \in [Callers -> {"idle", "list", "desired", "undesired", "subscribing"}]
    /\ loop \in {"first", "ticking", "never"}
    /\ sub \in [Subscribers -> Stages]
    /\ topic \in [refs : Nat, handlers : SUBSET Subscribers]
    /\ ~\A r \in Callers : refresh[r] = "subscribing"
    /\ changes \in 0 .. MaxChanges /\ subscribes \in 0 .. MaxSubscribes
    /\ failures \in 0 .. MaxFailures

\* The dispatcher is out, or subscribes under its lock, or holds the key.
DispatcherInv ==
    /\ subscribedKeys => ~Locked /\ sub[Dispatcher] = "in"
    /\ Locked => sub[Dispatcher] # "out"
    /\ ~subscribedKeys /\ ~Locked => sub[Dispatcher] = "out"

\* References are subscribers, all of them unless somebody was misled.
Counted ==
    /\ topic.refs <= Cardinality(In)
    /\ ~misled => topic.refs = Cardinality(In) /\ In \subseteq topic.handlers

IInv == Types /\ DispatcherInv /\ Counted

\* What the proofs use of the assumption on the constants.
LEMMA Constants ==
    /\ IsFiniteSet(Subscribers) /\ Dispatcher \in Subscribers /\ Clients \subseteq Subscribers
    /\ Dispatcher \notin Clients /\ Cardinality(Subscribers) \in Nat
    /\ MaxChanges \in Nat /\ MaxSubscribes \in Nat /\ MaxFailures \in Nat
<1>1. IsFiniteSet(Clients) /\ Dispatcher \notin Clients
  BY TopicSubscriptionsAssumption
<1>2. IsFiniteSet(Subscribers)
  BY <1>1, FS_AddElement DEF Subscribers
<1> QED
  BY <1>1, <1>2, FS_CardinalityType, TopicSubscriptionsAssumption DEF Subscribers

\* The subscribers that are in can be counted.
LEMMA InFinite == IsFiniteSet(In) /\ Cardinality(In) \in Nat
BY Constants, FS_Subset, FS_CardinalityType DEF In

\* A subscriber that gets in, or goes.
LEMMA GetsIn ==
    ASSUME NEW s \in Subscribers, sub \in [Subscribers -> Stages], sub[s] # "in",
           sub' = [sub EXCEPT ![s] = "in"]
    PROVE  In' = In \cup {s} /\ Cardinality(In') = Cardinality(In) + 1
<1>1. In' = In \cup {s} /\ s \notin In
  BY DEF In
<1> QED
  BY <1>1, InFinite, FS_AddElement

\* A subscriber that is on its way is not counted.
LEMMA StaysOut ==
    ASSUME NEW s \in Subscribers, NEW to \in Stages, sub \in [Subscribers -> Stages],
           sub[s] # "in", to # "in", sub' = [sub EXCEPT ![s] = to]
    PROVE  In' = In
BY DEF In

\* An unsubscribe takes one reference and one handler and leaves the other
\* subscribers alone.
LEMMA Goes ==
    ASSUME Types, Counted, NEW s \in Subscribers, sub[s] = "in", Unsubscribe(s), misled' = misled
    PROVE  /\ sub' \in [Subscribers -> Stages] /\ topic' \in [refs : Nat, handlers : SUBSET Subscribers]
           /\ sub'[s] = "out" /\ Counted'
           /\ \A x \in Subscribers \ {s} : /\ sub'[x] = "in" <=> sub[x] = "in"
                                           /\ sub'[x] = "out" <=> sub[x] = "out"
<1>1. sub \in [Subscribers -> Stages] /\ topic.refs \in Nat /\ topic.handlers \subseteq Subscribers
  BY DEF Types
<1>2. /\ sub' \in [Subscribers -> Stages] /\ sub'[s] = "out"
      /\ \A x \in Subscribers \ {s} : /\ sub'[x] = "in" <=> sub[x] = "in"
                                      /\ sub'[x] = "out" <=> sub[x] = "out"
  <2>1. CASE topic.refs > 1
    BY <1>1, <2>1 DEF Unsubscribe, SubTo, Stages
  <2>2. CASE ~(topic.refs > 1)
    <3>1. sub' = [x \in Subscribers |-> CASE x = s -> "out"
                                          [] x # s /\ sub[x] = "join" -> "cancelled"
                                          [] OTHER -> sub[x]]
      BY <2>2 DEF Unsubscribe
    <3>2. \A x \in Subscribers : sub'[x] = IF x = s THEN "out"
                                           ELSE IF sub[x] = "join" THEN "cancelled" ELSE sub[x]
      BY <3>1
    <3>3. DOMAIN sub' = Subscribers /\ sub' = [x \in Subscribers |-> sub'[x]]
      BY <3>1
    <3>4. \A x \in Subscribers : sub'[x] \in Stages
      BY <1>1, <3>2 DEF Stages
    <3> QED
      BY <3>2, <3>3, <3>4
  <2> QED
    BY <2>1, <2>2
<1>3. In' = In \ {s} /\ s \in In
  BY <1>2 DEF In
<1>4. Cardinality(In') = Cardinality(In) - 1 /\ IsFiniteSet(In') /\ Cardinality(In) \in Nat
  BY <1>3, InFinite, FS_RemoveElement, FS_Subset
<1>5. CASE topic.refs > 1
  <2>1. topic' = [topic EXCEPT !.refs = topic.refs - 1]
    BY <1>5 DEF Unsubscribe
  <2>2. topic'.refs = topic.refs - 1 /\ topic'.handlers = topic.handlers
        /\ topic' \in [refs : Nat, handlers : SUBSET Subscribers]
    BY <1>5, <2>1 DEF Types
  <2> QED
    BY <1>1, <1>2, <1>3, <1>4, <2>2 DEF Counted
<1>6. CASE ~(topic.refs > 1)
  <2>1. /\ topic'.refs = 0 /\ topic'.handlers = {}
        /\ topic' \in [refs : Nat, handlers : SUBSET Subscribers]
    BY <1>6 DEF Unsubscribe, NoTopic
  <2>2. Cardinality(In') >= 0
    BY <1>4, FS_CardinalityType
  <2>3. ASSUME ~misled PROVE In' = {} /\ Cardinality(In') = 0
    <3>1. Cardinality(In') = 0
      BY <1>1, <1>4, <1>6, <2>2, <2>3 DEF Counted
    <3> QED
      BY <1>4, <3>1, FS_EmptySet
  <2> QED
    BY <1>2, <2>1, <2>2, <2>3 DEF Counted
<1> QED
  BY <1>5, <1>6

\* The invariant holds at first.
LEMMA IInit == Init => IInv
<1> SUFFICES ASSUME Init PROVE IInv
  OBVIOUS
<1>1. Types
  <2>1. topic \in [refs : Nat, handlers : SUBSET Subscribers]
    BY DEF Init, NoTopic
  <2>2. refresh \in [Callers -> {"idle", "list", "desired", "undesired", "subscribing"}]
        /\ sub \in [Subscribers -> Stages] /\ refresh["loop"] = "idle" /\ "loop" \in Callers
    BY DEF Init, Stages, Callers
  <2>3. /\ changes \in 0 .. MaxChanges /\ subscribes \in 0 .. MaxSubscribes
        /\ failures \in 0 .. MaxFailures
    BY Constants DEF Init
  <2> QED
    BY <2>1, <2>2, <2>3 DEF Types, Init
<1>2. DispatcherInv
  BY Constants DEF Init, DispatcherInv, Locked, Callers
<1>3. In = {} /\ Cardinality(In) = 0
  BY FS_EmptySet DEF Init, In
<1> QED
  BY <1>1, <1>2, <1>3 DEF IInv, Counted, Init, NoTopic

\* A step that leaves the dispatcher alone.
LEMMA DispatcherKept ==
    ASSUME DispatcherInv, subscribedKeys' = subscribedKeys, Locked' = Locked,
           sub'[Dispatcher] = "in" <=> sub[Dispatcher] = "in",
           sub'[Dispatcher] = "out" <=> sub[Dispatcher] = "out"
    PROVE  DispatcherInv'
BY DEF DispatcherInv

\* A step of a Refresh call that takes no lock and holds none.
LEMMA LockKept ==
    ASSUME Types, NEW r \in Callers, NEW to \in {"idle", "list", "desired", "undesired"},
           refresh[r] # "subscribing", Sets(r, to)
    PROVE  /\ refresh' \in [Callers -> {"idle", "list", "desired", "undesired", "subscribing"}]
           /\ Locked' = Locked /\ ~\A x \in Callers : refresh'[x] = "subscribing"
<1>1. /\ refresh' = [refresh EXCEPT ![r] = to] /\ refresh'[r] = to
      /\ \A x \in Callers \ {r} : refresh'[x] = refresh[x]
      /\ refresh' \in [Callers -> {"idle", "list", "desired", "undesired", "subscribing"}]
  BY DEF Types, Sets
<1>2. \A x \in Callers : refresh'[x] = "subscribing" <=> refresh[x] = "subscribing"
  BY <1>1
<1> QED
  BY <1>1, <1>2 DEF Locked, Types

\* A Refresh that returns without the lock.
LEMMA ReturnKept ==
    ASSUME Types, NEW r \in Callers, NEW failed \in BOOLEAN, refresh[r] # "subscribing",
           Returns(r, failed)
    PROVE  /\ refresh' \in [Callers -> {"idle", "list", "desired", "undesired", "subscribing"}]
           /\ Locked' = Locked /\ ~\A x \in Callers : refresh'[x] = "subscribing"
           /\ loop' \in {"first", "ticking", "never"}
<1>1. Sets(r, "idle")
  BY DEF Returns
<1>2. loop' \in {"first", "ticking", "never"}
  BY DEF Returns, Types
<1> QED
  BY <1>1, <1>2, LockKept

\* A step that leaves references and subscribers alone keeps the count.
LEMMA CountedKept ==
    ASSUME Counted, In' = In, topic' = topic, misled' = misled
    PROVE  Counted'
BY DEF Counted

\* Every action keeps the invariant.
LEMMA IStep == IInv /\ [Next]_vars => IInv'
<1> SUFFICES ASSUME IInv, [Next]_vars PROVE IInv'
  OBVIOUS
<1>1. Types /\ DispatcherInv /\ Counted /\ sub \in [Subscribers -> Stages]
      /\ topic.refs \in Nat /\ topic.handlers \subseteq Subscribers
  BY DEF IInv, Types
<1>2. ASSUME NEW s \in Subscribers, Look(s) PROVE IInv'
  <2>1. PICK to \in {"join", "create"} : sub' = [sub EXCEPT ![s] = to]
    BY <1>2 DEF Look, SubTo
  <2>2. sub[s] = "look" /\ In' = In /\ sub' \in [Subscribers -> Stages]
    BY <1>1, <1>2, <2>1, StaysOut DEF Look, Stages
  <2>3. DispatcherInv'
    BY <1>1, <1>2, <2>1, <2>2, DispatcherKept, Constants DEF Look, Locked
  <2> QED
    BY <1>1, <1>2, <2>2, <2>3, CountedKept DEF Look, IInv, Types
<1>3. ASSUME NEW s \in Subscribers, Install(s) PROVE IInv'
  <2>1. CASE Live
    <3>1. sub' = [sub EXCEPT ![s] = "join"] /\ topic' = topic /\ sub[s] = "create"
      BY <1>3, <2>1 DEF Install, SubTo
    <3>2. In' = In /\ sub' \in [Subscribers -> Stages]
      BY <1>1, <3>1, StaysOut DEF Stages
    <3>3. DispatcherInv'
      BY <1>1, <1>3, <3>1, DispatcherKept, Constants DEF Install, Locked
    <3> QED
      BY <1>1, <1>3, <3>1, <3>2, <3>3, CountedKept DEF Install, IInv, Types
  <2>2. CASE ~Live
    <3>1. /\ sub' = [sub EXCEPT ![s] = "in"] /\ sub[s] = "create"
          /\ topic' = [refs |-> 1, handlers |-> {s}] /\ misled' = misled
      BY <1>3, <2>2 DEF Install, SubTo
    <3>2. /\ In' = In \cup {s} /\ Cardinality(In') = Cardinality(In) + 1
          /\ sub' \in [Subscribers -> Stages]
      BY <1>1, <3>1, GetsIn DEF Stages
    <3>3. DispatcherInv'
      <4>1. /\ s = Dispatcher => Locked /\ ~subscribedKeys
        BY <1>1, <3>1 DEF DispatcherInv
      <4>2. Locked' = Locked /\ subscribedKeys' = subscribedKeys
        BY <1>3 DEF Install, Locked
      <4>3. s # Dispatcher => sub'[Dispatcher] = sub[Dispatcher]
        BY <1>1, <3>1, Constants
      <4>4. s = Dispatcher => sub'[Dispatcher] = "in"
        BY <1>1, <3>1, Constants
      <4> QED
        BY <1>1, <4>1, <4>2, <4>3, <4>4 DEF DispatcherInv
    <3>4. Counted'
      <4>1. topic'.refs = 1 /\ topic'.handlers = {s} /\ topic.refs = 0
        BY <1>1, <2>2, <3>1 DEF Live
      <4>2. ASSUME ~misled PROVE In = {} /\ Cardinality(In) = 0
        BY <1>1, <4>1, <4>2, InFinite, FS_EmptySet DEF Counted
      <4> QED
        BY <3>1, <3>2, <4>1, <4>2, InFinite DEF Counted
    <3>5. topic' \in [refs : Nat, handlers : SUBSET Subscribers]
      BY <3>1
    <3> QED
      BY <1>1, <1>3, <3>2, <3>3, <3>4, <3>5 DEF Install, IInv, Types
  <2> QED
    BY <2>1, <2>2
<1>4. ASSUME NEW s \in Subscribers, Join(s) PROVE IInv'
  <2>1. sub' = [sub EXCEPT ![s] = "in"] /\ sub[s] \in {"join", "cancelled"}
    BY <1>4 DEF Join, SubTo
  <2>2. /\ In' = In \cup {s} /\ Cardinality(In') = Cardinality(In) + 1
        /\ sub' \in [Subscribers -> Stages]
    BY <1>1, <2>1, GetsIn DEF Stages
  <2>3. DispatcherInv'
    <3>1. s = Dispatcher => Locked /\ ~subscribedKeys
      BY <1>1, <2>1 DEF DispatcherInv
    <3>2. Locked' = Locked /\ subscribedKeys' = subscribedKeys
      BY <1>4 DEF Join, Locked
    <3>3. s # Dispatcher => sub'[Dispatcher] = sub[Dispatcher]
      BY <1>1, <2>1, Constants
    <3>4. s = Dispatcher => sub'[Dispatcher] = "in"
      BY <1>1, <2>1, Constants
    <3> QED
      BY <1>1, <3>1, <3>2, <3>3, <3>4 DEF DispatcherInv
  <2>4. CASE sub[s] = "join"
    <3>1. topic' = [refs |-> topic.refs + 1, handlers |-> topic.handlers \cup {s}] /\ misled' = misled
      BY <1>4, <2>4 DEF Join
    <3>2. topic'.refs = topic.refs + 1 /\ topic'.handlers = topic.handlers \cup {s}
          /\ topic' \in [refs : Nat, handlers : SUBSET Subscribers]
      BY <1>1, <3>1
    <3>3. Counted'
      BY <1>1, <2>2, <3>1, <3>2, InFinite DEF Counted
    <3> QED
      BY <1>1, <1>4, <2>2, <2>3, <3>1, <3>2, <3>3 DEF Join, IInv, Types
  <2>5. CASE sub[s] = "cancelled"
    <3>1. topic' = topic /\ misled' = TRUE
      BY <1>4, <2>5 DEF Join
    <3>2. Counted'
      BY <1>1, <2>2, <3>1, InFinite DEF Counted
    <3> QED
      BY <1>1, <1>4, <2>2, <2>3, <3>1, <3>2 DEF Join, IInv, Types
  <2> QED
    BY <2>1, <2>4, <2>5
<1>5. ASSUME NEW c \in Clients, ClientSubscribes(c) PROVE IInv'
  <2>1. sub' = [sub EXCEPT ![c] = "look"] /\ sub[c] = "out" /\ c \in Subscribers /\ c # Dispatcher
    BY <1>5, Constants DEF ClientSubscribes, SubTo
  <2>2. In' = In /\ sub' \in [Subscribers -> Stages] /\ sub'[Dispatcher] = sub[Dispatcher]
    BY <1>1, <2>1, StaysOut, Constants DEF Stages
  <2>3. DispatcherInv'
    BY <1>1, <1>5, <2>2, DispatcherKept DEF ClientSubscribes, Locked
  <2>4. subscribes' \in 0 .. MaxSubscribes
    BY <1>1, <1>5, Constants DEF ClientSubscribes, Types
  <2> QED
    BY <1>1, <1>5, <2>2, <2>3, <2>4, CountedKept DEF ClientSubscribes, IInv, Types
<1>6. ASSUME NEW c \in Clients, ClientLeaves(c) PROVE IInv'
  <2>1. /\ sub' \in [Subscribers -> Stages] /\ topic' \in [refs : Nat, handlers : SUBSET Subscribers]
        /\ Counted'
        /\ (sub'[Dispatcher] = "in" <=> sub[Dispatcher] = "in")
        /\ (sub'[Dispatcher] = "out" <=> sub[Dispatcher] = "out")
    <3>1. c \in Subscribers /\ c # Dispatcher /\ Dispatcher \in Subscribers
      BY Constants
    <3> QED
      BY <1>1, <1>6, <3>1, Goes DEF ClientLeaves
  <2>2. DispatcherInv'
    BY <1>1, <1>6, <2>1, DispatcherKept DEF ClientLeaves, Locked
  <2> QED
    BY <1>1, <1>6, <2>1, <2>2 DEF ClientLeaves, IInv, Types
<1>7. ASSUME NEW r \in Callers, ListDistinctTopicPatterns(r) PROVE IInv'
  <2>1. /\ refresh[r] # "subscribing" /\ UNCHANGED <<trigger, subscribedKeys, topic, sub, misled>>
        /\ UNCHANGED <<changes, subscribes>>
    BY <1>7 DEF ListDistinctTopicPatterns, Begins
  <2>2. /\ refresh' \in [Callers -> {"idle", "list", "desired", "undesired", "subscribing"}]
        /\ Locked' = Locked /\ ~\A x \in Callers : refresh'[x] = "subscribing"
        /\ loop' \in {"first", "ticking", "never"}
    <3>1. CASE Returns(r, TRUE)
      BY <1>1, <2>1, <3>1, ReturnKept
    <3>2. CASE Sets(r, IF trigger THEN "desired" ELSE "undesired") /\ loop' = loop
      <4>1. \E to \in {"desired", "undesired"} : Sets(r, to)
        BY <3>2
      <4>2. loop' \in {"first", "ticking", "never"}
        BY <1>1, <3>2 DEF Types
      <4> QED
        BY <1>1, <2>1, <4>1, <4>2, LockKept
    <3> QED
      BY <1>7, <3>1, <3>2 DEF ListDistinctTopicPatterns
  <2>3. failures' \in 0 .. MaxFailures
    <3>1. failures' = failures \/ Fails
      BY <1>7 DEF ListDistinctTopicPatterns
    <3> QED
      BY <1>1, <3>1, Constants DEF Fails, Types
  <2>4. DispatcherInv' /\ In' = In
    BY <1>1, <2>1, <2>2, DispatcherKept DEF In
  <2> QED
    BY <1>1, <2>1, <2>2, <2>3, <2>4, CountedKept DEF IInv, Types
<1>8. ASSUME NEW r \in Callers, RefreshSubscribe(r) PROVE IInv'
  <2>1. /\ refresh[r] = "desired" /\ ~Locked /\ UNCHANGED <<trigger, subscribedKeys, topic, misled>>
        /\ UNCHANGED <<changes, subscribes>>
    BY <1>8 DEF RefreshSubscribe
  <2>2. failures' \in 0 .. MaxFailures
    <3>1. failures' = failures \/ Fails
      BY <1>8 DEF RefreshSubscribe
    <3> QED
      BY <1>1, <3>1, Constants DEF Fails, Types
  <2>3. CASE Returns(r, FALSE) /\ sub' = sub
    <3>1. /\ refresh' \in [Callers -> {"idle", "list", "desired", "undesired", "subscribing"}]
          /\ Locked' = Locked /\ ~\A x \in Callers : refresh'[x] = "subscribing"
          /\ loop' \in {"first", "ticking", "never"}
      BY <1>1, <2>1, <2>3, ReturnKept
    <3>2. DispatcherInv' /\ In' = In
      BY <1>1, <2>1, <2>3, <3>1, DispatcherKept DEF In
    <3> QED
      BY <1>1, <2>1, <2>2, <2>3, <3>1, <3>2, CountedKept DEF IInv, Types
  <2>4. CASE /\ ~subscribedKeys /\ Sets(r, "subscribing") /\ SubTo(Dispatcher, "look")
             /\ loop' = loop
    <3>1. sub[Dispatcher] = "out" /\ sub' = [sub EXCEPT ![Dispatcher] = "look"]
      BY <1>1, <2>1, <2>4 DEF DispatcherInv, SubTo
    <3>2. In' = In /\ sub' \in [Subscribers -> Stages] /\ sub'[Dispatcher] = "look"
      BY <1>1, <3>1, StaysOut, Constants DEF Stages
    <3>3. /\ refresh' = [refresh EXCEPT ![r] = "subscribing"]
          /\ refresh' \in [Callers -> {"idle", "list", "desired", "undesired", "subscribing"}]
          /\ refresh'[r] = "subscribing" /\ \A x \in Callers \ {r} : refresh'[x] = refresh[x]
      BY <1>1, <2>4 DEF Types, Sets
    <3>4. Locked' /\ \A x \in Callers \ {r} : refresh'[x] # "subscribing"
      BY <2>1, <3>3 DEF Locked
    <3>5. ~\A x \in Callers : refresh'[x] = "subscribing"
      BY <3>4 DEF Callers
    <3>6. DispatcherInv'
      BY <2>1, <2>4, <3>2, <3>4 DEF DispatcherInv
    <3> QED
      BY <1>1, <2>1, <2>2, <2>4, <3>2, <3>3, <3>5, <3>6, CountedKept DEF IInv, Types
  <2> QED
    BY <1>8, <2>3, <2>4 DEF RefreshSubscribe
<1>9. ASSUME NEW r \in Callers, RefreshSubscribed(r) PROVE IInv'
  <2>1. /\ refresh[r] = "subscribing" /\ sub[Dispatcher] = "in" /\ subscribedKeys' = TRUE
        /\ UNCHANGED <<trigger, topic, sub, misled, changes, subscribes, failures>>
        /\ refresh' = [refresh EXCEPT ![r] = "idle"]
        /\ loop' \in {"first", "ticking", "never"}
    BY <1>1, <1>9 DEF RefreshSubscribed, Returns, Sets, Types
  <2>2. /\ refresh' \in [Callers -> {"idle", "list", "desired", "undesired", "subscribing"}]
        /\ refresh'[r] = "idle" /\ \A x \in Callers \ {r} : refresh'[x] = refresh[x]
    BY <1>1, <2>1 DEF Types
  <2>3. \A x \in Callers \ {r} : refresh[x] # "subscribing"
    BY <1>1, <2>1 DEF Types, Callers
  <2>4. ~Locked' /\ ~\A x \in Callers : refresh'[x] = "subscribing"
    BY <2>2, <2>3 DEF Locked
  <2>5. DispatcherInv' /\ In' = In
    BY <2>1, <2>4 DEF DispatcherInv, In
  <2> QED
    BY <1>1, <2>1, <2>2, <2>4, <2>5, CountedKept DEF IInv, Types
<1>10. ASSUME NEW r \in Callers, RefreshUnsubscribe(r) PROVE IInv'
  <2>1. /\ refresh[r] = "undesired" /\ ~Locked /\ Returns(r, FALSE) /\ subscribedKeys' = FALSE
        /\ UNCHANGED <<trigger, misled, changes, subscribes, failures>>
    BY <1>10 DEF RefreshUnsubscribe
  <2>2. /\ refresh' \in [Callers -> {"idle", "list", "desired", "undesired", "subscribing"}]
        /\ Locked' = Locked /\ ~\A x \in Callers : refresh'[x] = "subscribing"
        /\ loop' \in {"first", "ticking", "never"}
    BY <1>1, <2>1, ReturnKept
  <2>3. CASE subscribedKeys
    <3>1. sub[Dispatcher] = "in" /\ Unsubscribe(Dispatcher)
      BY <1>1, <1>10, <2>3 DEF RefreshUnsubscribe, DispatcherInv
    <3>2. /\ sub' \in [Subscribers -> Stages] /\ Counted' /\ sub'[Dispatcher] = "out"
          /\ topic' \in [refs : Nat, handlers : SUBSET Subscribers]
      BY <1>1, <2>1, <3>1, Goes, Constants
    <3> QED
      BY <1>1, <2>1, <2>2, <3>2 DEF IInv, Types, DispatcherInv
  <2>4. CASE ~subscribedKeys
    <3>1. UNCHANGED <<topic, sub>> /\ In' = In
      BY <1>10, <2>4 DEF RefreshUnsubscribe, In
    <3>2. DispatcherInv'
      BY <1>1, <2>1, <2>2, <2>4, <3>1 DEF DispatcherInv
    <3> QED
      BY <1>1, <2>1, <2>2, <3>1, <3>2, CountedKept DEF IInv, Types
  <2> QED
    BY <2>3, <2>4
<1>11. ASSUME ChangeTrigger PROVE IInv'
  <2>1. /\ trigger' \in BOOLEAN /\ changes' \in 0 .. MaxChanges
        /\ UNCHANGED <<loop, subscribedKeys, topic, sub, misled, subscribes, failures>>
    BY <1>1, <1>11, Constants DEF ChangeTrigger, Types
  <2>2. /\ refresh' \in [Callers -> {"idle", "list", "desired", "undesired", "subscribing"}]
        /\ Locked' = Locked /\ ~\A x \in Callers : refresh'[x] = "subscribing"
    <3>1. CASE refresh' = refresh
      BY <1>1, <3>1 DEF Types, Locked
    <3>2. CASE refresh["hook"] = "idle" /\ Sets("hook", "list")
      <4>1. "hook" \in Callers
        BY DEF Callers
      <4> QED
        BY <1>1, <3>2, <4>1, LockKept
    <3> QED
      BY <1>11, <3>1, <3>2 DEF ChangeTrigger
  <2>3. DispatcherInv' /\ In' = In
    BY <1>1, <2>1, <2>2, DispatcherKept DEF In
  <2> QED
    BY <1>1, <2>1, <2>2, <2>3, CountedKept DEF IInv, Types
<1>12. CASE UNCHANGED vars
  BY <1>1, <1>12 DEF vars, IInv, Types, DispatcherInv, Counted, Locked, In
<1> QED
  BY <1>2, <1>3, <1>4, <1>5, <1>6, <1>7, <1>8, <1>9, <1>10, <1>11, <1>12
     DEF Next, Subscribe, Applies

-----------------------------------------------------------------------------

\* The types the runs check: in particular no two Refresh calls hold the lock, and the
\* count never exceeds the subscribers, misled or not.
THEOREM TypeCorrect == Spec => []TypeOK
<1>1. IInv => TypeOK
  <2> SUFFICES ASSUME IInv PROVE TypeOK
    OBVIOUS
  <2>1. Cardinality(In) <= Cardinality(Subscribers) /\ Cardinality(In) \in Nat
    BY Constants, InFinite, FS_Subset DEF In
  <2>2. topic \in [refs : 0 .. Cardinality(Subscribers), handlers : SUBSET Subscribers]
    BY <2>1, Constants DEF IInv, Types, Counted
  <2>3. {trigger, subscribedKeys, misled} \subseteq BOOLEAN
    BY DEF IInv, Types
  <2> QED
    BY <2>2, <2>3 DEF IInv, Types, TypeOK, Stages
<1> QED
  BY <1>1, IInit, IStep, PTL DEF Spec

\* For any number of clients the count of references is the number of subscribers
\* (Subscribe, Unsubscribe), unless somebody joined a cancelled subscription.
THEOREM RefsCounted == Spec => []RefsAreSubscribers
<1>1. IInv => RefsAreSubscribers
  BY DEF IInv, Counted, RefsAreSubscribers, In
<1> QED
  BY <1>1, IInit, IStep, PTL DEF Spec

\* For any number of clients whoever is subscribed has its handler on the live
\* subscription, the dispatcher included, with the same exception.
THEOREM SubscribersServed == Spec => []Served
<1>1. IInv => Served
  BY DEF IInv, Counted, DispatcherInv, Served, In
<1> QED
  BY <1>1, IInit, IStep, PTL DEF Spec
=============================================================================
