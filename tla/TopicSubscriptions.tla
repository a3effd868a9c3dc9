------------------------- MODULE TopicSubscriptions -------------------------
(***************************************************************************)
(* The subscriptions of one gateway to one PubSub topic. Its Manager       *)
(* shares one libp2p subscription among all subscribers by a count of      *)
(* references: WebSocket clients, and the trigger dispatcher, whose        *)
(* Refresh follows the triggers in the store. Gateways share nothing but   *)
(* the store, which requests to other gateways change as well.             *)
(***************************************************************************)
EXTENDS Integers, FiniteSets

CONSTANTS Clients,       \* WebSocket subscribers of the topic
          Dispatcher,    \* PubSubDispatcher, the subscriber of the triggers
          MaxChanges,    \* bound: triggers added or removed
          MaxSubscribes, \* bound: subscriptions of clients
          MaxFailures    \* bound: failed queries and subscriptions

ASSUME TopicSubscriptionsAssumption ==
    /\ IsFiniteSet(Clients) /\ Dispatcher \notin Clients
    /\ {MaxChanges, MaxSubscribes, MaxFailures} \subseteq Nat

VARIABLES
    trigger,        \* the store has a literal trigger for the topic
    refresh,        \* the Refresh calls
    loop,           \* refreshLoop: before, during or, if the first Refresh failed, "never"
    subscribedKeys, \* whether it holds the topic's key
    topic,          \* Manager.subscriptions[topic]: its references and handlers
    sub,            \* the Subscribe calls
    misled,         \* history: somebody joined a subscription that was cancelled
    changes, subscribes, failures

vars == <<trigger, refresh, loop, subscribedKeys, topic, sub, misled, changes, subscribes, failures>>

Callers == {"loop", "hook"}
Subscribers == Clients \cup {Dispatcher}
NoTopic == [refs |-> 0, handlers |-> {}]
Live == topic.refs > 0

Init ==
    /\ trigger \in BOOLEAN /\ changes = 0 /\ subscribes = 0 /\ failures = 0
    /\ refresh = [r \in Callers |-> "idle"] /\ loop = "first" /\ subscribedKeys = FALSE
    /\ topic = NoTopic /\ sub = [s \in Subscribers |-> "out"] /\ misled = FALSE

Fails == failures < MaxFailures /\ failures' = failures + 1
SubTo(s, to) == sub' = [sub EXCEPT ![s] = to]
Sets(r, to) == refresh' = [refresh EXCEPT ![r] = to]

\* Start returns before the gateway serves anybody.
Serving == loop # "first"

-----------------------------------------------------------------------------
(* The Manager. Unsubscribe runs under its lock; Subscribe releases it     *)
(* between looking the subscription up and adding its handler.             *)

Look(s) ==
    /\ sub[s] = "look"
    /\ SubTo(s, IF Live THEN "join" ELSE "create")
    /\ UNCHANGED <<trigger, refresh, loop, subscribedKeys, topic, misled, changes, subscribes, failures>>

\* The new subscription is installed, or dropped for one installed meanwhile.
Install(s) ==
    /\ sub[s] = "create"
    /\ IF Live THEN SubTo(s, "join") /\ UNCHANGED topic
       ELSE topic' = [refs |-> 1, handlers |-> {s}] /\ SubTo(s, "in")
    /\ UNCHANGED <<trigger, refresh, loop, subscribedKeys, misled, changes, subscribes, failures>>

\* Mutant: the reference is not counted.
JoinUncounted(s) ==
    /\ sub[s] = "join" /\ SubTo(s, "in")
    /\ topic' = [topic EXCEPT !.handlers = @ \cup {s}]
    /\ UNCHANGED <<trigger, refresh, loop, subscribedKeys, misled, changes, subscribes, failures>>

\* Mutant: a handler replaces those before it.
JoinReplaces(s) ==
    /\ sub[s] = "join" /\ SubTo(s, "in")
    /\ topic' = [refs |-> topic.refs + 1, handlers |-> {s}]
    /\ UNCHANGED <<trigger, refresh, loop, subscribedKeys, misled, changes, subscribes, failures>>

\* The subscription that was found gets the handler and a reference, though it
\* may be "cancelled" by now. A handler that stayed from before is called twice.
Join(s) ==
    /\ sub[s] \in {"join", "cancelled"}
    /\ SubTo(s, "in")
    /\ IF sub[s] = "join"
       THEN topic' = [refs |-> topic.refs + 1, handlers |-> topic.handlers \cup {s}]
            /\ UNCHANGED misled
       ELSE misled' = TRUE /\ UNCHANGED topic
    /\ UNCHANGED <<trigger, refresh, loop, subscribedKeys, changes, subscribes, failures>>

\* One reference less; the handler stays. The last one cancels the
\* subscription, also for those who have looked it up.
Unsubscribe(s) ==
    IF topic.refs > 1
    THEN topic' = [topic EXCEPT !.refs = @ - 1] /\ SubTo(s, "out")
    ELSE /\ topic' = NoTopic
         /\ sub' = [x \in Subscribers |-> CASE x = s -> "out"
                                            [] x # s /\ sub[x] = "join" -> "cancelled"
                                            [] OTHER -> sub[x]]

ClientSubscribes(c) ==
    /\ sub[c] = "out" /\ subscribes < MaxSubscribes /\ Serving
    /\ subscribes' = subscribes + 1
    /\ SubTo(c, "look")
    /\ UNCHANGED <<trigger, refresh, loop, subscribedKeys, topic, misled, changes, failures>>

ClientLeaves(c) ==
    /\ sub[c] = "in"
    /\ Unsubscribe(c)
    /\ UNCHANGED <<trigger, refresh, loop, subscribedKeys, misled, changes, subscribes, failures>>

-----------------------------------------------------------------------------
(* PubSubDispatcher.Refresh. *)

Locked == \E r \in Callers : refresh[r] = "subscribing"

\* A Refresh returns; after the one of Start the loop is started, unless it
\* returned an error.
Returns(r, failed) ==
    /\ Sets(r, "idle")
    /\ loop' = IF r = "loop" /\ loop = "first" THEN (IF failed THEN "never" ELSE "ticking") ELSE loop

\* Start and the ticker of refreshLoop, or a request.
Begins(r) == IF r = "hook" THEN refresh[r] = "list" ELSE refresh[r] = "idle" /\ loop # "never"

\* Mutant: an empty list is taken for nothing to do.
ListReturnsEarly(r) ==
    /\ Begins(r)
    /\ IF trigger THEN Sets(r, "desired") /\ UNCHANGED loop ELSE Returns(r, FALSE)
    /\ UNCHANGED <<trigger, subscribedKeys, topic, sub, misled, changes, subscribes, failures>>

\* The store is read before the lock is taken.
ListDistinctTopicPatterns(r) ==
    /\ Begins(r)
    /\ \/ Sets(r, IF trigger THEN "desired" ELSE "undesired") /\ UNCHANGED <<loop, failures>>
       \/ Returns(r, TRUE) /\ Fails
    /\ UNCHANGED <<trigger, subscribedKeys, topic, sub, misled, changes, subscribes>>

\* A subscription that fails is left for the next Refresh.
RefreshSubscribe(r) ==
    /\ refresh[r] = "desired" /\ ~Locked
    /\ \/ subscribedKeys /\ Returns(r, FALSE) /\ UNCHANGED <<sub, failures>>
       \/ /\ ~subscribedKeys /\ Sets(r, "subscribing")
          /\ SubTo(Dispatcher, "look") /\ UNCHANGED <<loop, failures>>
       \/ ~subscribedKeys /\ Returns(r, FALSE) /\ Fails /\ UNCHANGED sub
    /\ UNCHANGED <<trigger, subscribedKeys, topic, misled, changes, subscribes>>

RefreshSubscribed(r) ==
    /\ refresh[r] = "subscribing" /\ sub[Dispatcher] = "in"
    /\ subscribedKeys' = TRUE
    /\ Returns(r, FALSE)
    /\ UNCHANGED <<trigger, topic, sub, misled, changes, subscribes, failures>>

RefreshUnsubscribe(r) ==
    /\ refresh[r] = "undesired" /\ ~Locked
    /\ Returns(r, FALSE)
    /\ subscribedKeys' = FALSE
    /\ IF subscribedKeys THEN Unsubscribe(Dispatcher) ELSE UNCHANGED <<topic, sub>>
    /\ UNCHANGED <<trigger, misled, changes, subscribes, failures>>

\* A request to this gateway refreshes, one to another does not.
ChangeTrigger ==
    /\ changes < MaxChanges
    /\ trigger' = ~trigger /\ changes' = changes + 1
    /\ \/ Serving /\ refresh["hook"] = "idle" /\ Sets("hook", "list")
       \/ UNCHANGED refresh
    /\ UNCHANGED <<loop, subscribedKeys, topic, sub, misled, subscribes, failures>>

Subscribe(s) == Look(s) \/ Install(s) \/ Join(s)
Applies(r) == RefreshSubscribe(r) \/ RefreshSubscribed(r) \/ RefreshUnsubscribe(r)

Next ==
    \/ \E s \in Subscribers : Subscribe(s)
    \/ \E c \in Clients : ClientSubscribes(c) \/ ClientLeaves(c)
    \/ \E r \in Callers : ListDistinctTopicPatterns(r) \/ Applies(r)
    \/ ChangeTrigger

Spec == Init /\ [][Next]_vars

\* A ticker that was started keeps ticking and calls run on; clients may stay
\* for ever.
FairSpec ==
    /\ Spec
    /\ \A s \in Subscribers : WF_vars(Subscribe(s))
    /\ \A r \in Callers : WF_vars(ListDistinctTopicPatterns(r)) /\ WF_vars(Applies(r))

-----------------------------------------------------------------------------
(* Properties. *)

\* Every variable has its type, and at most one Refresh holds the lock.
TypeOK ==
    /\ {trigger, subscribedKeys, misled} \subseteq BOOLEAN
    /\ refresh \in [Callers -> {"idle", "list", "desired", "undesired", "subscribing"}]
    /\ loop \in {"first", "ticking", "never"}
    /\ sub \in [Subscribers -> {"out", "look", "create", "join", "cancelled", "in"}]
    /\ topic \in [refs : 0 .. Cardinality(Subscribers), handlers : SUBSET Subscribers]
    /\ ~\A r \in Callers : refresh[r] = "subscribing"
    /\ changes \in 0 .. MaxChanges /\ subscribes \in 0 .. MaxSubscribes
    /\ failures \in 0 .. MaxFailures

\* "The subscription is only truly cancelled when refcount reaches zero": the
\* count is the number of subscribers that are in, so that nobody who leaves
\* takes the subscription from another, unless somebody joined a subscription
\* that was cancelled between lookup and use.
RefsAreSubscribers == ~misled => topic.refs = Cardinality({s \in Subscribers : sub[s] = "in"})

\* A subscriber that is in gets the messages: its handler is on the live
\* subscription; for the dispatcher this is what subscribedKeys stands for.
Served ==
    ~misled => /\ \A s \in Subscribers : sub[s] = "in" => s \in topic.handlers
               /\ subscribedKeys => sub[Dispatcher] = "in"

\* When triggers change no more the dispatcher comes to follow the store, though
\* lists are stale when applied, and queries and subscriptions fail. One failure
\* it does not survive: the query of its first Refresh, without which Start does
\* not start the loop.
FollowsStore == <>[](subscribedKeys <=> trigger) \/ <>[](loop = "never")

\* "subscribedKeys is the set of (namespace, topic) tuples currently
\* libp2p-subscribed by this dispatcher."
KeysAreSubscribed == subscribedKeys => Dispatcher \in topic.handlers
=============================================================================
