--------------------------- MODULE TriggerDispatch ---------------------------
(***************************************************************************)
(* From a publish to the functions it triggers. A message reaches the      *)
(* dispatchers of a namespace's gateways by several ways: the hook of the  *)
(* HTTP publish handler, every libp2p subscription, and for the publish of *)
(* a function DispatchLocalPublish. Each Dispatch claims the message in a  *)
(* bounded local cache and then in Olric, and invokes the functions whose  *)
(* trigger matches.                                                        *)
(*                                                                         *)
(* One topic; a literal trigger names it, a wildcard matches it. A message *)
(* is one publish with a payload of its own. What TopicSubscriptions       *)
(* describes is here a number of handlers that changes at any time. Claims *)
(* last for 30 seconds, which is taken to outlast the delivery of a        *)
(* message. Aggregation and the depth of recursive publishes are left out. *)
(***************************************************************************)
EXTENDS Integers, FiniteSets

CONSTANTS Gateways, Messages,
          MaxHandlers, \* bound: handlers of the dispatcher on a subscription
          DedupSize,   \* localDedupMaxEntries (4096 in the code)
          MaxChanges,  \* bound: changes of triggers and subscriptions
          MaxFailures  \* bound: failed queries and claims

ASSUME TriggerDispatchAssumption ==
    /\ IsFiniteSet(Gateways) /\ IsFiniteSet(Messages) /\ DedupSize \in Nat \ {0}
    /\ {MaxHandlers, MaxChanges, MaxFailures} \subseteq Nat

VARIABLES
    triggers,  \* the rows of function_pubsub_triggers
    handlers,  \* per gateway, the dispatcher's handlers on the subscription
    published, \* how and where a message was published
    outbox,    \* HTTP publishes not yet sent to libp2p
    net,       \* messages on their way to a subscription
    loop,      \* the message goroutine of a subscription
    calls,     \* the Dispatch and DispatchLocalPublish calls that run
    seen,      \* localDedup
    claims,    \* the claims in Olric
    fired,     \* history: invocations
    mishaps,   \* history: what went wrong for a message
    changes, failures

envVars == <<triggers, handlers, changes>>
messageVars == <<published, outbox, net, loop>>
dispatchVars == <<calls, seen, claims, fired, mishaps>>
triggerVars == <<envVars, messageVars, dispatchVars, failures>>

Triggers == {"literal", "wildcard"}
Idle == [msg |-> "none", left |-> 0]

DispatchInit ==
    /\ triggers \in SUBSET Triggers
    /\ handlers \in [Gateways -> IF "literal" \in triggers THEN 0 .. MaxHandlers ELSE {0}]
    /\ published = [m \in Messages |-> <<"no">>]
    /\ outbox = {} /\ net = {} /\ calls = {} /\ claims = {}
    /\ loop = [g \in Gateways |-> Idle]
    /\ seen = [g \in Gateways |-> {}]
    /\ fired = [m \in Messages |-> [t \in Triggers |-> [g \in Gateways |-> 0]]]
    /\ mishaps = [m \in Messages |-> {}]
    /\ changes = 0 /\ failures = 0

Fails == failures < MaxFailures /\ failures' = failures + 1

-----------------------------------------------------------------------------
(* Triggers and subscriptions change. *)

ChangeTrigger(t) ==
    /\ changes < MaxChanges
    /\ triggers' = IF t \in triggers THEN triggers \ {t} ELSE triggers \cup {t}
    /\ changes' = changes + 1
    /\ UNCHANGED <<handlers, messageVars, dispatchVars, failures>>

\* A cancelled subscription takes its messages along.
Resubscribe(g, n) ==
    /\ changes < MaxChanges /\ n # handlers[g]
    /\ handlers' = [handlers EXCEPT ![g] = n]
    /\ net' = IF n = 0 THEN {d \in net : d[1] # g} ELSE net
    /\ changes' = changes + 1
    /\ UNCHANGED <<triggers, published, outbox, loop, dispatchVars, failures>>

-----------------------------------------------------------------------------
(* Publishing. *)

Call(g, m, from, at) == [gw |-> g, msg |-> m, from |-> from, at |-> at]
Receivers(m) == {g \in Gateways : handlers[g] > 0} \X {m}

\* PublishHandler: the hook dispatches at once, libp2p follows.
PublishHTTP(g, m) ==
    /\ published[m] = <<"no">>
    /\ published' = [published EXCEPT ![m] = <<"http", g>>]
    /\ calls' = calls \cup {Call(g, m, "http", "claim")}
    /\ outbox' = outbox \cup {m}
    /\ UNCHANGED <<envVars, net, loop, seen, claims, fired, mishaps, failures>>

\* The publish to libp2p may fail, which is only logged.
Transmit(m) ==
    /\ outbox' = outbox \ {m}
    /\ \/ net' = net \cup Receivers(m) /\ UNCHANGED failures
       \/ Fails /\ UNCHANGED net
    /\ UNCHANGED <<envVars, published, loop, dispatchVars>>

\* PubSubPublish of a function: libp2p, then DispatchLocalPublish.
PublishWASM(g, m) ==
    /\ published[m] = <<"no">>
    /\ published' = [published EXCEPT ![m] = <<"wasm", g>>]
    /\ net' = net \cup Receivers(m)
    /\ calls' = calls \cup {Call(g, m, "wasm", "match")}
    /\ UNCHANGED <<envVars, outbox, loop, seen, claims, fired, mishaps, failures>>

\* libp2p gives no guarantee to the subscribers of other gateways.
Lose(d) ==
    /\ published[d[2]][2] # d[1]
    /\ net' = net \ {d}
    /\ UNCHANGED <<envVars, published, outbox, loop, dispatchVars, failures>>

\* The goroutine of a subscription takes a message for all handlers, and
\* calls them one after the other.
Receive(d) ==
    /\ loop[d[1]] = Idle
    /\ net' = net \ {d}
    /\ loop' = [loop EXCEPT ![d[1]] = [msg |-> d[2], left |-> handlers[d[1]]]]
    /\ UNCHANGED <<envVars, published, outbox, dispatchVars, failures>>

CallHandler(g) ==
    /\ loop[g].left > 0 /\ ~\E c \in calls : c.gw = g /\ c.from = "libp2p"
    /\ calls' = calls \cup {Call(g, loop[g].msg, "libp2p", "claim")}
    /\ loop' = [loop EXCEPT ![g] = IF @.left = 1 THEN Idle ELSE [@ EXCEPT !.left = loop[g].left - 1]]
    /\ UNCHANGED <<envVars, published, outbox, net, seen, claims, fired, mishaps, failures>>

-----------------------------------------------------------------------------
(* PubSubDispatcher.Dispatch. *)

Moves(c, at) == calls' = (calls \ {c}) \cup {[c EXCEPT !.at = at]}
Ends(c) == calls' = calls \ {c}
Mishap(c, what) == mishaps' = [mishaps EXCEPT ![c.msg] = @ \cup {what}]

\* Mutant: no bound.
LocalClaimUnbounded(c) ==
    /\ c.at = "claim"
    /\ IF c.msg \in seen[c.gw] THEN Ends(c) ELSE Moves(c, "olric")
    /\ seen' = [seen EXCEPT ![c.gw] = @ \cup {c.msg}]
    /\ UNCHANGED <<envVars, messageVars, claims, fired, mishaps, failures>>

\* Mutant: no local claim.
LocalClaimAlways(c) ==
    /\ c.at = "claim"
    /\ Moves(c, "olric")
    /\ UNCHANGED <<envVars, messageVars, seen, claims, fired, mishaps, failures>>

\* localDedupCache.claim: a full cache lets the message pass.
LocalClaim(c) ==
    /\ c.at = "claim"
    /\ IF c.msg \in seen[c.gw]
       THEN Ends(c) /\ UNCHANGED <<seen, mishaps>>
       ELSE /\ Moves(c, "olric")
            /\ IF Cardinality(seen[c.gw]) >= DedupSize
               THEN Mishap(c, "full") /\ UNCHANGED seen
               ELSE seen' = [seen EXCEPT ![c.gw] = @ \cup {c.msg}] /\ UNCHANGED mishaps
    /\ UNCHANGED <<envVars, messageVars, claims, fired, failures>>

\* Mutant: Put without NX.
ClaimWithoutNX(c) ==
    /\ c.at = "olric"
    /\ claims' = claims \cup {c.msg} /\ Moves(c, "match")
    /\ UNCHANGED <<envVars, messageVars, seen, fired, mishaps, failures>>

\* Mutant: a claim that fails ends the call.
ClaimFailsClosed(c) ==
    /\ c.at = "olric"
    /\ \/ /\ c.msg \notin claims
          /\ claims' = claims \cup {c.msg} /\ Moves(c, "match")
          /\ UNCHANGED <<mishaps, failures>>
       \/ /\ c.msg \in claims /\ Ends(c)
          /\ UNCHANGED <<claims, mishaps, failures>>
       \/ /\ Fails /\ Mishap(c, "olric") /\ Ends(c)
          /\ claims' \in {claims, claims \cup {c.msg}}
    /\ UNCHANGED <<envVars, messageVars, seen, fired>>

\* claimDispatch: a Put that fails, applied or not, lets the message pass.
ClaimDispatch(c) ==
    /\ c.at = "olric"
    /\ \/ /\ c.msg \notin claims
          /\ claims' = claims \cup {c.msg} /\ Moves(c, "match")
          /\ UNCHANGED <<mishaps, failures>>
       \/ /\ c.msg \in claims /\ Ends(c)
          /\ UNCHANGED <<claims, mishaps, failures>>
       \/ /\ Fails /\ Mishap(c, "olric") /\ Moves(c, "match")
          /\ claims' \in {claims, claims \cup {c.msg}}
    /\ UNCHANGED <<envVars, messageVars, seen, fired>>

\* DispatchLocalPublish leaves the literal match to libp2p.
Matches(c) == IF c.from = "wasm" THEN triggers \ {"literal"} ELSE triggers

\* getMatches and the invocations.
Invoke(c) ==
    /\ c.at = "match" /\ Ends(c)
    /\ \/ /\ fired' = [fired EXCEPT ![c.msg] = [t \in Triggers |-> [g \in Gateways |->
                           IF t \in Matches(c) /\ g = c.gw THEN @[t][g] + 1 ELSE @[t][g]]]]
          /\ UNCHANGED <<mishaps, failures>>
       \/ Fails /\ Mishap(c, "lookup") /\ UNCHANGED fired
    /\ UNCHANGED <<envVars, messageVars, seen, claims>>

Dispatch(c) == LocalClaim(c) \/ ClaimDispatch(c) \/ Invoke(c)

Runs(g) ==
    \/ \E c \in calls : c.gw = g /\ Dispatch(c)
    \/ \E d \in net : d[1] = g /\ Receive(d)
    \/ CallHandler(g)

DispatchNext ==
    \/ \E g \in Gateways : Runs(g)
    \/ \E g \in Gateways, m \in Messages : PublishHTTP(g, m) \/ PublishWASM(g, m)
    \/ \E m \in outbox : Transmit(m)
    \/ \E d \in net : Lose(d)
    \/ \E t \in Triggers : ChangeTrigger(t)
    \/ \E g \in Gateways, n \in 0 .. MaxHandlers : Resubscribe(g, n)

DispatchSpec == DispatchInit /\ [][DispatchNext]_triggerVars

\* The goroutines of every gateway run on.
FairDispatchSpec == DispatchSpec /\ \A g \in Gateways : WF_triggerVars(Runs(g))

-----------------------------------------------------------------------------
(* Properties. *)

\* Every variable has its type (PubSubDispatcher, localDedupCache).
DispatchTypeOK ==
    /\ triggers \subseteq Triggers /\ handlers \in [Gateways -> 0 .. MaxHandlers]
    /\ \A m \in Messages : published[m] \in {<<"no">>} \cup ({"http", "wasm"} \X Gateways)
    /\ net \subseteq Gateways \X Messages /\ outbox \subseteq Messages
    /\ \A g \in Gateways : loop[g].left \in 0 .. MaxHandlers
    /\ \A c \in calls : c.at \in {"claim", "olric", "match"} /\ c.msg \in Messages
    /\ seen \in [Gateways -> SUBSET Messages] /\ claims \subseteq Messages
    /\ \A g \in Gateways : Cardinality(seen[g]) <= DedupSize
    /\ mishaps \in [Messages -> SUBSET {"full", "olric", "lookup"}]

\* The triggers a message invokes once: a function's publish invokes wildcards
\* on its gateway besides.
Counted(m) == IF published[m][1] = "wasm" THEN {"literal"} ELSE Triggers

\* The invocations of a trigger by a message, on all gateways.
Fired(m, t) == UNION {{g} \X (1 .. fired[m][t][g]) : g \in Gateways}

\* "The trigger fires once cluster-wide instead of once per gateway node",
\* though every gateway gets the message, the publisher twice, and a full local
\* cache lets all of them pass: as long as Olric answers.
OncePerPublish ==
    \A m \in Messages : "olric" \notin mishaps[m] =>
        \A t \in Counted(m) : Cardinality(Fired(m, t)) <= 1

\* "A SINGLE node never invokes the same publish twice, regardless of Olric
\* health", also when a subscription calls the dispatcher's handler twice; a
\* full cache is the exception.
OncePerGateway ==
    \A m \in Messages : "full" \notin mishaps[m] =>
        \A t \in Counted(m), g \in Gateways : fired[m][t][g] <= 1

\* The HTTP publish of a message is at its first claim, and nobody has won it.
Unclaimed(m) ==
    /\ \E c \in calls : c.msg = m /\ c.from = "http" /\ c.at = "claim"
    /\ m \notin claims /\ "olric" \notin mishaps[m]

\* Claims drop no HTTP publish, whoever wins them: "a rare duplicate dispatch is
\* far better than silently dropping a wake-up". Somebody invokes the functions
\* whose triggers exist, unless the winner cannot read the triggers.
NotDropped ==
    \A m \in Messages, t \in Triggers :
        Unclaimed(m) /\ t \in triggers
            ~> Fired(m, t) # {} \/ t \notin triggers \/ "lookup" \in mishaps[m]

\* "Concrete-match rows are filtered out so we never double-invoke": without
\* mishaps a publish invokes a function once, a wildcard's function too.
NeverDoubleInvoke ==
    \A m \in Messages : mishaps[m] = {} => \A t \in Triggers : Cardinality(Fired(m, t)) <= 1
=============================================================================
