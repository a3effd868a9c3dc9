------------------------- MODULE MCTriggerDispatch -------------------------
(* TriggerDispatch with two gateways and two messages. *)
EXTENDS TriggerDispatch

CONSTANTS g1, g2, m1, m2

\* The second message is there to fill the cache of its gateway: libp2p does
\* not get it, and besides nothing changes or fails.
Tame ==
    published[m2] # <<"no">> =>
        published[m2][1] = "http" /\ m2 \in outbox /\ changes + failures = 0
=============================================================================
