---------------------------- MODULE MCSuspectDNS ----------------------------
(* SuspectDNS for two nodes a and b and two namespaces x and y. *)
EXTENDS SuspectDNS, TLC

CONSTANTS m1, m2, a, b, x, y

\* Namespace x has two nodes, y only node a.
TwoAndOne == (x :> {a, b}) @@ (y :> {a})

\* Both namespaces have both nodes.
AllOnBoth == (x :> {a, b}) @@ (y :> {a, b})

\* Two suspicions, of one node or of two, by one monitor or by two, one of them
\* perhaps forgotten.
Twice == flaps[m1][a] + flaps[m1][b] + flaps[m2][a] + flaps[m2][b] <= 2
=============================================================================
