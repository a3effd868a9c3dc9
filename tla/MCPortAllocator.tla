-------------------------- MODULE MCPortAllocator --------------------------
(* PortAllocator on small instances: one node, as every host of production *)
(* has, and two nodes on one host, as in a development setup.              *)
EXTENDS PortAllocator, TLC

CONSTANTS n1, n2, h1, h2

SingleNode == n1 :> h1
OneHost    == (n1 :> h1) @@ (n2 :> h1)

\* The properties name no call and no cluster.
Symmetry == Permutations(Calls) \cup Permutations(Clusters)
=============================================================================
