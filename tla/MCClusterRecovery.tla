------------------------- MODULE MCClusterRecovery -------------------------
(* ClusterRecovery for two members of three nodes and for three of five. *)
EXTENDS ClusterRecovery, TLC

\* The nodes that are no members are alike, and so are the members.
Symmetry == Permutations(Members) \cup Permutations(Nodes \ Members)
              \cup Permutations(Procs)
=============================================================================
