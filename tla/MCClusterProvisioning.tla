----------------------- MODULE MCClusterProvisioning -----------------------
(* ClusterProvisioning for two nodes that make up every cluster. *)
EXTENDS ClusterProvisioning

\* Bounds: two tasks overlap at a time, and no fault is added to an overlap.
Tasks == Cardinality(JobsLive)
         + Cardinality({n \in Nodes : dep[n].pc # "idle"})
         + Cardinality({n \in Nodes : restore[n].pc # "idle"})
         + Cardinality({n \in Nodes : req[n].pc # "idle"})
Tame == Tasks <= 2 /\ (calm \/ failures + crashes = 0)
=============================================================================
