------------------------------ MODULE MCWebRTC ------------------------------
(* WebRTC with bounds on what goes wrong at once. *)
EXTENDS WebRTC

Active == Cardinality({n \in Nodes : call[n] # NoCall})
          + Cardinality({n \in Nodes : restore[n] # NoRestore})

Overlaps == Cardinality(noise \cap {"overlap"})

\* Bounds: two tasks at a time, and one disturbance, or a repair and a crash.
Tame == /\ Active <= 2
        /\ failures + crashes + Overlaps <= 1 /\ failures + rewrites + Overlaps <= 1
=============================================================================
