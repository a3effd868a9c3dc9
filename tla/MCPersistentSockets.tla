------------------------ MODULE MCPersistentSockets ------------------------
(* PersistentSockets with two connections. The second sends no frames, and is *)
(* there only while the first has read at most one: what it shares with the   *)
(* first is the slots and the shutdown, not the channel.                      *)
EXTENDS PersistentSockets

CONSTANTS c1, c2

Tame ==
    /\ sent[c2] + identity[c2] = 0
    /\ sent[c1] > 1 => pc[c2] \in {"new", "gone"}
=============================================================================
