----------------------------- MODULE PortLedger -----------------------------
(***************************************************************************)
(* What the namespace port allocator promises, whatever its calls do: a    *)
(* ledger of port blocks in which a block is granted only while it is free *)
(* on the node and the cluster has none there, one at a time, and which    *)
(* otherwise only loses rows.                                              *)
(***************************************************************************)
EXTENDS Integers

CONSTANTS Nodes, Clusters, Blocks

VARIABLE table

Rows == [node : Nodes, cluster : Clusters, block : Blocks]

Init == table = {}

Grant(row) ==
    /\ \A r \in table : r.node = row.node =>
          r.block # row.block /\ r.cluster # row.cluster
    /\ table' = table \cup {row}

\* A release gives up blocks of one cluster: on one node, or everywhere.
Release(c) ==
    /\ table' \subseteq table
    /\ \A r \in table \ table' : r.cluster = c

Next == \/ \E row \in Rows : Grant(row)
        \/ \E c \in Clusters : Release(c)

Spec == Init /\ [][Next]_table
=============================================================================
