----------------------------- MODULE LinkedList -----------------------------
(***************************************************************************)
(* What a loop over a linked list visits: the list of extra_nodes of the   *)
(* overflow queues, and the list of node_buffers of a lane.                *)
(***************************************************************************)
EXTENDS Integers, FiniteSets

\* The nodes from x on along next, a function on the nodes, up to null: those
\* that can be reached in as many steps as there are nodes.
Reachable(next, null, x) ==
  LET reach[k \in 0..Cardinality(DOMAIN next)] ==
        IF k = 0 THEN {x} \ {null}
        ELSE LET nearer == reach[k - 1]
             IN  nearer \cup ({next[y] : y \in nearer} \ {null})
  IN  reach[Cardinality(DOMAIN next)]
=============================================================================
