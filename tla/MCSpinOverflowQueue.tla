------------------------- MODULE MCSpinOverflowQueue -------------------------
(* SpinOverflowQueue for TLC.  There are two threads with lanes and two       *)
(* without, of which any three, but not all four, call enqueue: the states of *)
(* two lanes that disagree while the list changes, and of two threads that    *)
(* exchange and link in turn.                                                 *)
EXTENDS SpinOverflowQueue, FiniteSets

\* The threads that have called enqueue.
Callers == {t \in Threads : pc[t] # "idle" \/ write_head_[t] > 0}

ThreeCall == Cardinality(Callers') <= 3
=============================================================================
