---------------------------- MODULE MCWaitBuffers ----------------------------
(* WaitBuffers for TLC.  Addresses are numbers, and interchangeable: new      *)
(* returns the lowest one that is free.                                       *)
EXTENDS WaitBuffers

TwoAndOne   == [t \in Threads |-> IF t = 0 THEN 2 ELSE 1]
ThreeAndOne == [t \in Threads |-> IF t = 0 THEN 3 ELSE 1]

LowestFirst == \A b \in live' \ live : \A c \in Buffers : c < b => c \in live

LowestInit == Init /\ \A t \in Threads : head[t] = t
LowestSpec == LowestInit /\ [][Next]_vars /\ WF_vars(Consumer)
=============================================================================
