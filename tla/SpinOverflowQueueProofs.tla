----------------------- MODULE SpinOverflowQueueProofs -----------------------
(***************************************************************************)
(* Proofs about SpinOverflowQueue, for any number of threads with a lane,  *)
(* of threads without one, and of elements.  What enqueue does to tickets  *)
(* and nodes is proved in SpinQueueProofs and what happens to the list in  *)
(* ExtraListProofs; here they meet, with what is the queue's own: scans    *)
(* that start with the list, why they end, and what nullopt means.         *)
(***************************************************************************)
EXTENDS SpinOverflowQueue, ExtraListProofs

SP == INSTANCE SpinQueueProofs WITH NumThreads <- LoopOver

\* The list is in an order that agrees with what was known at each ticket.
List == \E K, h, f : ListOrder(K, h, f) /\ Precedes(before, K, f)

\* The threads and the consumer are where the list's state says.
Status ==
  /\ \A t \in Linking : pc[t] = "loaded"
  /\ destroyed => ~scanning /\ \A t \in Threads : pc[t] = "idle"

\* Where the scan's minimum comes from: from the head of a lane that was scanned,
\* or from the list, and then it is put down to lane prev_index.  While it counts
\* as that of the list, the lanes scanned so far have nothing that precedes it.
Scan ==
  /\ min_count = kEmpty => min_index = -1
  /\ scanning =>
       /\ extra_next = unloaded => i = 0 /\ min_count = kEmpty
       /\ extra_next \in ExtraNodes => extra_next = next_[extra_head_]
       /\ min_count # kEmpty =>
            \/ min_index \in Bounded /\ min_index < i /\ min_count = S!HeadCount(min_index)
            \/ /\ min_index = prev_index
               /\ extra_next \in ExtraNodes /\ min_count = CountOf(extra_next)
       /\ min_index = -2 =>
            \A u \in Bounded :
              u < i => before[extra_next[1]][extra_next[2]][u] <= read_head_[u]

\* Every lane given up in this dequeue has its head behind that of lane
\* prev_index, and a scan past prev_index stays with that lane or is ahead of it.
GivenUp ==
  scanning =>
    /\ prev_index \in tried
    /\ prev_index = -2 => tried = {-2}
    /\ prev_index = -1 => tried = {-1, -2}
    /\ \A t \in Bounded : t \in tried =>
         /\ S!HeadCount(t) # kEmpty
         /\ t # prev_index => prev_index \in Bounded /\ SP!Ahead(prev_index, t)
    /\ prev_index \in Bounded /\ prev_index < i =>
         /\ min_count # kEmpty /\ min_index \in Bounded
         /\ \/ min_index = prev_index /\ min_count <= S!HeadCount(prev_index)
            \/ SP!Ahead(min_index, prev_index)

\* What this dequeue has not found was not there when it was called: in the list,
\* or in the lanes scanned so far, or in any once a whole scan has found nothing.
Nothing ==
  /\ \A t \in Threads : atCall[t] <= S!Completed[t]
  /\ scanning =>
       /\ reachable => next_[extra_head_] # nullptr
       /\ extra_next = nullptr => ~reachable
       /\ prev_index = -1 => ~reachable /\ \A u \in Bounded : atCall[u] <= read_head_[u]
       /\ min_count = kEmpty =>
            /\ extra_next \notin ExtraNodes
            /\ \A u \in Bounded : u < i => atCall[u] <= read_head_[u]

IInv ==
  /\ TypeOK /\ IndexTypes /\ SP!Lanes /\ List /\ Status
  /\ Scan /\ GivenUp /\ Nothing /\ ExtraInOrder

-----------------------------------------------------------------------------
(* The lanes, as in SpinQueue. *)

\* The names of SpinQueue, here and in its proofs.
LEMMA Names ==
  /\ S!Threads = Threads /\ SP!Threads = Threads
  /\ S!Slots = Slots /\ SP!Slots = Slots
  /\ LoopOver \in Nat /\ kEmpty \notin Nat
  /\ SP!Completed = S!Completed /\ SP!Completed' = S!Completed'
  /\ S!ProducerTypes <=> SP!ProducerTypes
  /\ S!HistoryTypes <=> SP!HistoryTypes
  /\ S!ProducerTypes' <=> SP!ProducerTypes'
  /\ S!HistoryTypes' <=> SP!HistoryTypes'
<1>1. /\ S!Threads = Threads /\ SP!Threads = Threads
      /\ S!Slots = Slots /\ SP!Slots = Slots /\ LoopOver \in Nat /\ kEmpty \notin Nat
  BY SizeAssumption, EmptyAssumption
     DEF S!Threads, SP!Threads, Threads, Bounded, Extra, LoopOver, S!Slots, SP!Slots, Slots
<1>2. SP!Completed = S!Completed /\ SP!Completed' = S!Completed'
  BY <1>1 DEF S!Completed, SP!Completed
<1>3. (S!ProducerTypes <=> SP!ProducerTypes) /\ (S!ProducerTypes' <=> SP!ProducerTypes')
  BY <1>1 DEF S!ProducerTypes, SP!ProducerTypes
<1>4. (S!HistoryTypes <=> SP!HistoryTypes) /\ (S!HistoryTypes' <=> SP!HistoryTypes')
  BY <1>1 DEF S!HistoryTypes, SP!HistoryTypes
<1> QED
  BY <1>1, <1>2, <1>3, <1>4

\* A step of enqueue is one of SpinQueue's, or the exchange, of which it knows
\* nothing.
LEMMA ProducerIs ==
  ASSUME NEW t \in Threads, Producer(t)
  PROVE  \/ S!LoadTicket(t) /\ SP!Producer(t) /\ ~destroyed /\ UNCHANGED others
         \/ S!Publish(t) /\ SP!Producer(t) /\ t \in Bounded /\ UNCHANGED others
         \/ S!Publish(t) /\ SP!Producer(t) /\ t \in Extra /\ LinkOld(t) /\ UNCHANGED reachable
         \/ S!Recheck(t) /\ SP!Producer(t) /\ UNCHANGED others
         \/ S!Raise(t) /\ SP!Producer(t) /\ UNCHANGED others
         \/ t \in Extra /\ pc[t] = "loaded" /\ Swap(t) /\ UNCHANGED <<spinVars, reachable>>
<1>1. /\ S!LoadTicket(t) => SP!LoadTicket(t)
      /\ S!Publish(t) => SP!Publish(t)
      /\ S!Recheck(t) => SP!Recheck(t)
      /\ S!Raise(t) => SP!Raise(t)
  BY Names
     DEF S!LoadTicket, SP!LoadTicket, S!Publish, SP!Publish, S!Recheck, SP!Recheck,
         S!Unraised, SP!Unraised, S!Raise, SP!Raise,
         S!localVars, SP!localVars, S!history, SP!history
<1> QED
  BY <1>1 DEF Producer, LoadTicket, Publish, Exchange, LinkExtra, Recheck, Raise, SP!Producer

\* What the lanes' invariant says of a node.
LEMMA LanesSay ==
  ASSUME TypeOK, SP!Lanes
  PROVE  /\ \A t \in Threads, n \in Slots : count_[t][n] # kEmpty <=> n < write_head_[t]
         /\ \A t \in Threads, n \in Slots : n < write_head_[t] => count_[t][n] \in Nat
         /\ \A t \in Threads : pc[t] = "loaded" => write_head_[t] < MaxItems
         /\ \A t, u \in Threads, n \in Slots :
              before[t][n][u] \in Nat /\ before[t][n][u] <= write_head_[u]
         /\ \A t, u \in Threads, n, m \in Slots :
              n < write_head_[t] /\ m < before[t][n][u] => count_[u][m] < count_[t][n]
         /\ \A u \in Threads : S!Completed[u] \in Nat /\ S!Completed[u] <= write_head_[u]
<1>0. SP!ProducerTypes /\ SP!HistoryTypes /\ SP!Threads = Threads /\ SP!Slots = Slots
  BY Names DEF TypeOK
<1>1. \A t \in Threads, n \in Slots : count_[t][n] # kEmpty <=> n < write_head_[t]
  BY <1>0 DEF SP!Lanes, SP!Published
<1>2. \A t \in Threads, n \in Slots : n < write_head_[t] => count_[t][n] \in Nat
  BY <1>0, <1>1 DEF SP!ProducerTypes
<1>3. \A t \in Threads : pc[t] = "loaded" => write_head_[t] < MaxItems
  BY <1>0 DEF SP!Lanes, SP!InCall
<1>4. \A u \in Threads :
        SP!Completed[u] \in Nat /\ SP!Completed[u] <= write_head_[u] /\ write_head_[u] \in Nat
  BY <1>0, Names, SP!CompletedBound, SizeAssumption
<1>5. ASSUME NEW t \in Threads, NEW u \in Threads, NEW n \in Slots
      PROVE  before[t][n][u] \in Nat /\ before[t][n][u] <= write_head_[u]
  <2>1. before[t][n][u] \in Nat
    BY <1>0, ListIndices DEF SP!HistoryTypes
  <2>2. before[t][n][u] <= SP!Completed[u]
    BY <1>0 DEF SP!Lanes, SP!Order
  <2> QED
    BY <1>4, <2>1, <2>2
<1>6. \A t, u \in Threads, n, m \in Slots :
        n < write_head_[t] /\ m < before[t][n][u] => count_[u][m] < count_[t][n]
  BY <1>0 DEF SP!Lanes, SP!Order
<1> QED
  BY <1>1, <1>2, <1>3, <1>4, <1>5, <1>6, Names

\* enqueue leaves the consumer's part alone, and what is published or noted.
LEMMA ProducerFrame ==
  ASSUME TypeOK, SP!Lanes, NEW t \in Threads, Producer(t)
  PROVE  /\ UNCHANGED <<read_head_, scanning, i, min_count, min_index, prev_index>>
         /\ UNCHANGED <<atCall, tried, reachable>>
         /\ UNCHANGED <<extra_head_, extra_next, endVars, deleted>>
         /\ \A u \in Threads : write_head_'[u] \in Nat /\ write_head_[u] <= write_head_'[u]
         /\ \A u \in Threads : S!Completed[u] <= S!Completed'[u] /\ S!Completed'[u] \in Nat
         /\ \A u \in Threads, n \in Slots : n < write_head_[u] =>
              count_'[u][n] = count_[u][n] /\ before'[u][n] = before[u][n]
<1>0. /\ SP!ProducerTypes /\ SP!HistoryTypes /\ SP!Threads = Threads /\ SP!Slots = Slots
      /\ LoopOver \in Nat /\ kEmpty \notin Nat /\ MaxItems \in Nat
  BY Names, SizeAssumption DEF TypeOK
<1>1. CASE SP!Producer(t) /\ (UNCHANGED others \/ (LinkOld(t) /\ UNCHANGED reachable))
  <2>1. /\ UNCHANGED <<read_head_, scanning, i, min_count, min_index, prev_index>>
        /\ UNCHANGED <<atCall, tried>>
        /\ \A u \in Threads : SP!Completed[u] <= SP!Completed'[u]
        /\ \A u \in Threads : write_head_[u] <= write_head_'[u]
        /\ \A u \in Threads : \A n \in Slots :
             count_[u][n] # kEmpty => count_'[u][n] = count_[u][n]
        /\ \A u \in Threads : \A n \in Slots :
             n < write_head_[u] => before'[u][n] = before[u][n]
    BY <1>0, <1>1, SP!ProducerFrame, SizeAssumption
  <2>2. UNCHANGED <<extra_head_, extra_next, endVars, deleted, reachable>>
    BY <1>1 DEF listVars, LinkOld, others
  <2>3. SP!ProducerTypes' /\ SP!Lanes'
    BY <1>0, <1>1, SP!ProducerKeepsLaneTypes, SP!ProducerKeepsLanes, SizeAssumption
  <2>4. \A u \in Threads : write_head_'[u] \in Nat
    BY <1>0, <2>3, ListIndices DEF SP!ProducerTypes
  <2>5. \A u \in Threads : SP!Completed'[u] \in Nat
    <3>1. \A u \in Threads : SP!Completed[u] \in Nat
      BY Names, LanesSay
    <3>2. \A u \in Threads :
            SP!Completed'[u] = SP!Completed[u] \/ SP!Completed'[u] = write_head_[u]
      BY <1>0, <1>1, SP!CompletedStep, SizeAssumption
    <3> QED
      BY <1>0, <3>1, <3>2, ListIndices DEF SP!ProducerTypes
  <2> QED
    BY <2>1, <2>2, <2>4, <2>5, LanesSay, Names
<1>2. CASE Swap(t) /\ UNCHANGED <<spinVars, reachable>>
  <2>1. UNCHANGED <<write_head_, pc, count_, before>>
    BY <1>2 DEF spinVars
  <2>2. S!Completed' = S!Completed
    BY <2>1 DEF S!Completed
  <2>3. \A u \in Threads : write_head_[u] \in Nat /\ S!Completed[u] \in Nat
    BY <1>0, LanesSay, ListIndices DEF SP!ProducerTypes
  <2> QED
    BY <1>2, <2>1, <2>2, <2>3 DEF Swap, spinVars
<1> QED
  BY <1>1, <1>2, ProducerIs

\* No step of enqueue breaks the lanes' invariant.
LEMMA ProducerKeepsLanes ==
  ASSUME TypeOK, SP!Lanes, NEW t \in Threads, Producer(t)
  PROVE  SP!Lanes' /\ S!ProducerTypes' /\ S!HistoryTypes'
<1>0. /\ SP!ProducerTypes /\ SP!HistoryTypes /\ SP!Threads = Threads /\ SP!Slots = Slots
      /\ LoopOver \in Nat /\ kEmpty \notin Nat /\ MaxItems \in Nat
  BY Names, SizeAssumption DEF TypeOK
<1>1. CASE SP!Producer(t)
  BY <1>0, <1>1, SP!ProducerKeepsLanes, SP!ProducerKeepsLaneTypes, Names
<1>2. CASE UNCHANGED spinVars
  <2>1. SP!Lanes'
    BY <1>2 DEF spinVars, SP!Lanes, SP!Published, SP!Tickets, SP!InCall, SP!Order, SP!Completed
  <2>2. SP!ProducerTypes' /\ SP!HistoryTypes'
    BY <1>0, <1>2 DEF spinVars, SP!ProducerTypes, SP!HistoryTypes
  <2> QED
    BY <2>1, <2>2, Names
<1> QED
  BY <1>1, <1>2, ProducerIs

\* A thread adds a node when it has room for one, and before the end.
LEMMA ProducerKeepsList ==
  ASSUME TypeOK, IndexTypes, SP!Lanes, List, Status, NEW t \in Threads, Producer(t)
  PROVE  List' /\ IndexTypes' /\ Status' /\ ListTypes'
<1>0. PICK K, h, f : ListOrder(K, h, f) /\ Precedes(before, K, f)
  BY DEF List
<1>1. /\ ListTypes /\ t \in Threads
      /\ pc \in [Threads -> {"idle", "loaded", "stored", "raise"}]
      /\ write_head_ \in [Threads -> Slots] /\ read_head_' = read_head_
      /\ \A u \in Linking : u \in Extra /\ u \in Threads
      /\ pc[t] = "loaded" => write_head_[t] < MaxItems
      /\ pc[t] # "idle" => ~destroyed
  BY Names, LanesSay, ProducerFrame, ListIndices
     DEF TypeOK, S!ProducerTypes, IndexTypes, Linking, Status
<1>2. CASE \/ S!LoadTicket(t) /\ ~destroyed /\ UNCHANGED listVars
           \/ S!Recheck(t) /\ UNCHANGED listVars
           \/ S!Raise(t) /\ UNCHANGED listVars
           \/ S!Publish(t) /\ t \in Bounded /\ UNCHANGED listVars
  <2>1. pc[t] \in {"idle", "loaded", "stored", "raise"} /\ ~destroyed
    BY <1>1, <1>2 DEF S!LoadTicket, S!Recheck, S!Raise, S!Publish
  <2>2. /\ \A u \in Extra : write_head_'[u] = write_head_[u]
        /\ \A u \in Linking : write_head_'[u] = write_head_[u]
        /\ UNCHANGED listVars
    <3>1. CASE S!Publish(t) /\ t \in Bounded
      BY <1>1, <1>2, <3>1, ListIndices DEF S!Publish
    <3> QED
      BY <1>1, <1>2, <3>1 DEF S!LoadTicket, S!Recheck, S!Raise
  <2>3. ListOrder(K, h, f)' /\ Linking' = Linking
    BY <1>0, <1>1, <2>1, <2>2, OtherStepKeepsList DEF listVars, endVars
  <2>4. Precedes(before, K, f)'
    <3> SUFFICES ASSUME NEW k \in 1..K, NEW u \in Extra, NEW m \in Slots,
                        m < before'[f[k][1]][f[k][2]][u]
                 PROVE  \E j \in 1..(k - 1) : f[j] = <<u, m>>
      BY DEF Precedes
    <3>1. CASE f[k][2] < write_head_[f[k][1]]
      <4>1. before'[f[k][1]][f[k][2]] = before[f[k][1]][f[k][2]]
        BY <1>0, <3>1, ProducerFrame, ListNodes DEF ListOrder
      <4> QED
        BY <1>0, <4>1 DEF Precedes
    <3>2. CASE ~(f[k][2] < write_head_[f[k][1]])
      <4>1. f[k][1] \in Linking
        BY <1>0, <3>2, ListNodes, AddedIs DEF ListOrder
      <4>2. pc[f[k][1]] = "loaded"
        BY <4>1 DEF Status
      <4>3. PICK v \in Linking : v = f[k][1]
        BY <4>1
      <4>4. before'[v] = before[v]
        <5>1. CASE S!LoadTicket(t)
          <6>1. v # t
            BY <4>2, <4>3, <5>1 DEF S!LoadTicket
          <6> QED
            BY <1>1, <5>1, <6>1, Names DEF S!LoadTicket, TypeOK, S!HistoryTypes
        <5> QED
          BY <1>2, <5>1 DEF S!Recheck, S!Raise, S!Publish, S!history
      <4> QED
        BY <1>0, <4>3, <4>4 DEF Precedes
    <3> QED
      BY <3>1, <3>2
  <2>5. \A u \in Linking : pc'[u] = "loaded"
    <3>1. t \notin Linking \/ pc[t] # "loaded" \/ t \in Bounded
      BY <1>2 DEF S!LoadTicket, S!Recheck, S!Raise
    <3>2. t \notin Linking
      BY <1>2, <3>1, ListIndices DEF Status, Linking, S!LoadTicket, S!Recheck, S!Raise
    <3> QED
      BY <1>1, <1>2, <3>2 DEF Status, S!LoadTicket, S!Recheck, S!Raise, S!Publish
  <2>6. ~destroyed'
    BY <2>1, <2>2 DEF listVars, endVars
  <2>7. IndexTypes'
    <3>1. S!ProducerTypes'
      BY ProducerKeepsLanes
    <3>2. write_head_' \in [Threads -> Slots]
      BY <3>1, Names DEF S!ProducerTypes
    <3>3. \A u \in Threads : read_head_[u] <= write_head_'[u]
      BY <1>1, ProducerFrame, ListIndices DEF IndexTypes
    <3> QED
      BY <1>1, <2>2, <2>3, <3>2, <3>3 DEF IndexTypes
  <2>8. ListTypes'
    BY <1>1, <2>2 DEF ListTypes, listVars, endVars
  <2> QED
    BY <2>3, <2>4, <2>5, <2>6, <2>7, <2>8 DEF List, Status
<1>3. CASE S!Publish(t) /\ t \in Extra /\ LinkOld(t)
  <2>1. pc[t] = "loaded" /\ write_head_' = [write_head_ EXCEPT ![t] = @ + 1] /\ before' = before
    BY <1>3 DEF S!Publish, S!history
  <2>2. ListOrder(K, h, f)' /\ IndexTypes' /\ Linking' = Linking \ {t}
    BY <1>0, <1>1, <1>3, <2>1, LinkKeepsList
  <2>3. ListTypes'
    BY <1>1, <1>3, <2>1, EnqueueKeepsListTypes
  <2>4. \A u \in Linking \ {t} : pc'[u] = "loaded"
    BY <1>1, <1>3 DEF Status, S!Publish
  <2>5. ~destroyed'
    BY <1>1, <1>3, <2>1 DEF LinkOld, endVars
  <2>6. Precedes(before, K, f)'
    BY <1>0, <2>1 DEF Precedes
  <2> QED
    BY <2>2, <2>3, <2>4, <2>5, <2>6 DEF List, Status
<1>4. CASE t \in Extra /\ pc[t] = "loaded" /\ Swap(t) /\ UNCHANGED spinVars
  <2>1. /\ UNCHANGED <<write_head_, read_head_, before, pc, scanning>>
        /\ write_head_[t] < MaxItems /\ write_head_[t] \in Slots /\ ~destroyed
    BY <1>1, <1>4 DEF spinVars
  <2>2. PICK x : x = NewNode(t)
    OBVIOUS
  <2>3. PICK g : g = [f EXCEPT ![K + 1] = x]
    OBVIOUS
  <2>4. ListOrder(K + 1, h, g)' /\ IndexTypes' /\ Linking' = Linking \cup {t}
    BY <1>0, <1>1, <1>4, <2>1, <2>2, <2>3, SwapKeepsList
  <2>5. Precedes(before, K + 1, g)
    <3>1. x = <<t, write_head_[t]>>
      BY <2>2 DEF NewNode
    <3>2. \A u \in Extra :
            /\ before[t][write_head_[t]][u] \in Nat
            /\ before[t][write_head_[t]][u] <= write_head_[u]
      BY <1>1, <2>1, LanesSay, ListIndices
    <3> QED
      BY <1>0, <1>4, <2>1, <2>3, <3>1, <3>2, SwapKeepsPrecedes
  <2>6. Precedes(before, K + 1, g)'
    BY <2>1, <2>5 DEF Precedes
  <2>7. ListTypes'
    BY <1>1, <1>4, <2>1, EnqueueKeepsListTypes
  <2>8. Status'
    BY <1>4, <2>1, <2>4 DEF Status, Swap, endVars
  <2> QED
    BY <2>4, <2>6, <2>7, <2>8 DEF List
<1> QED
  BY <1>2, <1>3, <1>4, ProducerIs DEF others

-----------------------------------------------------------------------------
(* What the consumer has found, while the producers go on. *)

\* The node the consumer has loaded is published and the next of its thread.
LEMMA NextPublished ==
  ASSUME TypeOK, IndexTypes, SP!Lanes, List, Status, Scan,
         scanning, extra_next \in ExtraNodes
  PROVE  /\ extra_next = next_[extra_head_] /\ extra_next # nullptr /\ ~destroyed
         /\ extra_next[1] \in Extra /\ extra_next[1] \in Threads /\ extra_next[2] \in Slots
         /\ extra_next[2] = read_head_[extra_next[1]]
         /\ extra_next[2] < write_head_[extra_next[1]]
         /\ CountOf(extra_next) \in Nat
<1>1. PICK K, h, f : ListOrder(K, h, f)
  BY DEF List
<1>2. extra_next = next_[extra_head_] /\ extra_next # nullptr /\ ~destroyed
  BY NodeIs DEF Scan, Status
<1>3. /\ extra_next[1] \in Extra
      /\ extra_next[2] = read_head_[extra_next[1]]
      /\ extra_next[2] < write_head_[extra_next[1]]
  BY <1>1, <1>2, NextIsUnread DEF TypeOK
<1>4. extra_next[1] \in Threads /\ extra_next[2] \in Slots
  BY <1>3, ListIndices DEF IndexTypes
<1> QED
  BY <1>1, <1>2, <1>3, <1>4, LanesSay DEF CountOf

\* A head is published iff the lane has an element that was not dequeued.
LEMMA HeadIs ==
  ASSUME TypeOK, IndexTypes, SP!Lanes, NEW u \in Threads
  PROVE  /\ S!HeadCount(u) # kEmpty <=> read_head_[u] < write_head_[u]
         /\ S!HeadCount(u) \in Nat \cup {kEmpty}
         /\ read_head_[u] \in Slots /\ read_head_[u] \in Nat /\ write_head_[u] \in Nat
         /\ read_head_[u] <= write_head_[u]
<1>1. /\ read_head_[u] \in Slots /\ read_head_[u] \in Nat /\ write_head_[u] \in Nat
      /\ read_head_[u] <= write_head_[u]
  BY ListIndices DEF IndexTypes
<1> QED
  BY <1>1, LanesSay DEF S!HeadCount

\* A published head stays as it is until it is dequeued.
LEMMA HeadKept ==
  ASSUME TypeOK, IndexTypes, SP!Lanes, NEW t \in Threads, Producer(t),
         NEW u \in Threads, S!HeadCount(u) # kEmpty
  PROVE  count_'[u][read_head_'[u]] = S!HeadCount(u)
BY HeadIs, ProducerFrame DEF S!HeadCount

\* What was linked behind the head of the list stays linked, and the node that the
\* consumer has loaded keeps its ticket and its history.
LEMMA NextKept ==
  ASSUME TypeOK, IndexTypes, SP!Lanes, List, Status, Scan, NEW t \in Threads, Producer(t)
  PROVE  /\ next_[extra_head_] # nullptr => next_'[extra_head_] = next_[extra_head_]
         /\ scanning /\ extra_next \in ExtraNodes =>
              /\ CountOf(extra_next)' = CountOf(extra_next)
              /\ before'[extra_next[1]][extra_next[2]] = before[extra_next[1]][extra_next[2]]
<1>1. ASSUME next_[extra_head_] # nullptr
      PROVE  next_'[extra_head_] = next_[extra_head_]
  <2>1. CASE LinkOld(t) /\ t \in Extra
    <3>1. t \in Linking
      BY <2>1 DEF LinkOld, Linking
    <3>2. next_[old[t]] = nullptr
      BY <3>1, LinkFromNull DEF List
    <3>3. old[t] # extra_head_
      BY <1>1, <3>2
    <3> QED
      BY <2>1, <3>3 DEF LinkOld, Linked, TypeOK, ListTypes
  <2> QED
    BY <2>1, ProducerIs DEF listVars, Swap, others
<1>2. ASSUME scanning, extra_next \in ExtraNodes
      PROVE  /\ CountOf(extra_next)' = CountOf(extra_next)
             /\ before'[extra_next[1]][extra_next[2]] = before[extra_next[1]][extra_next[2]]
  <2>1. /\ extra_next[1] \in Threads /\ extra_next[2] \in Slots
        /\ extra_next[2] < write_head_[extra_next[1]]
    BY <1>2, NextPublished
  <2>2. extra_next' = extra_next
    BY ProducerFrame
  <2> QED
    BY <2>1, <2>2, ProducerFrame DEF CountOf
<1> QED
  BY <1>1, <1>2

\* What the scan has established survives enqueue.
LEMMA ProducerKeepsScan ==
  ASSUME TypeOK, IndexTypes, SP!Lanes, List, Status, Scan, NEW t \in Threads, Producer(t)
  PROVE  Scan'
<1>0. /\ UNCHANGED <<read_head_, scanning, i, min_count, min_index, prev_index>>
      /\ UNCHANGED <<extra_head_, extra_next>> /\ \A u \in Bounded : u \in Threads
  BY ProducerFrame, ListIndices
<1> SUFFICES ASSUME scanning
             PROVE  /\ extra_next \in ExtraNodes => extra_next = next_'[extra_head_]
                    /\ min_count # kEmpty =>
                         \/ /\ min_index \in Bounded /\ min_index < i
                            /\ min_count = count_'[min_index][read_head_'[min_index]]
                         \/ /\ min_index = prev_index
                            /\ extra_next \in ExtraNodes /\ min_count = CountOf(extra_next)'
                    /\ min_index = -2 =>
                         \A u \in Bounded :
                           u < i => before'[extra_next[1]][extra_next[2]][u] <= read_head_[u]
  BY <1>0 DEF Scan, S!HeadCount
<1>1. ASSUME extra_next \in ExtraNodes
      PROVE  extra_next = next_'[extra_head_]
  BY <1>1, NextPublished, NextKept
<1>2. ASSUME min_count # kEmpty
      PROVE  \/ /\ min_index \in Bounded /\ min_index < i
                /\ min_count = count_'[min_index][read_head_'[min_index]]
             \/ /\ min_index = prev_index
                /\ extra_next \in ExtraNodes /\ min_count = CountOf(extra_next)'
  <2>1. CASE min_index \in Bounded /\ min_index < i /\ min_count = S!HeadCount(min_index)
    BY <1>0, <1>2, <2>1, HeadKept
  <2>2. CASE min_index = prev_index /\ extra_next \in ExtraNodes /\ min_count = CountOf(extra_next)
    BY <2>2, NextKept
  <2> QED
    BY <1>2, <2>1, <2>2 DEF Scan
<1>3. ASSUME min_index = -2, NEW u \in Bounded, u < i
      PROVE  before'[extra_next[1]][extra_next[2]][u] <= read_head_[u]
  <2>1. extra_next \in ExtraNodes
    <3>1. -2 \notin Bounded /\ min_index # -1
      BY <1>3 DEF Bounded
    <3> QED
      BY <1>3, <3>1 DEF Scan
  <2> QED
    BY <1>3, <2>1, NextKept DEF Scan
<1> QED
  BY <1>1, <1>2, <1>3

\* The lanes that were given up keep their heads.
LEMMA ProducerKeepsGivenUp ==
  ASSUME TypeOK, IndexTypes, SP!Lanes, Scan, GivenUp, NEW t \in Threads, Producer(t)
  PROVE  GivenUp'
<1>0. /\ UNCHANGED <<read_head_, scanning, i, min_count, min_index, prev_index, tried>>
      /\ \A u \in Bounded : u \in Threads
  BY ProducerFrame, ListIndices
<1> SUFFICES ASSUME scanning
             PROVE  GivenUp'
  BY <1>0 DEF GivenUp
<1>1. \A u \in Bounded : S!HeadCount(u) # kEmpty =>
        count_'[u][read_head_'[u]] = count_[u][read_head_[u]]
  BY <1>0, HeadKept DEF S!HeadCount
<1>2. /\ \A u \in Bounded : u \in tried =>
           count_[u][read_head_[u]] # kEmpty
      /\ prev_index \in Bounded => count_[prev_index][read_head_[prev_index]] # kEmpty
      /\ prev_index \in Bounded /\ prev_index < i =>
           min_index \in Bounded /\ count_[min_index][read_head_[min_index]] # kEmpty
  <2>1. prev_index \in tried /\ \A u \in Bounded : u \in tried => S!HeadCount(u) # kEmpty
    BY DEF GivenUp
  <2>2. prev_index \in Bounded /\ prev_index < i =>
          min_index \in Bounded /\ S!HeadCount(min_index) # kEmpty
    BY <2>1 DEF Scan, GivenUp
  <2> QED
    BY <2>1, <2>2 DEF S!HeadCount
<1> USE DEF SP!Ahead, S!HeadCount, SP!HeadCount
<1>3. /\ prev_index \in tried
      /\ prev_index = -2 => tried = {-2}
      /\ prev_index = -1 => tried = {-1, -2}
  BY DEF GivenUp
<1>4. ASSUME NEW u \in Bounded, u \in tried
      PROVE  /\ S!HeadCount(u)' # kEmpty
             /\ u # prev_index => prev_index \in Bounded /\ SP!Ahead(prev_index, u)'
  BY <1>0, <1>1, <1>2, <1>4 DEF GivenUp
<1>5. ASSUME prev_index \in Bounded, prev_index < i
      PROVE  /\ min_count # kEmpty /\ min_index \in Bounded
             /\ \/ min_index = prev_index /\ min_count <= S!HeadCount(prev_index)'
                \/ SP!Ahead(min_index, prev_index)'
  BY <1>0, <1>1, <1>2, <1>5 DEF GivenUp
<1> QED
  BY <1>0, <1>3, <1>4, <1>5 DEF GivenUp

\* Enqueues only return, and what was linked stays linked.
LEMMA ProducerKeepsNothing ==
  ASSUME TypeOK, IndexTypes, SP!Lanes, List, Status, Scan, Nothing, NEW t \in Threads, Producer(t)
  PROVE  Nothing'
<1>1. /\ UNCHANGED <<read_head_, scanning, i, min_count, min_index, prev_index>>
      /\ UNCHANGED <<atCall, reachable, extra_head_, extra_next>>
      /\ \A u \in Threads : S!Completed[u] <= S!Completed'[u] /\ S!Completed'[u] \in Nat
  BY ProducerFrame
<1>2. \A u \in Threads : S!Completed[u] \in Nat /\ atCall[u] \in Nat
  BY LanesSay, Names, ListIndices DEF TypeOK, S!HistoryTypes
<1>3. next_[extra_head_] # nullptr => next_'[extra_head_] # nullptr
  BY NextKept
<1>4. \A u \in Threads : atCall'[u] <= S!Completed'[u]
  BY <1>1, <1>2 DEF Nothing
<1> QED
  BY <1>1, <1>3, <1>4 DEF Nothing

\* What has been dequeued keeps its history.
LEMMA ProducerKeepsInOrder ==
  ASSUME TypeOK, IndexTypes, SP!Lanes, ExtraInOrder, NEW t \in Threads, Producer(t)
  PROVE  ExtraInOrder'
<1> SUFFICES ASSUME NEW a \in Extra, NEW n \in 0..(read_head_'[a] - 1), NEW u \in Threads
             PROVE  before'[a][n][u] <= read_head_'[u]
  BY DEF ExtraInOrder
<1>1. read_head_' = read_head_
  BY ProducerFrame
<1>2. /\ a \in Threads /\ n \in 0..(read_head_[a] - 1)
      /\ n \in Slots /\ n < write_head_[a]
  BY <1>1, ListIndices DEF IndexTypes, Slots
<1>3. before'[a][n] = before[a][n]
  BY <1>2, ProducerFrame
<1> QED
  BY <1>1, <1>2, <1>3 DEF ExtraInOrder

-----------------------------------------------------------------------------
(* The consumer. *)

\* What dequeue leaves alone.
LEMMA ConsumerFrame ==
  ASSUME Status, Consumer
  PROVE  /\ UNCHANGED <<up_to_, count_, write_head_, pc, cur, before>>
         /\ UNCHANGED <<next_, extra_tail_, old, destroyed, deconstructed>>
         /\ ~destroyed /\ S!Completed' = S!Completed
         /\ ~ReturnMin /\ ~ReturnExtra => UNCHANGED <<read_head_, extra_head_, deleted>>
<1> USE DEF S!producerVars, S!localVars, S!history, listVars, endVars, others, NewTurn
<1>1. /\ UNCHANGED <<up_to_, count_, write_head_, pc, cur, before>>
      /\ UNCHANGED <<next_, extra_tail_, old, destroyed, deconstructed>>
      /\ ~destroyed
      /\ ~ReturnMin /\ ~ReturnExtra => UNCHANGED <<read_head_, extra_head_, deleted>>
  <2>1. CASE BeginDequeue
    BY <2>1 DEF BeginDequeue, S!BeginDequeue
  <2>2. CASE LoadExtra
    BY <2>2 DEF LoadExtra, LoadNext, Status
  <2>3. CASE ScanLane
    BY <2>3 DEF ScanLane, Status
  <2>4. CASE Rescan
    BY <2>4 DEF Rescan, S!Rescan, S!ScanOver, Status
  <2>5. CASE ReturnEmpty
    BY <2>5 DEF ReturnEmpty, S!ReturnEmpty, S!ScanOver, Status
  <2>6. CASE ReturnMin
    BY <2>6 DEF ReturnMin, S!ReturnMin, S!ScanOver, Status
  <2>7. CASE ReturnExtra
    BY <2>7 DEF ReturnExtra, S!ScanOver, CutHead, Status
  <2> QED
    BY <2>1, <2>2, <2>3, <2>4, <2>5, <2>6, <2>7 DEF Consumer
<1>2. S!Completed' = S!Completed
  BY <1>1 DEF S!Completed
<1> QED
  BY <1>1, <1>2

\* dequeue changes nothing in the lanes.
LEMMA ConsumerKeepsLanes ==
  ASSUME TypeOK, SP!Lanes, Status, Consumer
  PROVE  SP!Lanes' /\ S!ProducerTypes' /\ S!HistoryTypes'
<1>1. UNCHANGED <<up_to_, count_, write_head_, pc, cur, before>>
  BY ConsumerFrame
<1>2. SP!Lanes'
  BY <1>1 DEF SP!Lanes, SP!Published, SP!Tickets, SP!InCall, SP!Order, SP!Completed
<1>3. S!ProducerTypes'
  BY <1>1 DEF TypeOK, S!ProducerTypes
<1>4. atCall' \in [Threads -> Slots]
  <2>1. S!Completed \in [Threads -> Slots]
    BY Names, SP!CompletedType, SizeAssumption DEF TypeOK
  <2>2. atCall' = atCall \/ atCall' = S!Completed
    BY DEF Consumer, BeginDequeue, S!BeginDequeue, LoadExtra, ScanLane, Rescan, S!Rescan,
       ReturnEmpty, S!ReturnEmpty, ReturnMin, S!ReturnMin, ReturnExtra, S!history
  <2> QED
    BY <2>1, <2>2, Names DEF TypeOK, S!HistoryTypes
<1>5. tried' \in SUBSET (Threads \cup {-1, -2})
  <2>1. tried \in SUBSET (Threads \cup {-1, -2}) /\ min_index \in Threads \cup {-1, -2}
    BY Names, ListIndices DEF TypeOK, S!HistoryTypes
  <2>2. tried' = tried \/ tried' = {-2} \/ tried' = tried \cup {min_index}
    BY DEF Consumer, BeginDequeue, S!BeginDequeue, LoadExtra, ScanLane, Rescan, S!Rescan,
       ReturnEmpty, S!ReturnEmpty, ReturnMin, S!ReturnMin, ReturnExtra, S!history
  <2> QED
    BY <2>1, <2>2
<1> QED
  BY <1>1, <1>2, <1>3, <1>4, <1>5, Names DEF TypeOK, S!HistoryTypes

\* A scan that ended on a lane ended on one with an element, also when it was the
\* list that put the minimum there.
LEMMA MinToRead ==
  ASSUME Scan, GivenUp, scanning, min_index \in Bounded
  PROVE  S!HeadCount(min_index) # kEmpty
<1>1. min_count # kEmpty
  BY SizeAssumption DEF Scan, Bounded
<1> QED
  BY <1>1 DEF Scan, GivenUp

\* What ReturnMin and ReturnExtra dequeue, and from which thread.
LEMMA ReturnIs ==
  ASSUME TypeOK, IndexTypes, SP!Lanes, List, Status, Scan, GivenUp, ReturnMin \/ ReturnExtra
  PROVE  /\ scanning /\ scanning' = FALSE
         /\ UNCHANGED <<i, min_count, min_index, prev_index, reachable, atCall>>
         /\ \E v \in Threads :
              /\ read_head_' = [read_head_ EXCEPT ![v] = @ + 1]
              /\ read_head_[v] < write_head_[v]
              /\ \/ ReturnMin /\ v \in Bounded /\ v = min_index /\ UNCHANGED listVars
                 \/ ReturnExtra /\ v \in Extra /\ extra_next \in ExtraNodes
                    /\ CutHead /\ v = extra_next[1] /\ min_index = -2 /\ i = LoopOver
<1>1. /\ scanning /\ scanning' = FALSE
      /\ UNCHANGED <<i, min_count, min_index, prev_index, reachable, atCall>>
  BY DEF ReturnMin, S!ReturnMin, ReturnExtra, S!ScanOver, S!localVars, S!history, others
<1>2. CASE ReturnMin
  <2>1. min_index \in Bounded
    BY <1>2 DEF ReturnMin, TypeOK
  <2>2. min_index \in Threads /\ read_head_[min_index] < write_head_[min_index]
    BY <1>1, <2>1, ListIndices, HeadIs, MinToRead
  <2> QED
    BY <1>1, <1>2, <2>1, <2>2 DEF ReturnMin, S!ReturnMin, others
<1>3. CASE ReturnExtra
  <2>1. min_index = -2 /\ i = LoopOver /\ CutHead
    BY <1>3 DEF ReturnExtra, S!ScanOver
  <2>2. extra_next \in ExtraNodes
    BY <1>1, <2>1, SizeAssumption DEF Scan, Bounded
  <2>3. /\ extra_next[1] \in Extra /\ extra_next[1] \in Threads
        /\ read_head_[extra_next[1]] < write_head_[extra_next[1]]
    BY <1>1, <2>2, NextPublished
  <2> QED
    BY <1>1, <1>3, <2>1, <2>2, <2>3 DEF CutHead
<1> QED
  BY <1>2, <1>3

\* dequeue keeps the list in order, and cuts it behind the node it returns.
LEMMA ConsumerKeepsList ==
  ASSUME TypeOK, IndexTypes, SP!Lanes, List, Status, Scan, GivenUp, Consumer
  PROVE  List' /\ IndexTypes' /\ Status' /\ ListTypes'
<1>0. PICK K, h, f : ListOrder(K, h, f) /\ Precedes(before, K, f)
  BY DEF List
<1>1. /\ UNCHANGED <<up_to_, count_, write_head_, pc, cur, before>>
      /\ UNCHANGED <<next_, extra_tail_, old, destroyed, deconstructed>>
      /\ ~destroyed /\ ListTypes
  BY ConsumerFrame DEF TypeOK
<1>2. Precedes(before, K, f)'
  BY <1>0, <1>1 DEF Precedes
<1>3. Linking' = Linking
  BY <1>1 DEF Linking
<1>4. Status'
  BY <1>1, <1>3 DEF Status
<1>5. CASE ReturnMin
  <2>1. PICK v \in Bounded :
          /\ read_head_' = [read_head_ EXCEPT ![v] = @ + 1] /\ read_head_[v] < write_head_[v]
          /\ UNCHANGED listVars /\ v \in Threads
    BY <1>5, ReturnIs, ListIndices DEF ReturnExtra, ReturnMin
  <2>2. /\ \A u \in Threads : read_head_'[u] = IF u = v THEN read_head_[u] + 1 ELSE read_head_[u]
        /\ \A u \in Threads : read_head_[u] \in Nat /\ write_head_[u] \in Nat
        /\ read_head_[v] + 1 \in Slots
    <3>1. write_head_[v] \in Slots /\ read_head_[v] \in Slots
      BY <2>1 DEF IndexTypes
    <3> QED
      BY <2>1, <3>1, ListIndices DEF IndexTypes
  <2>3. ListOrder(K, h, f)'
    <3>1. \A u \in Extra : read_head_'[u] = read_head_[u]
      BY <2>1, <2>2, ListIndices
    <3> QED
      BY <1>0, <1>1, <2>1, <3>1, OtherStepKeepsList DEF listVars, endVars
  <2>4. IndexTypes'
    BY <1>1, <1>3, <2>1, <2>2 DEF IndexTypes
  <2>5. ListTypes'
    BY <1>1, <2>1 DEF ListTypes, listVars, endVars
  <2> QED
    BY <1>2, <1>4, <2>3, <2>4, <2>5 DEF List
<1>6. CASE ReturnExtra
  <2>1. /\ extra_next \in ExtraNodes /\ CutHead /\ scanning
    <3>1. ~ReturnMin
      BY <1>6 DEF ReturnExtra, ReturnMin
    <3> QED
      BY <1>6, <3>1, ReturnIs
  <2>2. extra_next = next_[extra_head_] /\ extra_next # nullptr
    BY <2>1, NextPublished
  <2>3. ListOrder(K, h + 1, f)' /\ IndexTypes'
    BY <1>0, <1>1, <2>1, <2>2, CutKeepsList
  <2>4. ListTypes'
    BY <1>0, <1>1, <2>1, DequeueKeepsListTypes
  <2> QED
    BY <1>2, <1>4, <2>3, <2>4 DEF List
<1>7. CASE ~ReturnMin /\ ~ReturnExtra
  <2>1. UNCHANGED <<read_head_, extra_head_, deleted>>
    BY <1>7, ConsumerFrame
  <2>2. ListOrder(K, h, f)'
    BY <1>0, <1>1, <2>1, OtherStepKeepsList
  <2>3. IndexTypes'
    BY <1>1, <1>3, <2>1 DEF IndexTypes
  <2>4. NewTurn \/ LoadNext \/ UNCHANGED listVars
    BY <1>7 DEF Consumer, BeginDequeue, LoadExtra, ScanLane, Rescan, ReturnEmpty, others
  <2>5. ListTypes'
    <3>1. CASE NewTurn \/ LoadNext
      BY <1>0, <1>1, <3>1, DequeueKeepsListTypes
    <3>2. CASE UNCHANGED listVars
      BY <1>1, <3>2 DEF ListTypes, listVars, endVars
    <3> QED
      BY <2>4, <3>1, <3>2
  <2> QED
    BY <1>2, <1>4, <2>2, <2>3, <2>5 DEF List
<1> QED
  BY <1>5, <1>6, <1>7

\* The element of the list that is dequeued has nothing before it in the list nor,
\* as the scan has found, in the lanes.
LEMMA ConsumerKeepsInOrder ==
  ASSUME TypeOK, IndexTypes, SP!Lanes, List, Status, Scan, GivenUp, ExtraInOrder,
         Consumer
  PROVE  ExtraInOrder'
<1>1. before' = before
  BY ConsumerFrame
<1>2. CASE ~ReturnMin /\ ~ReturnExtra
  <2>1. read_head_' = read_head_
    BY <1>2, ConsumerFrame
  <2> QED
    BY <1>1, <2>1 DEF ExtraInOrder
<1>3. CASE ReturnMin \/ ReturnExtra
  <2>1. PICK v \in Threads :
          /\ read_head_' = [read_head_ EXCEPT ![v] = @ + 1]
          /\ \/ v \in Bounded
             \/ /\ v \in Extra /\ extra_next \in ExtraNodes
                /\ v = extra_next[1] /\ min_index = -2 /\ i = LoopOver
    BY <1>3, ReturnIs
  <2>2. scanning /\ ~destroyed
    BY <1>3, ReturnIs, ConsumerFrame
  <2>3. /\ \A u \in Threads : read_head_[u] \in Nat /\ read_head_'[u] \in Nat
        /\ \A u \in Threads : read_head_[u] <= read_head_'[u]
        /\ \A u \in Threads : u # v => read_head_'[u] = read_head_[u]
        /\ read_head_'[v] = read_head_[v] + 1
    BY <2>1, ListIndices DEF IndexTypes
  <2>4. ASSUME NEW a \in Extra, NEW n \in 0..(read_head_'[a] - 1), NEW u \in Threads
        PROVE  before[a][n][u] <= read_head_'[u]
    <3>0. a \in Threads /\ n \in Nat /\ before[a][n][u] \in Nat
      <4>1. a \in Threads /\ n \in Nat /\ read_head_'[a] \in Slots
        BY <2>4, ListIndices, ConsumerKeepsList DEF IndexTypes
      <4>2. n \in Slots
        BY <4>1, ListIndices, <2>4 DEF Slots
      <4> QED
        BY <4>1, <4>2, LanesSay
    <3>1. CASE n < read_head_[a]
      <4>1. before[a][n][u] <= read_head_[u]
        BY <2>3, <3>0, <3>1 DEF ExtraInOrder
      <4> QED
        BY <2>3, <3>0, <4>1
    <3>2. CASE ~(n < read_head_[a])
      <4>1. a = v /\ n = read_head_[a]
        BY <2>3, <3>0, <3>2
      <4>2. /\ extra_next \in ExtraNodes /\ extra_next[1] = a /\ extra_next[2] = n
            /\ min_index = -2 /\ i = LoopOver
            /\ extra_next = next_[extra_head_] /\ extra_next # nullptr
        BY <2>1, <2>2, <4>1, ListIndices, NextPublished
      <4>3. CASE u \in Bounded
        <5>1. u < i
          BY <4>2, <4>3, SizeAssumption DEF Bounded, LoopOver
        <5>2. before[extra_next[1]][extra_next[2]][u] <= read_head_[u]
          BY <2>2, <4>2, <4>3, <5>1 DEF Scan
        <5> QED
          BY <2>3, <3>0, <4>2, <5>2
      <4>4. CASE u \in Extra
        <5>1. PICK K, h, f : ListOrder(K, h, f) /\ Precedes(before, K, f)
          BY DEF List
        <5>2. PICK x : x = extra_next
          OBVIOUS
        <5>3. before[x[1]][x[2]][u] <= read_head_[u]
          BY <2>2, <3>0, <4>2, <4>4, <5>1, <5>2, NextPrecedes DEF TypeOK
        <5> QED
          BY <2>3, <3>0, <4>2, <5>2, <5>3
      <4> QED
        BY <4>3, <4>4, ListIndices
    <3> QED
      BY <3>1, <3>2
  <2> QED
    BY <1>1, <2>4 DEF ExtraInOrder
<1> QED
  BY <1>2, <1>3

\* What a new scan starts from.
LEMMA NewScanIs ==
  ASSUME NEW prev, S!NewScan(prev)
  PROVE  i' = 0 /\ min_count' = kEmpty /\ min_index' = -1 /\ prev_index' = prev
BY DEF S!NewScan

\* What the scan finds in the list.
LEMMA LoadExtraIs ==
  ASSUME TypeOK, IndexTypes, SP!Lanes, List, Status, LoadExtra
  PROVE  /\ scanning /\ scanning' /\ prev_index' = prev_index
         /\ extra_next = unloaded /\ extra_next' = next_[extra_head_]
         /\ i' = At(0) /\ At(0) \in 0..LoopOver
         /\ \A u \in Bounded : ~(u < i')
         /\ UNCHANGED <<read_head_, count_, before, next_, extra_head_, atCall, tried, reachable>>
         /\ \/ /\ extra_next' = nullptr
               /\ min_count' = min_count /\ min_index' = min_index
            \/ /\ extra_next' \in ExtraNodes /\ CountOf(extra_next)' \in Nat
               /\ min_count' = CountOf(extra_next)' /\ min_index' = prev_index
<1>1. /\ scanning /\ scanning' /\ prev_index' = prev_index
      /\ extra_next = unloaded /\ extra_next' = next_[extra_head_] /\ i' = At(0)
      /\ UNCHANGED <<read_head_, count_, before, next_, extra_head_, atCall, tried, reachable>>
      /\ ~destroyed
  BY DEF LoadExtra, LoadNext, Status, FirstLane
<1>2. At(0) \in 0..LoopOver /\ \A u \in Bounded : ~(u < At(0))
  BY SizeAssumption DEF At, LoopOver, Bounded
<1>3. CASE extra_next' = nullptr
  BY <1>1, <1>2, <1>3 DEF LoadExtra
<1>4. CASE extra_next' # nullptr
  <2>1. PICK K, h, f : ListOrder(K, h, f)
    BY DEF List
  <2>2. PICK x : x = next_[extra_head_]
    OBVIOUS
  <2>3. /\ x = f[h + 1] /\ h + 1 \in 1..K /\ x \in ExtraNodes
        /\ x[1] \in Threads /\ x[2] \in Slots /\ x[2] < write_head_[x[1]]
    BY <1>1, <1>4, <2>1, <2>2, NextIsUnread, ListNodes DEF TypeOK, ListOrder
  <2>4. count_[x[1]][x[2]] \in Nat
    BY <2>3, LanesSay
  <2>5. /\ extra_next' = x /\ CountOf(extra_next)' = count_[x[1]][x[2]]
        /\ CountOf(extra_next') = count_[x[1]][x[2]]
    BY <1>1, <2>2 DEF CountOf
  <2>6. min_count' = CountOf(extra_next') /\ min_index' = prev_index
    BY <1>4 DEF LoadExtra
  <2> QED
    BY <1>1, <1>2, <2>3, <2>4, <2>5, <2>6
<1> QED
  BY <1>3, <1>4

\* What one turn of the for loop does with the head of lane i.
LEMMA ScanLaneIs ==
  ASSUME TypeOK, IndexTypes, SP!Lanes, ScanLane
  PROVE  /\ scanning /\ scanning' /\ extra_next # unloaded
         /\ i \in Bounded /\ i \in Nat /\ i' \in 0..LoopOver /\ i < i'
         /\ \A u \in Bounded : u < i' => u < i \/ u = i
         /\ UNCHANGED <<read_head_, count_, before, prev_index, atCall, tried, reachable, listVars>>
         /\ \/ /\ S!HeadCount(i) \in Nat
               /\ min_count = kEmpty \/ S!HeadCount(i) < min_count
               /\ min_count' = S!HeadCount(i) /\ min_index' = i
            \/ /\ S!HeadCount(i) = kEmpty \/ (min_count # kEmpty /\ min_count <= S!HeadCount(i))
               /\ min_count' = min_count /\ min_index' = min_index
<1>1. /\ scanning /\ scanning' /\ i < NumThreads /\ extra_next # unloaded /\ i' = At(i + 1)
      /\ UNCHANGED <<read_head_, count_, before, prev_index, atCall, tried, reachable, listVars>>
  BY DEF ScanLane, others
<1>2. i \in Bounded /\ i \in Nat /\ i \in Threads
  BY <1>1, SizeAssumption, ListIndices DEF TypeOK, Bounded
<1>3. S!HeadCount(i) \in Nat \cup {kEmpty} /\ min_count \in Nat \cup {kEmpty} /\ kEmpty \notin Nat
  BY <1>2, HeadIs, EmptyAssumption DEF TypeOK
<1>4. i' \in 0..LoopOver /\ i < i' /\ \A u \in Bounded : u < i' => u < i \/ u = i
  BY <1>1, <1>2, SizeAssumption DEF At, LoopOver, Bounded
<1>5. CASE S!Earlier(S!HeadCount(i), min_count)
  BY <1>1, <1>2, <1>3, <1>4, <1>5 DEF ScanLane, S!Earlier
<1>6. CASE ~S!Earlier(S!HeadCount(i), min_count)
  <2>1. min_count' = min_count /\ min_index' = min_index
    BY <1>6 DEF ScanLane
  <2>2. S!HeadCount(i) = kEmpty \/ (min_count # kEmpty /\ min_count <= S!HeadCount(i))
    BY <1>3, <1>6 DEF S!Earlier
  <2> QED
    BY <1>1, <1>2, <1>4, <2>1, <2>2
<1> QED
  BY <1>5, <1>6

\* Nothing in a lane precedes an element if the head of the lane has a ticket that
\* is not smaller, or none.
LEMMA NothingPrecedes ==
  ASSUME TypeOK, IndexTypes, SP!Lanes, NEW t \in Threads, NEW n \in Slots, n < write_head_[t],
         NEW u \in Bounded,
         S!HeadCount(u) = kEmpty \/ count_[t][n] <= S!HeadCount(u)
  PROVE  before[t][n][u] <= read_head_[u]
<1>1. /\ u \in Threads /\ read_head_[u] \in Slots /\ read_head_[u] \in Nat /\ write_head_[u] \in Nat
      /\ read_head_[u] <= write_head_[u]
      /\ S!HeadCount(u) # kEmpty <=> read_head_[u] < write_head_[u]
      /\ before[t][n][u] \in Nat /\ before[t][n][u] <= write_head_[u]
  BY ListIndices, HeadIs, LanesSay
<1>2. ASSUME read_head_[u] < before[t][n][u]
      PROVE  FALSE
  <2>1. read_head_[u] < write_head_[u]
    BY <1>1, <1>2
  <2>2. /\ count_[u][read_head_[u]] < count_[t][n] /\ count_[t][n] \in Nat
        /\ count_[u][read_head_[u]] \in Nat
    BY <1>1, <1>2, <2>1, LanesSay
  <2>3. S!HeadCount(u) = count_[u][read_head_[u]]
    BY DEF S!HeadCount
  <2> QED
    BY <1>1, <2>1, <2>2, <2>3
<1> QED
  BY <1>1, <1>2

\* What the scan has established survives its steps.
LEMMA ConsumerKeepsScan ==
  ASSUME TypeOK, IndexTypes, SP!Lanes, List, Status, Scan, GivenUp, Consumer
  PROVE  Scan'
<1>0. /\ UNCHANGED <<count_, before, next_>>
      /\ kEmpty \notin Nat /\ -1 \notin Bounded /\ -2 \notin Bounded
      /\ unloaded \notin ExtraNodes /\ nullptr \notin ExtraNodes
  BY ConsumerFrame, EmptyAssumption, NullAssumption, SizeAssumption DEF Bounded
<1>1. CASE BeginDequeue \/ Rescan
  <2>1. /\ i' = 0 /\ min_count' = kEmpty /\ min_index' = -1 /\ extra_next' = unloaded
    BY <1>1, NewScanIs DEF BeginDequeue, S!BeginDequeue, Rescan, S!Rescan, NewTurn
  <2> QED
    BY <1>0, <2>1 DEF Scan
<1>2. CASE LoadExtra
  <2>1. /\ scanning /\ extra_next = unloaded /\ extra_next' = next_'[extra_head_']
        /\ prev_index' = prev_index /\ \A u \in Bounded : ~(u < i')
        /\ extra_next' = nullptr \/ extra_next' \in ExtraNodes
    BY <1>0, <1>2, LoadExtraIs
  <2>2. CASE extra_next' = nullptr
    <3>1. min_count' = kEmpty /\ min_index' = -1
      BY <1>0, <1>2, <2>1, <2>2, LoadExtraIs DEF Scan
    <3> QED
      BY <1>0, <2>1, <2>2, <3>1, NullAssumption DEF Scan
  <2>3. CASE extra_next' \in ExtraNodes
    <3>1. min_count' = CountOf(extra_next)' /\ min_index' = prev_index /\ min_count' \in Nat
      BY <1>0, <1>2, <2>3, LoadExtraIs
    <3> QED
      BY <1>0, <2>1, <2>3, <3>1 DEF Scan
  <2> QED
    BY <2>1, <2>2, <2>3
<1>3. CASE ScanLane
  <2>0. /\ scanning /\ i \in Bounded /\ i \in Nat /\ i < i' /\ i' \in Nat /\ extra_next # unloaded
        /\ UNCHANGED <<read_head_, count_, before, next_, extra_head_, extra_next, prev_index>>
    BY <1>3, ScanLaneIs DEF listVars
  <2>1. CASE S!HeadCount(i) \in Nat /\ min_count' = S!HeadCount(i) /\ min_index' = i
    <3>1. count_'[min_index'][read_head_'[min_index']] = S!HeadCount(i)
      BY <2>0, <2>1 DEF S!HeadCount
    <3> QED
      BY <1>0, <2>0, <2>1, <3>1 DEF Scan, S!HeadCount
  <2>2. CASE /\ S!HeadCount(i) = kEmpty \/ (min_count # kEmpty /\ min_count <= S!HeadCount(i))
             /\ min_count' = min_count /\ min_index' = min_index
    <3>1. ASSUME min_index = -2, NEW u \in Bounded, u < i'
          PROVE  before[extra_next[1]][extra_next[2]][u] <= read_head_[u]
      <4>1. CASE u < i
        BY <2>0, <3>1, <4>1 DEF Scan
      <4>2. CASE u = i
        <5>1. extra_next \in ExtraNodes /\ min_count = CountOf(extra_next)
          BY <1>0, <2>0, <3>1 DEF Scan
        <5>2. /\ extra_next[1] \in Threads /\ extra_next[2] \in Slots
              /\ extra_next[2] < write_head_[extra_next[1]]
          BY <2>0, <5>1, NextPublished
        <5> QED
          BY <2>2, <4>2, <5>1, <5>2, NothingPrecedes DEF CountOf
      <4> QED
        BY <1>3, <3>1, <4>1, <4>2, ScanLaneIs
    <3>2. /\ min_index \in Bounded =>
               count_'[min_index'][read_head_'[min_index']] = S!HeadCount(min_index)
          /\ CountOf(extra_next)' = CountOf(extra_next)
      BY <2>0, <2>2 DEF S!HeadCount, CountOf
    <3>3. min_index \in Bounded => min_index \in Nat
      BY SizeAssumption DEF Bounded
    <3> QED
      BY <2>0, <2>2, <3>1, <3>2, <3>3 DEF Scan, S!HeadCount
  <2> QED
    BY <1>3, <2>1, <2>2, ScanLaneIs
<1>4. CASE ReturnEmpty \/ ReturnMin \/ ReturnExtra
  <2>1. ~scanning' /\ UNCHANGED <<min_count, min_index>>
    BY <1>4 DEF ReturnEmpty, S!ReturnEmpty, ReturnMin, S!ReturnMin, ReturnExtra, S!localVars
  <2> QED
    BY <2>1 DEF Scan
<1> QED
  BY <1>1, <1>2, <1>3, <1>4 DEF Consumer

\* Where a scan that does not agree with the one before can have ended: at a lane
\* ahead of all that were given up, or nowhere, in the first scan.
LEMMA RescanFrom ==
  ASSUME TypeOK, IndexTypes, SP!Lanes, Scan, GivenUp, Rescan
  PROVE  /\ scanning /\ i = LoopOver
         /\ \/ /\ min_index = -1 /\ min_count = kEmpty /\ tried = {-2}
            \/ /\ min_index \in Bounded /\ S!HeadCount(min_index) # kEmpty
               /\ \A t \in Bounded : t \in tried => t = min_index \/ SP!Ahead(min_index, t)
<1>1. /\ scanning /\ i = LoopOver /\ prev_index # min_index
      /\ min_index \in Bounded \cup {-1, -2} /\ prev_index \in Bounded \cup {-1, -2}
  BY DEF Rescan, S!Rescan, S!ScanOver, S!Confirmed, TypeOK
<1>2. \A u \in Bounded : u \in Nat /\ u < LoopOver /\ u \in Threads /\ u # -1 /\ u # -2
  BY SizeAssumption, ListIndices DEF Bounded, LoopOver
<1>3. CASE min_index = -2
  BY <1>1, <1>2, <1>3 DEF Scan
<1>4. CASE min_index = -1
  <2>1. min_count = kEmpty
    BY <1>1, <1>2, <1>4 DEF Scan
  <2>2. prev_index \notin Bounded
    BY <1>1, <1>2, <1>4 DEF GivenUp
  <2> QED
    BY <1>1, <1>4, <2>1, <2>2 DEF GivenUp
<1>5. CASE min_index \in Bounded
  <2>1. S!HeadCount(min_index) # kEmpty
    BY <1>1, <1>5, MinToRead
  <2>2. ASSUME NEW t \in Bounded, t \in tried, t # min_index
        PROVE  SP!Ahead(min_index, t)
    <3>1. /\ prev_index \in Bounded /\ S!HeadCount(t) # kEmpty
          /\ t = prev_index \/ SP!Ahead(prev_index, t)
      BY <1>1, <2>2 DEF GivenUp
    <3>2. SP!Ahead(min_index, prev_index) /\ S!HeadCount(prev_index) # kEmpty
      BY <1>1, <1>2, <1>5, <3>1 DEF GivenUp
    <3>3. /\ S!HeadCount(t) \in Nat /\ S!HeadCount(prev_index) \in Nat
          /\ S!HeadCount(min_index) \in Nat
      BY <1>2, <1>5, <2>1, <3>1, <3>2, HeadIs
    <3>4. \A u \in Bounded : SP!HeadCount(u) = S!HeadCount(u)
      BY DEF SP!HeadCount, S!HeadCount
    <3> QED
      BY <1>2, <1>5, <3>1, <3>2, <3>3, <3>4 DEF SP!Ahead
  <2> QED
    BY <1>1, <1>5, <2>1, <2>2
<1> QED
  BY <1>1, <1>3, <1>4, <1>5

\* A scan that leaves lane prev_index, also when the list had put its minimum
\* there, ends ahead of it, and so of all the lanes that were given up.
LEMMA ConsumerKeepsGivenUp ==
  ASSUME TypeOK, IndexTypes, SP!Lanes, List, Status, Scan, GivenUp, Consumer
  PROVE  GivenUp'
<1>0. /\ UNCHANGED <<count_, before, next_>>
      /\ kEmpty \notin Nat /\ -1 \notin Bounded /\ -2 \notin Bounded
      /\ \A u \in Bounded : u \in Nat /\ u \in Threads
      /\ \A u \in Bounded : SP!HeadCount(u) = S!HeadCount(u)
  BY ConsumerFrame, EmptyAssumption, SizeAssumption, ListIndices
     DEF Bounded, SP!HeadCount, S!HeadCount
<1>1. CASE BeginDequeue
  <2>1. i' = 0 /\ prev_index' = -2 /\ tried' = {-2}
    BY <1>1, NewScanIs DEF BeginDequeue, S!BeginDequeue
  <2> QED
    BY <1>0, <2>1 DEF GivenUp
<1>2. CASE Rescan
  <2>1. /\ i' = 0 /\ prev_index' = min_index /\ tried' = tried \cup {min_index}
        /\ read_head_' = read_head_
    BY <1>2, NewScanIs DEF Rescan, S!Rescan
  <2>2. CASE min_index = -1 /\ tried = {-2}
    BY <1>0, <2>1, <2>2 DEF GivenUp
  <2>3. CASE /\ min_index \in Bounded /\ S!HeadCount(min_index) # kEmpty
             /\ \A t \in Bounded : t \in tried => t = min_index \/ SP!Ahead(min_index, t)
    <3>1. \A t \in Bounded : t \in tried => S!HeadCount(t) # kEmpty
      BY <1>2, RescanFrom DEF GivenUp
    <3> QED
      BY <1>0, <2>1, <2>3, <3>1 DEF GivenUp, SP!Ahead, SP!HeadCount, S!HeadCount
  <2> QED
    BY <1>2, <2>2, <2>3, RescanFrom
<1>3. CASE LoadExtra
  <2>1. /\ scanning /\ UNCHANGED <<read_head_, count_, prev_index, tried>>
        /\ \A u \in Bounded : ~(u < i')
    BY <1>3, LoadExtraIs
  <2>2. prev_index' \in Bounded => ~(prev_index' < i')
    BY <2>1
  <2> QED
    BY <2>1, <2>2 DEF GivenUp, SP!Ahead, SP!HeadCount, S!HeadCount
<1>4. CASE ScanLane
  <2>0. /\ scanning /\ i \in Bounded
        /\ UNCHANGED <<read_head_, count_, prev_index, tried>>
        /\ \A u \in Bounded : u < i' => u < i \/ u = i
    BY <1>4, ScanLaneIs
  <2>1. ASSUME prev_index \in Bounded, prev_index < i'
        PROVE  /\ min_count' # kEmpty /\ min_index' \in Bounded
               /\ \/ min_index' = prev_index /\ min_count' <= S!HeadCount(prev_index)
                  \/ SP!Ahead(min_index', prev_index)
    <3>0. S!HeadCount(prev_index) # kEmpty /\ S!HeadCount(prev_index) \in Nat
      BY <1>0, <2>0, <2>1, HeadIs DEF GivenUp
    <3>1. ASSUME prev_index < i
          PROVE  /\ min_count \in Nat /\ min_index \in Bounded
                 /\ min_count <= S!HeadCount(prev_index)
                 /\ \/ min_index = prev_index
                    \/ SP!Ahead(min_index, prev_index)
      <4>1. /\ min_count \in Nat /\ min_index \in Bounded
            /\ \/ min_index = prev_index /\ min_count <= S!HeadCount(prev_index)
               \/ SP!Ahead(min_index, prev_index)
        BY <2>0, <2>1, <3>1 DEF GivenUp, TypeOK
      <4>2. min_count = S!HeadCount(min_index) \/ min_index = prev_index
        BY <1>0, <2>0, <4>1 DEF Scan
      <4> QED
        BY <1>0, <2>1, <3>0, <4>1, <4>2 DEF SP!Ahead
    <3>2. CASE /\ S!HeadCount(i) \in Nat
               /\ min_count = kEmpty \/ S!HeadCount(i) < min_count
               /\ min_count' = S!HeadCount(i) /\ min_index' = i
      <4>1. CASE prev_index = i
        BY <1>0, <2>0, <3>2, <4>1
      <4>2. CASE prev_index < i
        <5>1. S!HeadCount(i) < S!HeadCount(prev_index)
          BY <1>0, <3>0, <3>1, <3>2, <4>2
        <5> QED
          BY <1>0, <2>0, <2>1, <3>2, <5>1 DEF SP!Ahead
      <4> QED
        BY <2>0, <2>1, <4>1, <4>2
    <3>3. CASE /\ S!HeadCount(i) = kEmpty \/ (min_count # kEmpty /\ min_count <= S!HeadCount(i))
               /\ min_count' = min_count /\ min_index' = min_index
      <4>1. CASE prev_index = i
        <5>1. min_count # kEmpty /\ min_count <= S!HeadCount(prev_index)
          BY <3>0, <3>3, <4>1
        <5>2. \/ min_index = prev_index
              \/ min_index \in Bounded /\ min_index < i /\ min_count = S!HeadCount(min_index)
          BY <2>0, <5>1 DEF Scan
        <5>3. CASE min_index = prev_index
          BY <2>1, <3>3, <5>1, <5>3
        <5>4. CASE min_index \in Bounded /\ min_index < i /\ min_count = S!HeadCount(min_index)
          <6>1. S!HeadCount(min_index) \in Nat
            BY <1>0, <5>1, <5>4, HeadIs
          <6> QED
            BY <1>0, <2>1, <3>0, <3>3, <4>1, <5>1, <5>4, <6>1 DEF SP!Ahead
        <5> QED
          BY <5>2, <5>3, <5>4
      <4>2. CASE prev_index < i
        BY <1>0, <3>1, <3>3, <4>2
      <4> QED
        BY <2>0, <2>1, <4>1, <4>2
    <3> QED
      BY <1>4, <3>2, <3>3, ScanLaneIs
  <2> QED
    BY <2>0, <2>1 DEF GivenUp, SP!Ahead, SP!HeadCount, S!HeadCount
<1>5. CASE ReturnEmpty \/ ReturnMin \/ ReturnExtra
  <2>1. ~scanning'
    BY <1>5 DEF ReturnEmpty, S!ReturnEmpty, ReturnMin, S!ReturnMin, ReturnExtra
  <2> QED
    BY <2>1 DEF GivenUp
<1> QED
  BY <1>1, <1>2, <1>3, <1>4, <1>5 DEF Consumer

\* A scan that passes an empty lane, or finds nothing linked, has missed nothing
\* that was there when dequeue was called.
LEMMA ConsumerKeepsNothing ==
  ASSUME TypeOK, IndexTypes, SP!Lanes, List, Status, Scan, GivenUp, Nothing, Consumer
  PROVE  Nothing'
<1>0. /\ next_' = next_ /\ S!Completed' = S!Completed
      /\ kEmpty \notin Nat /\ -1 \notin Bounded /\ -2 \notin Bounded
      /\ unloaded \notin ExtraNodes /\ nullptr \notin ExtraNodes /\ unloaded # nullptr
      /\ \A u \in Bounded : u \in Nat /\ u \in Threads
      /\ \A t \in Threads : atCall[t] <= S!Completed[t]
  BY ConsumerFrame, EmptyAssumption, NullAssumption, SizeAssumption, ListIndices
     DEF Bounded, Nothing
<1>1. CASE BeginDequeue
  <2>1. /\ i' = 0 /\ prev_index' = -2 /\ min_count' = kEmpty /\ extra_next' = unloaded
        /\ atCall' = S!Completed /\ extra_head_' = extra_head_
        /\ reachable' = (next_[extra_head_] # nullptr)
    BY <1>1, NewScanIs DEF BeginDequeue, S!BeginDequeue, NewTurn
  <2>2. \A u \in Threads : S!Completed[u] <= S!Completed[u]
    BY LanesSay
  <2> QED
    <3>1. \A u \in Threads : atCall'[u] <= S!Completed'[u]
      BY <1>0, <2>1, <2>2
    <3>2. reachable' => next_'[extra_head_'] # nullptr
      BY <1>0, <2>1
    <3>3. \A u \in Bounded : ~(u < i')
      BY <1>0, <2>1
    <3>4. extra_next' # nullptr /\ extra_next' \notin ExtraNodes /\ prev_index' # -1
      BY <1>0, <2>1
    <3> QED
      BY <3>1, <3>2, <3>3, <3>4 DEF Nothing
<1>2. CASE Rescan
  <2>1. /\ i' = 0 /\ prev_index' = min_index /\ min_count' = kEmpty /\ extra_next' = unloaded
        /\ UNCHANGED <<atCall, reachable, read_head_, extra_head_>>
        /\ scanning /\ scanning' = scanning
    BY <1>2, NewScanIs DEF Rescan, S!Rescan, S!ScanOver, NewTurn
  <2>2. ASSUME min_index = -1
        PROVE  ~reachable /\ \A u \in Bounded : atCall[u] <= read_head_[u]
    <3>1. min_count = kEmpty /\ i = LoopOver
      BY <1>0, <1>2, <2>2, RescanFrom
    <3>2. \A u \in Bounded : atCall[u] <= read_head_[u]
      <4>1. \A u \in Bounded : u < i
        BY <3>1, SizeAssumption DEF Bounded, LoopOver
      <4> QED
        BY <2>1, <3>1, <4>1 DEF Nothing
    <3>3. extra_next = nullptr \/ extra_next = unloaded
      BY <2>1, <3>1 DEF Nothing, TypeOK, ListTypes
    <3>4. ASSUME extra_next = unloaded, reachable
          PROVE  FALSE
      <4>1. LoopOver = 0
        BY <2>1, <3>1, <3>4 DEF Scan
      <4>2. Extra = {}
        BY <4>1, SizeAssumption DEF LoopOver, Extra
      <4>3. next_[extra_head_] # nullptr /\ ~destroyed
        BY <2>1, <3>4 DEF Nothing, Status
      <4>4. PICK K, h, f : ListOrder(K, h, f)
        BY DEF List
      <4>5. f[h + 1][1] \in Extra
        BY <4>3, <4>4, NextIsUnread DEF TypeOK
      <4> QED
        BY <4>2, <4>5
    <3> QED
      BY <2>1, <3>2, <3>3, <3>4 DEF Nothing
  <2> QED
    BY <1>0, <2>1, <2>2 DEF Nothing
<1>3. CASE LoadExtra
  <2>1. /\ scanning /\ extra_next' = next_[extra_head_]
        /\ UNCHANGED <<atCall, reachable, read_head_, extra_head_, prev_index>>
        /\ \A u \in Bounded : ~(u < i')
        /\ min_count' = kEmpty => extra_next' \notin ExtraNodes
    BY <1>0, <1>3, LoadExtraIs
  <2> QED
    BY <1>0, <2>1 DEF Nothing
<1>4. CASE ScanLane
  <2>1. /\ scanning /\ i \in Bounded
        /\ UNCHANGED <<atCall, reachable, read_head_, extra_head_, extra_next, prev_index>>
        /\ \A u \in Bounded : u < i' => u < i \/ u = i
        /\ min_count' = kEmpty => min_count = kEmpty /\ S!HeadCount(i) = kEmpty
    BY <1>0, <1>4, ScanLaneIs DEF listVars
  <2>2. ASSUME S!HeadCount(i) = kEmpty
        PROVE  atCall[i] <= read_head_[i]
    <3>1. /\ read_head_[i] \in Nat /\ write_head_[i] \in Nat /\ ~(read_head_[i] < write_head_[i])
          /\ S!Completed[i] \in Nat /\ S!Completed[i] <= write_head_[i]
      BY <1>0, <2>1, <2>2, HeadIs, LanesSay
    <3>2. atCall[i] \in Nat /\ atCall[i] <= S!Completed[i]
      BY <1>0, <2>1, Names, ListIndices DEF TypeOK, S!HistoryTypes
    <3> QED
      BY <3>1, <3>2
  <2> QED
    BY <1>0, <2>1, <2>2 DEF Nothing
<1>5. CASE ReturnEmpty \/ ReturnMin \/ ReturnExtra
  <2>1. ~scanning' /\ atCall' = atCall
    BY <1>5
       DEF ReturnEmpty, S!ReturnEmpty, ReturnMin, S!ReturnMin, ReturnExtra, S!history
  <2> QED
    BY <1>0, <2>1 DEF Nothing
<1> QED
  BY <1>1, <1>2, <1>3, <1>4, <1>5 DEF Consumer

-----------------------------------------------------------------------------
(* The types, and the steps together. *)

\* enqueue keeps the types.
LEMMA ProducerKeepsTypes ==
  ASSUME TypeOK, IndexTypes, SP!Lanes, List, Status, NEW t \in Threads, Producer(t)
  PROVE  TypeOK'
<1>1. S!ProducerTypes' /\ S!HistoryTypes' /\ ListTypes' /\ IndexTypes'
  BY ProducerKeepsLanes, ProducerKeepsList
<1>2. UNCHANGED <<read_head_, scanning, i, min_count, min_index, prev_index, reachable>>
  BY ProducerFrame
<1>3. \A u \in Threads : 0 <= read_head_'[u] /\ read_head_'[u] <= write_head_'[u]
  BY <1>1, <1>2 DEF IndexTypes, TypeOK
<1> QED
  BY <1>1, <1>2, <1>3 DEF TypeOK

\* dequeue keeps the types.
LEMMA ConsumerKeepsTypes ==
  ASSUME TypeOK, IndexTypes, SP!Lanes, List, Status, Scan, GivenUp, Consumer
  PROVE  TypeOK'
<1>1. S!ProducerTypes' /\ S!HistoryTypes' /\ ListTypes' /\ IndexTypes'
  BY ConsumerKeepsLanes, ConsumerKeepsList
<1>2. \A u \in Threads : 0 <= read_head_'[u] /\ read_head_'[u] <= write_head_'[u]
  BY <1>1, ListIndices DEF IndexTypes
<1>3. LoopOver \in Nat /\ 0 \in 0..LoopOver
  BY SizeAssumption DEF LoopOver
<1>4. /\ scanning' \in BOOLEAN /\ reachable' \in BOOLEAN
      /\ i' \in 0..LoopOver /\ min_count' \in Nat \cup {kEmpty}
      /\ min_index' \in Bounded \cup {-1, -2} /\ prev_index' \in Bounded \cup {-1, -2}
  <2> USE DEF TypeOK
  <2>1. CASE BeginDequeue
    BY <1>3, <2>1, NewScanIs DEF BeginDequeue, S!BeginDequeue
  <2>2. CASE LoadExtra
    BY <2>2, LoadExtraIs
  <2>3. CASE ScanLane
    BY <2>3, ScanLaneIs
  <2>4. CASE Rescan
    BY <1>3, <2>4, NewScanIs DEF Rescan, S!Rescan
  <2>5. CASE ReturnMin \/ ReturnExtra
    BY <2>5, ReturnIs
  <2>6. CASE ReturnEmpty
    BY <2>6 DEF ReturnEmpty, S!ReturnEmpty, S!localVars, S!history, others
  <2> QED
    BY <2>1, <2>2, <2>3, <2>4, <2>5, <2>6 DEF Consumer
<1> QED
  BY <1>1, <1>2, <1>4 DEF TypeOK

\* No step of enqueue breaks the inductive invariant.
LEMMA ProducerKeepsIInv ==
  ASSUME IInv, NEW t \in Threads, Producer(t)
  PROVE  IInv'
<1>1. TypeOK'
  BY ProducerKeepsTypes DEF IInv
<1>2. SP!Lanes' /\ List' /\ IndexTypes' /\ Status'
  BY ProducerKeepsLanes, ProducerKeepsList DEF IInv
<1>3. Scan' /\ GivenUp'
  BY ProducerKeepsScan, ProducerKeepsGivenUp DEF IInv
<1>4. Nothing' /\ ExtraInOrder'
  BY ProducerKeepsNothing, ProducerKeepsInOrder DEF IInv
<1> QED
  BY <1>1, <1>2, <1>3, <1>4 DEF IInv

\* No step of dequeue breaks the inductive invariant.
LEMMA ConsumerKeepsIInv ==
  ASSUME IInv, Consumer
  PROVE  IInv'
<1>1. TypeOK'
  BY ConsumerKeepsTypes DEF IInv
<1>2. SP!Lanes' /\ List' /\ IndexTypes' /\ Status'
  BY ConsumerKeepsLanes, ConsumerKeepsList DEF IInv
<1>3. Scan' /\ GivenUp'
  BY ConsumerKeepsScan, ConsumerKeepsGivenUp DEF IInv
<1>4. Nothing' /\ ExtraInOrder'
  BY ConsumerKeepsNothing, ConsumerKeepsInOrder DEF IInv
<1> QED
  BY <1>1, <1>2, <1>3, <1>4 DEF IInv

\* A step that leaves the lanes, the tickets and the scan alone keeps what does not
\* depend on the list.
LEMMA OtherStepKeepsSpinPart ==
  ASSUME IInv, UNCHANGED spinVars
  PROVE  /\ S!ProducerTypes' /\ S!HistoryTypes'
         /\ SP!Lanes' /\ GivenUp' /\ ExtraInOrder' /\ S!Completed' = S!Completed
<1> USE DEF spinVars
<1>1. S!ProducerTypes' /\ S!HistoryTypes'
  BY DEF IInv, TypeOK, S!ProducerTypes, S!HistoryTypes
<1>2. SP!Lanes'
  BY DEF IInv, SP!Lanes, SP!Published, SP!Tickets, SP!InCall, SP!Order, SP!Completed
<1>3. GivenUp'
  BY DEF IInv, GivenUp, SP!Ahead, SP!HeadCount, S!HeadCount
<1>4. ExtraInOrder'
  BY DEF IInv, ExtraInOrder
<1>5. S!Completed' = S!Completed
  BY DEF S!Completed
<1> QED
  BY <1>1, <1>2, <1>3, <1>4, <1>5

\* The destructor leaves the inductive invariant intact.
LEMMA DestroyKeepsIInv ==
  ASSUME IInv, Destroy
  PROVE  IInv'
<1>1. /\ ~scanning /\ (\A t \in Threads : pc[t] = "idle")
      /\ DestroyList /\ UNCHANGED spinVars /\ reachable' = reachable
  BY DEF Destroy
<1>2. Linking = {}
  <2>1. \A t \in Linking : t \in Threads /\ pc[t] = "loaded"
    BY ListIndices DEF IInv, Status, Linking
  <2> QED
    BY <1>1, <2>1
<1>3. PICK K, h, f : ListOrder(K, h, f) /\ Precedes(before, K, f)
  BY DEF IInv, List
<1>4. ListOrder(K, h, f)' /\ IndexTypes' /\ Linking' = {}
  BY <1>1, <1>2, <1>3, DestroyKeepsList DEF IInv, TypeOK, spinVars
<1>5. Precedes(before, K, f)'
  BY <1>1, <1>3 DEF Precedes, spinVars
<1>6. ListTypes'
  BY <1>1, <1>3, DestroyKeepsListTypes DEF IInv, TypeOK
<1>7. /\ S!ProducerTypes' /\ S!HistoryTypes'
      /\ SP!Lanes' /\ GivenUp' /\ ExtraInOrder' /\ S!Completed' = S!Completed
  BY <1>1, OtherStepKeepsSpinPart
<1>8. TypeOK'
  BY <1>1, <1>6, <1>7 DEF IInv, TypeOK, spinVars
<1>9. Status' /\ Scan'
  BY <1>1, <1>4 DEF IInv, Status, Scan, spinVars
<1>10. Nothing'
  BY <1>1, <1>7 DEF IInv, Nothing, spinVars
<1> QED
  BY <1>4, <1>5, <1>7, <1>8, <1>9, <1>10 DEF IInv, List

\* Nor does anything change when the queue does not.
LEMMA StutterKeepsIInv ==
  ASSUME IInv, UNCHANGED vars
  PROVE  IInv'
<1>1. UNCHANGED spinVars /\ UNCHANGED listVars /\ reachable' = reachable
  BY DEF vars
<1>2. PICK K, h, f : ListOrder(K, h, f) /\ Precedes(before, K, f)
  BY DEF IInv, List
<1>3. ListOrder(K, h, f)' /\ Linking' = Linking
  BY <1>1, <1>2, OtherStepKeepsList DEF IInv, spinVars, listVars, endVars
<1>4. Precedes(before, K, f)'
  BY <1>1, <1>2 DEF Precedes, spinVars
<1>5. /\ S!ProducerTypes' /\ S!HistoryTypes'
      /\ SP!Lanes' /\ GivenUp' /\ ExtraInOrder' /\ S!Completed' = S!Completed
  BY <1>1, OtherStepKeepsSpinPart
<1>6. ListTypes' /\ IndexTypes'
  BY <1>1, <1>3 DEF IInv, TypeOK, ListTypes, IndexTypes, spinVars, listVars, endVars
<1>7. TypeOK'
  BY <1>1, <1>5, <1>6 DEF IInv, TypeOK, spinVars
<1>8. Status'
  BY <1>1, <1>3 DEF IInv, Status, spinVars, listVars, endVars
<1>9. Scan'
  BY <1>1 DEF IInv, Scan, CountOf, S!HeadCount, spinVars, listVars
<1>10. Nothing'
  BY <1>1, <1>5 DEF IInv, Nothing, spinVars, listVars
<1> QED
  BY <1>3, <1>4, <1>5, <1>6, <1>7, <1>8, <1>9, <1>10 DEF IInv, List

\* The constructor establishes the inductive invariant.
LEMMA InitIInv == Init => IInv
<1> SUFFICES ASSUME Init
             PROVE  IInv
  OBVIOUS
<1>1. /\ S!Init /\ ListInit /\ Linking = {} /\ reachable = FALSE
      /\ \A t \in Bounded : t \in Threads
      /\ LoopOver \in Nat /\ 0 \in Slots /\ kEmpty \notin Nat
  BY SizeAssumption, EmptyAssumption, ListIndices DEF Init, ListInit, Linking, Slots, LoopOver
<1>2. /\ up_to_ = 0 /\ scanning = FALSE
      /\ count_ = [t \in Threads |-> [n \in Slots |-> kEmpty]]
      /\ write_head_ = [t \in Threads |-> 0] /\ read_head_ = [t \in Threads |-> 0]
      /\ cur = [t \in Threads |-> 0] /\ atCall = [t \in Threads |-> 0]
      /\ pc = [t \in Threads |-> "idle"]
      /\ before = [t \in Threads |-> [n \in Slots |-> [u \in Threads |-> 0]]]
      /\ i = 0 /\ min_count = kEmpty /\ min_index = -1 /\ prev_index = -2 /\ tried = {}
  BY <1>1, Names DEF S!Init, S!Zero
<1>3. S!ProducerTypes
  BY <1>1, <1>2, Names, ListIndices DEF S!ProducerTypes
<1>4. S!HistoryTypes
  BY <1>1, <1>2, Names DEF S!HistoryTypes
<1>5. SP!Lanes
  BY <1>1, <1>2, Names, ListIndices
     DEF SP!Lanes, SP!Published, SP!Tickets, SP!InCall, SP!Order, SP!Completed
<1>6. IndexTypes
  BY <1>1, <1>2, InitKeepsList
<1>7. ListTypes
  BY <1>1 DEF ListInit, ListTypes, ExtraNodes
<1>8. List
  <2>1. PICK K, h, f : ListOrder(K, h, f)
    BY <1>1, <1>2, InitKeepsList
  <2>2. Precedes(before, K, f)
    BY <1>2, <1>6, <2>1, ListNodes, ListIndices DEF Precedes, ListOrder
  <2> QED
    BY <2>1, <2>2 DEF List
<1>9. TypeOK
  <2>1. \A t \in Threads : 0 <= read_head_[t] /\ read_head_[t] <= write_head_[t]
    BY <1>2
  <2>2. i \in 0..LoopOver /\ min_count \in Nat \cup {kEmpty}
    BY <1>1, <1>2
  <2>3. min_index \in Bounded \cup {-1, -2} /\ prev_index \in Bounded \cup {-1, -2}
    BY <1>2
  <2> QED
    BY <1>1, <1>2, <1>3, <1>4, <1>7, <2>1, <2>2, <2>3 DEF TypeOK
<1>10. Status /\ Scan /\ GivenUp /\ Nothing /\ ExtraInOrder
  <2>1. Status
    BY <1>1, <1>2 DEF Status, ListInit
  <2>2. Scan /\ GivenUp
    BY <1>2 DEF Scan, GivenUp
  <2>3. Nothing
    <3>1. \A t \in Threads : S!Completed[t] \in Nat
      BY <1>2, Names DEF S!Completed
    <3>2. \A t \in Threads : atCall[t] <= S!Completed[t]
      BY <1>2, <3>1
    <3> QED
      BY <1>2, <3>2 DEF Nothing
  <2>4. ExtraInOrder
    BY <1>2, ListIndices DEF ExtraInOrder
  <2> QED
    BY <2>1, <2>2, <2>3, <2>4
<1> QED
  BY <1>5, <1>6, <1>8, <1>9, <1>10 DEF IInv

\* No step breaks the inductive invariant.
LEMMA NextKeepsIInv == IInv /\ [Next]_vars => IInv'
BY ProducerKeepsIInv, ConsumerKeepsIInv, DestroyKeepsIInv, StutterKeepsIInv DEF Next

\* The inductive invariant holds in every execution of the queue.
THEOREM Invariance == Spec => []IInv
BY InitIInv, NextKeepsIInv, PTL DEF Spec

-----------------------------------------------------------------------------
(* The theorems. *)

\* The types hold in every execution, for any number of threads of either kind, and
\* the consumer never reads past what a thread has published.
THEOREM TypeCorrect == Spec => []TypeOK
<1>1. IInv => TypeOK
  BY DEF IInv
<1> QED
  BY <1>1, Invariance, PTL

\* The consumer deletes no node that it, or a thread that stopped between exchange
\* and next_, can still reach, at whatever step the threads are (line 417).
THEOREM NodesAreReclaimedSafely == Spec => []SafeReclaim
<1>1. IInv => SafeReclaim
  BY OrderMakesSafe DEF IInv, TypeOK, List
<1> QED
  BY <1>1, Invariance, PTL

\* However many threads stand between exchange and next_, the pieces of the list
\* hold all the elements that were not dequeued and no others (lines 332-345).
THEOREM NoElementIsCutOff == Spec => []ListIntact
<1>1. IInv => ListIntact
  BY OrderMakesIntact DEF IInv, TypeOK, List
<1> QED
  BY <1>1, Invariance, PTL

\* The destructor frees the whole list and deconstructs what was not dequeued, and
\* the data_ of one node that holds no element (lines 251-294).
THEOREM DestructorForgetsNothing == Spec => []DestroysAll
<1>1. IInv => DestroysAll
  BY OrderMakesDestroyed DEF IInv, TypeOK, List
<1> QED
  BY <1>1, Invariance, PTL

\* An element of the list is dequeued after all the elements whose enqueue had
\* returned when its ticket was drawn, those of the lanes included (lines 365-370).
THEOREM ListIsInOrder == Spec => []ExtraInOrder
<1>1. IInv => ExtraInOrder
  BY DEF IInv
<1> QED
  BY <1>1, Invariance, PTL

\* dequeue returns nullopt only when nothing is left of what had been enqueued in
\* the lanes, or could be reached in the list, when it was called (line 387).
THEOREM EmptyIsEmpty == Spec => []EmptyMeansEmpty
<1>1. IInv => EmptyMeansEmpty
  BY DEF IInv, Nothing, EmptyMeansEmpty, S!ScanOver
<1> QED
  BY <1>1, Invariance, PTL

\* A scan that ends on a minimum already given up in this call is the call's last:
\* dequeue makes at most NumThreads + 2 scans (lines 357-395).
THEOREM ScansAreBounded == Spec => []BoundedScans
<1>1. IInv => BoundedScans
  <2> SUFFICES ASSUME IInv, S!ScanOver, min_index \in tried
               PROVE  min_index = prev_index
    BY DEF BoundedScans, S!BoundedScans
  <2>1. /\ GivenUp /\ Scan /\ scanning /\ i = LoopOver
        /\ min_index \in Bounded \cup {-1, -2} /\ prev_index \in Bounded \cup {-1, -2}
        /\ \A u \in Bounded : u \in Nat /\ u < LoopOver
        /\ -1 \notin Bounded /\ -2 \notin Bounded /\ kEmpty \notin Nat
    BY SizeAssumption, EmptyAssumption DEF IInv, TypeOK, S!ScanOver, Bounded, LoopOver
  <2>2. CASE prev_index = -2
    BY <2>1, <2>2 DEF GivenUp
  <2>3. CASE prev_index = -1
    <3>1. min_index \in {-1, -2}
      BY <2>1, <2>3 DEF GivenUp
    <3>2. min_index = -2 => prev_index = -2
      BY <2>1 DEF Scan
    <3> QED
      BY <2>3, <3>1, <3>2
  <2>4. CASE prev_index \in Bounded
    <3>1. min_index \in Bounded /\ (min_index = prev_index \/ SP!Ahead(min_index, prev_index))
      BY <2>1, <2>4 DEF GivenUp
    <3>2. min_index # prev_index => SP!Ahead(prev_index, min_index)
      BY <2>1, <3>1 DEF GivenUp
    <3>3. /\ S!HeadCount(min_index) # kEmpty => S!HeadCount(min_index) \in Nat
          /\ S!HeadCount(prev_index) # kEmpty => S!HeadCount(prev_index) \in Nat
      BY <2>4, <3>1, HeadIs, ListIndices DEF IInv
    <3>4. S!HeadCount(min_index) \in Nat /\ S!HeadCount(prev_index) \in Nat
      BY <2>1, <2>4, <3>1, <3>3 DEF GivenUp
    <3>5. SP!HeadCount(min_index) = S!HeadCount(min_index)
          /\ SP!HeadCount(prev_index) = S!HeadCount(prev_index)
      BY DEF SP!HeadCount, S!HeadCount
    <3> QED
      BY <2>1, <2>4, <3>1, <3>2, <3>4, <3>5 DEF SP!Ahead
  <2> QED
    BY <2>1, <2>2, <2>3, <2>4
<1> QED
  BY <1>1, Invariance, PTL
=============================================================================
