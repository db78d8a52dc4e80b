------------------------- MODULE OverflowQueueProofs -------------------------
(***************************************************************************)
(* Proofs about OverflowQueue, for any number of threads with a lane, of   *)
(* threads without one, and of elements.  What enqueue does to tickets and *)
(* nodes is proved in WaitQueueProofs and what happens to the list in      *)
(* ExtraListProofs; here they meet, with what is the queue's own: which    *)
(* tickets lowest_seen_ may count, and what a scan knows that starts with  *)
(* the list.                                                               *)
(***************************************************************************)
EXTENDS OverflowQueue, ExtraListProofs

WP == INSTANCE WaitQueueProofs WITH NumThreads <- LoopOver

\* The list is in an order that agrees with what was known at each ticket.
List == \E K, h, f : ListOrder(K, h, f) /\ Precedes(before, K, f)

\* The threads and the consumer are where the list's state says.
Status ==
  /\ \A t \in Linking : pc[t] = "drawn"
  /\ destroyed => consumer = "idle" /\ \A t \in Threads : pc[t] = "idle"

\* No ticket of a lane that is below lowest_seen_ is still to come or waiting.  Of
\* the tickets in the list this does not hold.
LanesNotBelow ==
  \A t \in Bounded :
    /\ pc[t] = "drawn" => lowest_seen_ <= cur[t]
    /\ \A n \in Slots : read_head_[t] <= n /\ n < write_head_[t] => lowest_seen_ <= count_[t][n]

Dequeued == {x \in Threads \X Slots : x[2] < read_head_[x[1]]}
Drawn ==
  {x \in Threads \X Slots :
     x[2] < write_head_[x[1]] \/ (pc[x[1]] = "drawn" /\ x[2] = write_head_[x[1]])}

\* lowest_seen_ counts no more tickets than were dequeued, up_to_ those drawn.
Counted ==
  lowest_seen_ <= Cardinality(Dequeued) /\ up_to_ = Cardinality(Drawn)

\* Where the scan's minimum comes from.  While it is that of the list, the lanes
\* scanned so far have nothing that precedes it.
Scan ==
  /\ min_count = kEmpty => min_index = -1
  /\ consumer = "scan" =>
       /\ extra_next \in ExtraNodes => extra_next = next_[extra_head_]
       /\ min_count # kEmpty =>
            \/ min_index \in Bounded /\ min_count = W!HeadCount(min_index)
            \/ extra_next \in ExtraNodes /\ min_count = CountOf(extra_next)
       /\ min_index \in Bounded => W!HeadCount(min_index) # kEmpty
       /\ prev_index \in Bounded => W!HeadCount(prev_index) # kEmpty
       /\ min_index = -2 =>
            /\ prev_index = -2 /\ extra_next \in ExtraNodes /\ min_count = CountOf(extra_next)
            /\ \A u \in Bounded :
                 u < i => before[extra_next[1]][extra_next[2]][u] <= read_head_[u]

IInv ==
  /\ TypeOK /\ IndexTypes /\ WP!Lanes /\ List /\ Status
  /\ LanesNotBelow /\ Counted /\ Scan /\ WP!Sleeping /\ NoLostWakeup /\ ExtraInOrder

-----------------------------------------------------------------------------
(* The lanes, as in WaitQueue. *)

\* The names of WaitQueue, here and in its proofs.
LEMMA Names ==
  /\ W!Threads = Threads /\ WP!Threads = Threads
  /\ W!Slots = Slots /\ WP!Slots = Slots
  /\ LoopOver \in Nat /\ kEmpty \notin Nat
  /\ WP!Completed = W!Completed
  /\ W!ProducerTypes <=> WP!ProducerTypes
  /\ W!HistoryTypes <=> WP!HistoryTypes
  /\ W!NoLostWakeup <=> WP!NoLostWakeup
  /\ W!ProducerTypes' <=> WP!ProducerTypes'
  /\ W!HistoryTypes' <=> WP!HistoryTypes'
  /\ W!NoLostWakeup' <=> WP!NoLostWakeup'
<1>1. /\ W!Threads = Threads /\ WP!Threads = Threads
      /\ W!Slots = Slots /\ WP!Slots = Slots /\ LoopOver \in Nat /\ kEmpty \notin Nat
  BY SizeAssumption, EmptyAssumption
     DEF W!Threads, WP!Threads, Threads, Bounded, Extra, LoopOver, W!Slots, WP!Slots, Slots
<1>2. WP!Completed = W!Completed
  BY <1>1 DEF W!Completed, WP!Completed
<1>3. (W!ProducerTypes <=> WP!ProducerTypes) /\ (W!ProducerTypes' <=> WP!ProducerTypes')
  BY <1>1 DEF W!ProducerTypes, WP!ProducerTypes
<1>4. (W!HistoryTypes <=> WP!HistoryTypes) /\ (W!HistoryTypes' <=> WP!HistoryTypes')
  BY <1>1 DEF W!HistoryTypes, WP!HistoryTypes
<1>5. (W!NoLostWakeup <=> WP!NoLostWakeup) /\ (W!NoLostWakeup' <=> WP!NoLostWakeup')
  BY <1>1 DEF W!NoLostWakeup, WP!NoLostWakeup
<1> QED
  BY <1>1, <1>2, <1>3, <1>4, <1>5

\* A step of enqueue is one of WaitQueue's, or the exchange, of which it knows
\* nothing.
LEMMA ProducerIs ==
  ASSUME NEW t \in Threads, Producer(t)
  PROVE  \/ W!DrawTicket(t) /\ WP!DrawTicket(t) /\ WP!Producer(t)
            /\ DrawTicket(t) /\ ~destroyed /\ UNCHANGED listVars
         \/ W!Publish(t) /\ WP!Publish(t) /\ WP!Producer(t)
            /\ t \in Bounded /\ UNCHANGED listVars
         \/ W!Publish(t) /\ WP!Publish(t) /\ WP!Producer(t)
            /\ t \in Extra /\ LinkOld(t)
         \/ W!LoadSleeping(t) /\ WP!LoadSleeping(t) /\ WP!Producer(t) /\ UNCHANGED listVars
         \/ W!Notify(t) /\ WP!Notify(t) /\ WP!Producer(t) /\ UNCHANGED listVars
         \/ t \in Extra /\ pc[t] = "drawn" /\ Swap(t) /\ UNCHANGED waitVars
<1>1. /\ W!DrawTicket(t) => WP!DrawTicket(t)
      /\ W!Publish(t) => WP!Publish(t)
      /\ W!LoadSleeping(t) => WP!LoadSleeping(t)
      /\ W!Notify(t) => WP!Notify(t)
  BY Names
     DEF W!DrawTicket, WP!DrawTicket, W!Publish, WP!Publish, W!LoadSleeping, WP!LoadSleeping,
         W!Notify, WP!Notify, W!Notified, WP!Notified, W!consumerVars, WP!consumerVars,
         W!scanVars, WP!scanVars
<1> QED
  BY <1>1 DEF Producer, DrawTicket, Publish, Exchange, LinkExtra, LoadSleeping, Notify, WP!Producer

\* What the lanes' invariant says of a node.
LEMMA LanesSay ==
  ASSUME TypeOK, IndexTypes, WP!Lanes
  PROVE  /\ \A t \in Threads, n \in Slots : count_[t][n] # kEmpty <=> n < write_head_[t]
         /\ \A t \in Threads, n \in Slots :
              n < write_head_[t] => count_[t][n] \in Nat /\ count_[t][n] < up_to_
         /\ \A t, u \in Threads, n, m \in Slots :
              n < write_head_[t] /\ m < write_head_[u] /\ count_[t][n] = count_[u][m]
                => t = u /\ n = m
         /\ \A t, u \in Threads, m \in Slots :
              pc[t] = "drawn" /\ m < write_head_[u] => cur[t] # count_[u][m]
         /\ \A t \in Threads : pc[t] = "drawn" => write_head_[t] < MaxItems
         /\ \A t, u \in Threads, n \in Slots :
              before[t][n][u] \in Nat /\ before[t][n][u] <= write_head_[u]
         /\ \A t, u \in Threads, n, m \in Slots :
              n < write_head_[t] /\ m < before[t][n][u] => count_[u][m] < count_[t][n]
<1>0. WP!ProducerTypes /\ WP!HistoryTypes /\ WP!Threads = Threads /\ WP!Slots = Slots
  BY Names DEF TypeOK
<1>1. \A t \in Threads, n \in Slots : count_[t][n] # kEmpty <=> n < write_head_[t]
  BY <1>0 DEF WP!Lanes, WP!Published
<1>2. \A t \in Threads, n \in Slots :
        n < write_head_[t] => count_[t][n] \in Nat /\ count_[t][n] < up_to_
  BY <1>0, <1>1 DEF WP!Lanes, WP!Tickets, WP!ProducerTypes
<1>3. \A t, u \in Threads, n, m \in Slots :
        n < write_head_[t] /\ m < write_head_[u] /\ count_[t][n] = count_[u][m]
          => t = u /\ n = m
  BY <1>0 DEF WP!Lanes, WP!Unique
<1>4. \A t, u \in Threads, m \in Slots :
        pc[t] = "drawn" /\ m < write_head_[u] => cur[t] # count_[u][m]
  BY <1>0 DEF WP!Lanes, WP!Unique
<1>5. \A t \in Threads : pc[t] = "drawn" => write_head_[t] < MaxItems
  BY <1>0 DEF WP!Lanes, WP!InCall
<1>6. ASSUME NEW t \in Threads, NEW u \in Threads, NEW n \in Slots
      PROVE  before[t][n][u] \in Nat /\ before[t][n][u] <= write_head_[u]
  <2>1. before[t][n][u] \in Nat
    BY <1>0, ListIndices DEF WP!HistoryTypes
  <2>2. before[t][n][u] <= WP!Completed[u]
    BY <1>0 DEF WP!Lanes, WP!Order
  <2>3. WP!Completed[u] \in Nat /\ WP!Completed[u] <= write_head_[u] /\ write_head_[u] \in Nat
    BY <1>0, Names, WP!CompletedBound, SizeAssumption
  <2> QED
    BY <2>1, <2>2, <2>3
<1>7. \A t, u \in Threads, n, m \in Slots :
        n < write_head_[t] /\ m < before[t][n][u] => count_[u][m] < count_[t][n]
  BY <1>0 DEF WP!Lanes, WP!Order
<1> QED
  BY <1>1, <1>2, <1>3, <1>4, <1>5, <1>6, <1>7

\* enqueue leaves the consumer's part alone, and what is published or noted.
LEMMA ProducerFrame ==
  ASSUME TypeOK, IndexTypes, WP!Lanes, NEW t \in Threads, Producer(t)
  PROVE  /\ UNCHANGED <<read_head_, lowest_seen_, i, min_count, min_index, prev_index, sleeping_>>
         /\ UNCHANGED <<extra_head_, extra_next, endVars, deleted>>
         /\ consumer' = consumer \/ (consumer = "asleep" /\ consumer' = "wait")
         /\ \A u \in Threads : write_head_'[u] \in Nat /\ write_head_[u] <= write_head_'[u]
         /\ \A u \in Threads, n \in Slots : n < write_head_[u] =>
              count_'[u][n] = count_[u][n] /\ before'[u][n] = before[u][n]
<1>0. /\ WP!ProducerTypes /\ WP!HistoryTypes /\ WP!Threads = Threads /\ WP!Slots = Slots
      /\ LoopOver \in Nat /\ kEmpty \notin Nat /\ MaxItems \in Nat
  BY Names, SizeAssumption DEF TypeOK
<1>1. CASE WP!Producer(t) /\ (UNCHANGED listVars \/ LinkOld(t))
  <2>1. /\ UNCHANGED <<read_head_, lowest_seen_, i, min_count, min_index, prev_index, sleeping_>>
        /\ consumer' = IF WP!Notify(t) THEN WP!Notified ELSE consumer
        /\ \A u \in Threads : write_head_[u] <= write_head_'[u]
        /\ \A u \in Threads : \A n \in Slots :
             count_[u][n] # kEmpty => count_'[u][n] = count_[u][n]
        /\ \A u \in Threads : \A n \in Slots :
             n < write_head_[u] => before'[u][n] = before[u][n]
    BY <1>0, <1>1, WP!ProducerFrame, SizeAssumption
  <2>2. UNCHANGED <<extra_head_, extra_next, endVars, deleted>>
    BY <1>1 DEF listVars, LinkOld
  <2>3. WP!ProducerTypes'
    BY <1>0, <1>1, WP!ProducerKeepsLaneTypes, SizeAssumption
  <2>4. \A u \in Threads : write_head_'[u] \in Nat
    BY <1>0, <2>3, ListIndices DEF WP!ProducerTypes
  <2> QED
    BY <2>1, <2>2, <2>4, LanesSay DEF WP!Notified
<1>2. CASE Swap(t) /\ UNCHANGED waitVars
  BY <1>0, <1>2, ListIndices DEF Swap, waitVars, WP!ProducerTypes
<1> QED
  BY <1>1, <1>2, ProducerIs

\* No step of enqueue breaks the lanes' invariant.
LEMMA ProducerKeepsLanes ==
  ASSUME TypeOK, WP!Lanes, NEW t \in Threads, Producer(t)
  PROVE  WP!Lanes' /\ W!ProducerTypes' /\ W!HistoryTypes'
<1>0. /\ WP!ProducerTypes /\ WP!HistoryTypes /\ WP!Threads = Threads /\ WP!Slots = Slots
      /\ LoopOver \in Nat /\ kEmpty \notin Nat /\ MaxItems \in Nat
  BY Names, SizeAssumption DEF TypeOK
<1>1. CASE WP!Producer(t)
  BY <1>0, <1>1, WP!ProducerKeepsLanes, WP!ProducerKeepsLaneTypes, Names
<1>2. CASE UNCHANGED waitVars
  <2>1. WP!Lanes'
    BY <1>2 DEF waitVars, WP!Lanes, WP!Published, WP!Tickets, WP!Unique, WP!InCall, WP!Order,
       WP!Completed
  <2>2. WP!ProducerTypes' /\ WP!HistoryTypes'
    BY <1>0, <1>2 DEF waitVars, WP!ProducerTypes, WP!HistoryTypes
  <2> QED
    BY <2>1, <2>2, Names
<1> QED
  BY <1>1, <1>2, ProducerIs

\* A thread adds a node when it has room for one, and before the end.
LEMMA ProducerKeepsList ==
  ASSUME TypeOK, IndexTypes, WP!Lanes, List, Status, NEW t \in Threads, Producer(t)
  PROVE  List' /\ IndexTypes' /\ Status' /\ ListTypes'
<1>0. PICK K, h, f : ListOrder(K, h, f) /\ Precedes(before, K, f)
  BY DEF List
<1>1. /\ ListTypes /\ t \in Threads
      /\ pc \in [Threads -> {"idle", "drawn", "published", "notify"}]
      /\ write_head_ \in [Threads -> Slots] /\ read_head_' = read_head_
      /\ \A u \in Linking : u \in Extra /\ u \in Threads
      /\ pc[t] = "drawn" => write_head_[t] < MaxItems
      /\ pc[t] # "idle" => ~destroyed
  BY Names, LanesSay, ProducerFrame, ListIndices
     DEF TypeOK, W!ProducerTypes, IndexTypes, Linking, Status
<1>2. CASE \/ W!DrawTicket(t) /\ ~destroyed /\ UNCHANGED listVars
           \/ W!LoadSleeping(t) /\ UNCHANGED listVars
           \/ W!Notify(t) /\ UNCHANGED listVars
           \/ W!Publish(t) /\ t \in Bounded /\ UNCHANGED listVars
  <2>1. pc[t] \in {"idle", "drawn", "published", "notify"} /\ ~destroyed
    BY <1>1, <1>2 DEF W!DrawTicket, W!LoadSleeping, W!Notify, W!Publish
  <2>2. /\ \A u \in Extra : write_head_'[u] = write_head_[u]
        /\ \A u \in Linking : write_head_'[u] = write_head_[u]
        /\ UNCHANGED listVars
    <3>1. CASE W!Publish(t) /\ t \in Bounded
      BY <1>1, <1>2, <3>1, ListIndices DEF W!Publish
    <3> QED
      BY <1>1, <1>2, <3>1 DEF W!DrawTicket, W!LoadSleeping, W!Notify
  <2>3. ListOrder(K, h, f)' /\ Linking' = Linking
    BY <1>0, <1>1, <2>1, <2>2, OtherStepKeepsList DEF listVars, endVars
  <2>4. Precedes(before, K, f)'
    <3> SUFFICES ASSUME NEW k \in 1..K, NEW u \in Extra, NEW m \in Slots,
                        m < before'[f[k][1]][f[k][2]][u]
                 PROVE  \E j \in 1..(k - 1) : f[j] = <<u, m>>
      BY DEF Precedes
    <3>1. CASE f[k][2] < write_head_[f[k][1]]
      <4>1. before'[f[k][1]][f[k][2]] = before[f[k][1]][f[k][2]]
        BY <1>0, <3>1, ProducerFrame, ListNodes DEF ListOrder
      <4> QED
        BY <1>0, <4>1 DEF Precedes
    <3>2. CASE ~(f[k][2] < write_head_[f[k][1]])
      <4>1. f[k][1] \in Linking
        BY <1>0, <3>2, ListNodes, AddedIs DEF ListOrder
      <4>2. pc[f[k][1]] = "drawn"
        BY <4>1 DEF Status
      <4>3. PICK v \in Linking : v = f[k][1]
        BY <4>1
      <4>4. before'[v] = before[v]
        <5>1. CASE W!DrawTicket(t)
          <6>1. v # t
            BY <4>2, <4>3, <5>1 DEF W!DrawTicket
          <6> QED
            BY <1>1, <5>1, <6>1, Names DEF W!DrawTicket, TypeOK, W!HistoryTypes
        <5> QED
          BY <1>2, <5>1 DEF W!LoadSleeping, W!Notify, W!Publish
      <4> QED
        BY <1>0, <4>3, <4>4 DEF Precedes
    <3> QED
      BY <3>1, <3>2
  <2>5. \A u \in Linking : pc'[u] = "drawn"
    <3>1. t \notin Linking \/ pc[t] # "drawn" \/ t \in Bounded
      BY <1>2 DEF W!DrawTicket, W!LoadSleeping, W!Notify
    <3>2. t \notin Linking
      BY <1>2, <3>1, ListIndices DEF Status, Linking, W!DrawTicket, W!LoadSleeping, W!Notify
    <3> QED
      BY <1>1, <1>2, <3>2 DEF Status, W!DrawTicket, W!LoadSleeping, W!Notify, W!Publish
  <2>6. ~destroyed'
    BY <2>1, <2>2 DEF listVars, endVars
  <2>7. IndexTypes'
    <3>1. W!ProducerTypes'
      BY ProducerKeepsLanes
    <3>2. write_head_' \in [Threads -> Slots]
      BY <3>1, Names DEF W!ProducerTypes
    <3>3. \A u \in Threads : read_head_[u] <= write_head_'[u]
      BY <1>1, ProducerFrame, ListIndices DEF IndexTypes
    <3> QED
      BY <1>1, <2>2, <2>3, <3>2, <3>3 DEF IndexTypes
  <2>8. ListTypes'
    BY <1>1, <2>2 DEF ListTypes, listVars, endVars
  <2> QED
    BY <2>3, <2>4, <2>5, <2>6, <2>7, <2>8 DEF List, Status
<1>3. CASE W!Publish(t) /\ t \in Extra /\ LinkOld(t)
  <2>1. pc[t] = "drawn" /\ write_head_' = [write_head_ EXCEPT ![t] = @ + 1] /\ before' = before
    BY <1>3 DEF W!Publish
  <2>2. ListOrder(K, h, f)' /\ IndexTypes' /\ Linking' = Linking \ {t}
    BY <1>0, <1>1, <1>3, <2>1, LinkKeepsList
  <2>3. ListTypes'
    BY <1>1, <1>3, <2>1, EnqueueKeepsListTypes
  <2>4. \A u \in Linking \ {t} : pc'[u] = "drawn"
    BY <1>1, <1>3 DEF Status, W!Publish
  <2>5. ~destroyed'
    BY <1>1, <1>3, <2>1 DEF LinkOld, endVars
  <2>6. Precedes(before, K, f)'
    BY <1>0, <2>1 DEF Precedes
  <2> QED
    BY <2>2, <2>3, <2>4, <2>5, <2>6 DEF List, Status
<1>4. CASE t \in Extra /\ pc[t] = "drawn" /\ Swap(t) /\ UNCHANGED waitVars
  <2>1. /\ UNCHANGED <<write_head_, read_head_, before, pc, consumer>>
        /\ write_head_[t] < MaxItems /\ write_head_[t] \in Slots /\ ~destroyed
    BY <1>1, <1>4 DEF waitVars
  <2>2. PICK x : x = NewNode(t)
    OBVIOUS
  <2>3. PICK g : g = [f EXCEPT ![K + 1] = x]
    OBVIOUS
  <2>4. ListOrder(K + 1, h, g)' /\ IndexTypes' /\ Linking' = Linking \cup {t}
    BY <1>0, <1>1, <1>4, <2>1, <2>2, <2>3, SwapKeepsList
  <2>5. Precedes(before, K + 1, g)
    <3>1. x = <<t, write_head_[t]>>
      BY <2>2 DEF NewNode
    <3>2. \A u \in Extra :
            /\ before[t][write_head_[t]][u] \in Nat
            /\ before[t][write_head_[t]][u] <= write_head_[u]
      BY <1>1, <2>1, LanesSay, ListIndices
    <3> QED
      BY <1>0, <1>4, <2>1, <2>3, <3>1, <3>2, SwapKeepsPrecedes
  <2>6. Precedes(before, K + 1, g)'
    BY <2>1, <2>5 DEF Precedes
  <2>7. ListTypes'
    BY <1>1, <1>4, <2>1, EnqueueKeepsListTypes
  <2>8. Status'
    BY <1>4, <2>1, <2>4 DEF Status, Swap, endVars
  <2> QED
    BY <2>4, <2>6, <2>7, <2>8 DEF List
<1> QED
  BY <1>2, <1>3, <1>4, ProducerIs

\* The exchange changes nothing that WaitQueue knows, and a link no more than a
\* publication does: producers that wake the consumer are those of WaitQueue.
LEMMA ProducerKeepsWakeups ==
  ASSUME TypeOK, WP!Lanes, WP!Sleeping, NoLostWakeup, NEW t \in Threads, Producer(t)
  PROVE  WP!Sleeping' /\ NoLostWakeup'
<1>0. /\ WP!ProducerTypes /\ WP!HistoryTypes /\ WP!Threads = Threads
      /\ LoopOver \in Nat /\ kEmpty \notin Nat /\ MaxItems \in Nat /\ WP!NoLostWakeup
  BY Names, SizeAssumption DEF TypeOK, NoLostWakeup
<1>1. CASE WP!Producer(t)
  BY <1>0, <1>1, WP!ProducerKeepsNoLostWakeup, Names DEF NoLostWakeup
<1>2. CASE UNCHANGED waitVars
  BY <1>0, <1>2, Names DEF waitVars, WP!Sleeping, WP!NoLostWakeup, NoLostWakeup
<1> QED
  BY <1>1, <1>2, ProducerIs

-----------------------------------------------------------------------------
(* Counting tickets. *)

\* There are finitely many nodes, and what was dequeued had drawn its ticket.
LEMMA CountedSets ==
  ASSUME IndexTypes
  PROVE  /\ Dequeued \subseteq Drawn /\ IsFiniteSet(Drawn) /\ IsFiniteSet(Dequeued)
         /\ Cardinality(Drawn) \in Nat /\ Cardinality(Dequeued) \in Nat
         /\ Cardinality(Dequeued) <= Cardinality(Drawn)
         /\ Cardinality(Dequeued) = Cardinality(Drawn) => Dequeued = Drawn
<1>1. IsFiniteSet(Threads) /\ IsFiniteSet(Slots)
  <2>1. IsFiniteSet(Bounded) /\ IsFiniteSet(Extra) /\ IsFiniteSet(Slots)
    BY SizeAssumption, FS_Interval DEF Bounded, Extra, Slots
  <2> QED
    BY <2>1, FS_Union DEF Threads
<1>2. IsFiniteSet(Threads \X Slots)
  BY <1>1, FS_Product
<1>3. IsFiniteSet(Drawn)
  BY <1>2, FS_Subset DEF Drawn
<1>4. Dequeued \subseteq Drawn
  BY ListIndices DEF Dequeued, Drawn, IndexTypes
<1> QED
  BY <1>3, <1>4, FS_Subset, FS_CardinalityType

\* lowest_seen_ is at most up_to_, and equal to it only if all was dequeued.
LEMMA CountsMeet ==
  ASSUME IndexTypes, Counted, lowest_seen_ \in Nat, up_to_ \in Nat
  PROVE  /\ lowest_seen_ <= up_to_
         /\ lowest_seen_ = up_to_ => Dequeued = Drawn
BY CountedSets DEF Counted

\* When all is dequeued, no thread has a node to come and the lanes are empty.
LEMMA AllDequeued ==
  ASSUME IndexTypes, Dequeued = Drawn, NEW t \in Threads
  PROVE  pc[t] # "drawn" /\ read_head_[t] = write_head_[t]
<1>1. /\ write_head_[t] \in Slots /\ write_head_[t] \in Nat /\ read_head_[t] \in Slots
      /\ read_head_[t] \in Nat /\ read_head_[t] <= write_head_[t]
  BY ListIndices DEF IndexTypes
<1>2. ASSUME pc[t] = "drawn"
      PROVE  FALSE
  <2>1. <<t, write_head_[t]>> \in Drawn
    BY <1>1, <1>2 DEF Drawn
  <2>2. <<t, write_head_[t]>> \in Dequeued
    BY <2>1
  <2> QED
    BY <1>1, <2>2 DEF Dequeued
<1>3. ASSUME read_head_[t] < write_head_[t]
      PROVE  FALSE
  <2>1. <<t, read_head_[t]>> \in Drawn
    BY <1>1, <1>3 DEF Drawn
  <2>2. <<t, read_head_[t]>> \in Dequeued
    BY <2>1
  <2> QED
    BY <1>1, <2>2 DEF Dequeued
<1> QED
  BY <1>1, <1>2, <1>3

\* fetch_add draws one ticket; nothing else in enqueue draws one.
LEMMA ProducerKeepsCounted ==
  ASSUME TypeOK, IndexTypes, WP!Lanes, Counted, NEW t \in Threads, Producer(t)
  PROVE  Counted'
<1>0. /\ up_to_ \in Nat /\ read_head_' = read_head_ /\ lowest_seen_' = lowest_seen_
      /\ pc \in [Threads -> {"idle", "drawn", "published", "notify"}]
      /\ write_head_ \in [Threads -> Slots] /\ write_head_[t] \in Nat
      /\ \A n \in Slots : n \in Nat
  BY Names, ProducerFrame, ListIndices DEF TypeOK, W!ProducerTypes, IndexTypes
<1>1. Dequeued' = Dequeued
  BY <1>0 DEF Dequeued
<1>2. CASE W!DrawTicket(t)
  <2>1. /\ up_to_' = up_to_ + 1 /\ write_head_' = write_head_ /\ pc[t] = "idle"
        /\ pc' = [pc EXCEPT ![t] = "drawn"]
    BY <1>2 DEF W!DrawTicket
  <2>2. Drawn' = Drawn \cup {<<t, write_head_[t]>>}
    <3>1. ASSUME NEW x \in Threads \X Slots
          PROVE  x \in Drawn' <=> x \in Drawn \/ x = <<t, write_head_[t]>>
      <4>1. x[1] \in Threads /\ x = <<x[1], x[2]>>
        OBVIOUS
      <4>2. pc'[x[1]] = "drawn" <=> pc[x[1]] = "drawn" \/ x[1] = t
        BY <1>0, <2>1, <4>1
      <4>3. x \in Drawn' <=> x[2] < write_head_[x[1]] \/ (pc'[x[1]] = "drawn" /\ x[2] = write_head_[x[1]])
        BY <2>1 DEF Drawn
      <4> QED
        BY <4>1, <4>2, <4>3 DEF Drawn
    <3>2. Drawn' \subseteq Threads \X Slots /\ Drawn \subseteq Threads \X Slots
      BY DEF Drawn
    <3>3. <<t, write_head_[t]>> \in Threads \X Slots
      BY <1>0
    <3> QED
      BY <3>1, <3>2, <3>3
  <2>3. <<t, write_head_[t]>> \notin Drawn
    BY <1>0, <2>1 DEF Drawn
  <2>4. Cardinality(Drawn') = Cardinality(Drawn) + 1
    BY <2>2, <2>3, CountedSets, FS_AddElement
  <2> QED
    BY <1>0, <1>1, <2>1, <2>4 DEF Counted
<1>3. CASE W!Publish(t)
  <2>1. /\ up_to_' = up_to_ /\ pc[t] = "drawn"
        /\ write_head_' = [write_head_ EXCEPT ![t] = @ + 1]
        /\ pc' = [pc EXCEPT ![t] = "published"]
    BY <1>3 DEF W!Publish
  <2>2. Drawn' = Drawn
    <3>1. ASSUME NEW x \in Threads \X Slots
          PROVE  x \in Drawn' <=> x \in Drawn
      <4>1. x[1] \in Threads /\ x[2] \in Nat
        BY <1>0
      <4>2. CASE x[1] = t
        <5>1. write_head_'[x[1]] = write_head_[t] + 1 /\ pc'[x[1]] # "drawn"
          BY <1>0, <2>1, <4>2
        <5>2. x \in Drawn' <=> x[2] < write_head_[t] + 1
          BY <5>1 DEF Drawn
        <5> QED
          BY <1>0, <2>1, <4>1, <4>2, <5>2 DEF Drawn
      <4>3. CASE x[1] # t
        BY <1>0, <2>1, <4>1, <4>3 DEF Drawn
      <4> QED
        BY <4>2, <4>3
    <3> QED
      BY <3>1 DEF Drawn
  <2> QED
    BY <1>0, <1>1, <2>1, <2>2 DEF Counted
<1>4. CASE W!LoadSleeping(t) \/ W!Notify(t) \/ UNCHANGED waitVars
  <2>1. /\ up_to_' = up_to_ /\ write_head_' = write_head_
        /\ \A u \in Threads : pc'[u] = "drawn" <=> pc[u] = "drawn"
    BY <1>0, <1>4 DEF W!LoadSleeping, W!Notify, waitVars
  <2>2. Drawn' = Drawn
    <3>1. \A x \in Threads \X Slots : x \in Drawn' <=> x \in Drawn
      BY <2>1 DEF Drawn
    <3> QED
      BY <3>1 DEF Drawn
  <2> QED
    BY <1>0, <1>1, <2>1, <2>2 DEF Counted
<1> QED
  BY <1>2, <1>3, <1>4, ProducerIs

\* The tickets drawn for the lanes are not below lowest_seen_.
LEMMA ProducerKeepsLanesNotBelow ==
  ASSUME TypeOK, IndexTypes, WP!Lanes, Counted, LanesNotBelow, NEW t \in Threads, Producer(t)
  PROVE  LanesNotBelow'
<1>0. /\ WP!ProducerTypes /\ WP!HistoryTypes /\ WP!Threads = Threads /\ WP!Slots = Slots
      /\ LoopOver \in Nat /\ kEmpty \notin Nat /\ MaxItems \in Nat
      /\ lowest_seen_ <= up_to_
      /\ read_head_' = read_head_ /\ lowest_seen_' = lowest_seen_
      /\ \A u \in Bounded : u \in Threads
  BY Names, SizeAssumption, CountsMeet, ProducerFrame, ListIndices DEF TypeOK, W!ProducerTypes
<1>1. CASE WP!Producer(t)
  <2>1. ASSUME NEW u \in Bounded, pc'[u] = "drawn"
        PROVE  lowest_seen_ <= cur'[u]
    <3>1. cur'[u] = up_to_ \/ (pc[u] = "drawn" /\ cur'[u] = cur[u])
      BY <1>0, <1>1, <2>1, WP!ProducerDraws
    <3> QED
      BY <1>0, <3>1 DEF LanesNotBelow
  <2>2. ASSUME NEW u \in Bounded, NEW n \in Slots, read_head_[u] <= n, n < write_head_'[u]
        PROVE  lowest_seen_ <= count_'[u][n]
    <3>1. \/ pc[t] = "drawn" /\ u = t /\ count_'[u][n] = cur[t]
          \/ count_'[u][n] = count_[u][n] /\ n < write_head_[u]
      BY <1>0, <1>1, <2>2, WP!ProducerWrites
    <3> QED
      BY <2>2, <3>1 DEF LanesNotBelow
  <2> QED
    BY <1>0, <2>1, <2>2 DEF LanesNotBelow
<1>2. CASE UNCHANGED waitVars
  BY <1>2 DEF waitVars, LanesNotBelow
<1> QED
  BY <1>1, <1>2, ProducerIs

-----------------------------------------------------------------------------
(* What the consumer has found, while the producers go on. *)

\* The node the consumer has loaded is published and the next of its thread.
LEMMA NextPublished ==
  ASSUME TypeOK, IndexTypes, WP!Lanes, List, Status, Scan,
         consumer = "scan", extra_next \in ExtraNodes
  PROVE  /\ extra_next = next_[extra_head_] /\ extra_next # nullptr /\ ~destroyed
         /\ extra_next[1] \in Extra /\ extra_next[1] \in Threads /\ extra_next[2] \in Slots
         /\ extra_next[2] = read_head_[extra_next[1]]
         /\ extra_next[2] < write_head_[extra_next[1]]
         /\ CountOf(extra_next) \in Nat
<1>1. PICK K, h, f : ListOrder(K, h, f)
  BY DEF List
<1>2. extra_next = next_[extra_head_] /\ extra_next # nullptr /\ ~destroyed
  BY NodeIs DEF Scan, Status
<1>3. /\ extra_next[1] \in Extra
      /\ extra_next[2] = read_head_[extra_next[1]]
      /\ extra_next[2] < write_head_[extra_next[1]]
  BY <1>1, <1>2, NextIsUnread DEF TypeOK
<1>4. extra_next[1] \in Threads /\ extra_next[2] \in Slots
  BY <1>3, ListIndices DEF IndexTypes
<1> QED
  BY <1>2, <1>3, <1>4, LanesSay DEF CountOf

\* A head is published iff the lane has an element that was not dequeued.
LEMMA HeadIs ==
  ASSUME TypeOK, IndexTypes, WP!Lanes, NEW u \in Threads
  PROVE  /\ W!HeadCount(u) # kEmpty <=> read_head_[u] < write_head_[u]
         /\ W!HeadCount(u) \in Nat \cup {kEmpty}
         /\ read_head_[u] \in Slots /\ read_head_[u] \in Nat /\ write_head_[u] \in Nat
<1>1. read_head_[u] \in Slots /\ read_head_[u] \in Nat /\ write_head_[u] \in Nat
  BY ListIndices DEF IndexTypes
<1> QED
  BY <1>1, LanesSay DEF W!HeadCount

\* What the scan has established survives enqueue.
LEMMA ProducerKeepsScan ==
  ASSUME TypeOK, IndexTypes, WP!Lanes, List, Status, Scan, NEW t \in Threads, Producer(t)
  PROVE  Scan'
<1>0. /\ UNCHANGED <<read_head_, i, min_count, min_index, prev_index, extra_head_, extra_next>>
      /\ consumer' = "scan" => consumer = "scan"
      /\ \A u \in Bounded : u \in Threads
  BY ProducerFrame, ListIndices
<1>1. \A u \in Threads : W!HeadCount(u) # kEmpty =>
        count_'[u][read_head_[u]] = W!HeadCount(u)
  BY HeadIs, ProducerFrame DEF W!HeadCount
<1> SUFFICES ASSUME consumer = "scan"
             PROVE  /\ extra_next \in ExtraNodes => extra_next = next_'[extra_head_]
                    /\ min_count # kEmpty =>
                         \/ min_index \in Bounded /\ min_count = count_'[min_index][read_head_[min_index]]
                         \/ extra_next \in ExtraNodes /\ min_count = CountOf(extra_next)'
                    /\ min_index \in Bounded => count_'[min_index][read_head_[min_index]] # kEmpty
                    /\ prev_index \in Bounded => count_'[prev_index][read_head_[prev_index]] # kEmpty
                    /\ min_index = -2 =>
                         /\ prev_index = -2 /\ extra_next \in ExtraNodes
                         /\ min_count = CountOf(extra_next)'
                         /\ \A u \in Bounded :
                              u < i => before'[extra_next[1]][extra_next[2]][u] <= read_head_[u]
  BY <1>0 DEF Scan, W!HeadCount
<1>2. ASSUME extra_next \in ExtraNodes
      PROVE  /\ extra_next = next_'[extra_head_]
             /\ CountOf(extra_next)' = CountOf(extra_next)
             /\ before'[extra_next[1]][extra_next[2]] = before[extra_next[1]][extra_next[2]]
  <2>1. /\ extra_next = next_[extra_head_] /\ extra_next # nullptr
        /\ extra_next[1] \in Threads /\ extra_next[2] \in Slots
        /\ extra_next[2] < write_head_[extra_next[1]]
    BY <1>2, NextPublished
  <2>2. next_'[extra_head_] = next_[extra_head_]
    <3>1. CASE LinkOld(t) /\ t \in Extra
      <4>1. t \in Linking
        BY <3>1 DEF LinkOld, Linking
      <4>2. next_[old[t]] = nullptr
        BY <4>1, LinkFromNull DEF List
      <4>3. old[t] # extra_head_
        BY <2>1, <4>2
      <4> QED
        BY <3>1, <4>3 DEF LinkOld, Linked, TypeOK, ListTypes
    <3> QED
      BY <3>1, ProducerIs DEF listVars, Swap
  <2> QED
    BY <1>0, <2>1, <2>2, ProducerFrame DEF CountOf
<1>3. /\ min_index \in Bounded => count_'[min_index][read_head_[min_index]] = W!HeadCount(min_index)
      /\ prev_index \in Bounded => count_'[prev_index][read_head_[prev_index]] = W!HeadCount(prev_index)
  BY <1>0, <1>1 DEF Scan
<1> QED
  BY <1>2, <1>3 DEF Scan

\* What has been dequeued keeps its history.
LEMMA ProducerKeepsInOrder ==
  ASSUME TypeOK, IndexTypes, WP!Lanes, ExtraInOrder, NEW t \in Threads, Producer(t)
  PROVE  ExtraInOrder'
<1> SUFFICES ASSUME NEW a \in Extra, NEW n \in 0..(read_head_'[a] - 1), NEW u \in Threads
             PROVE  before'[a][n][u] <= read_head_'[u]
  BY DEF ExtraInOrder
<1>1. read_head_' = read_head_
  BY ProducerFrame
<1>2. /\ a \in Threads /\ n \in 0..(read_head_[a] - 1)
      /\ n \in Slots /\ n < write_head_[a]
  BY <1>1, ListIndices DEF IndexTypes, Slots
<1>3. before'[a][n] = before[a][n]
  BY <1>2, ProducerFrame
<1> QED
  BY <1>1, <1>2, <1>3 DEF ExtraInOrder

-----------------------------------------------------------------------------
(* The consumer. *)

\* What dequeue leaves alone.
LEMMA ConsumerFrame ==
  ASSUME Status, Consumer \/ SpuriousWake
  PROVE  /\ UNCHANGED <<up_to_, count_, write_head_, pc, cur, before>>
         /\ UNCHANGED <<next_, extra_tail_, old, destroyed, deconstructed>>
         /\ ~destroyed
         /\ ~ReturnMin /\ ~ReturnExtra =>
              UNCHANGED <<read_head_, lowest_seen_, extra_head_, deleted>>
<1> USE DEF W!producerVars, W!scanVars, listVars, endVars, NewTurn
<1>1. CASE BeginDequeue
  BY <1>1 DEF BeginDequeue, W!BeginDequeue
<1>2. CASE LoadExtra
  BY <1>2 DEF LoadExtra, LoadNext, Status
<1>3. CASE ScanLane
  BY <1>3 DEF ScanLane, Status
<1>4. CASE Rescan
  BY <1>4 DEF Rescan, W!Rescan, W!ScanOver, Status
<1>5. CASE ReturnMin
  BY <1>5 DEF ReturnMin, W!ReturnMin, W!ScanOver, Status
<1>6. CASE ReturnExtra
  BY <1>6 DEF ReturnExtra, W!ScanOver, CutHead, Status
<1>7. CASE CheckUpTo
  BY <1>7 DEF CheckUpTo, W!CheckUpTo, W!ScanOver, Status
<1>8. CASE Announce
  BY <1>8 DEF Announce, W!Announce, Status
<1>9. CASE Wait
  BY <1>9 DEF Wait, W!Wait, Status
<1>10. CASE Resume
  BY <1>10 DEF Resume, W!Resume, Status
<1>11. CASE SpuriousWake
  BY <1>11 DEF SpuriousWake, W!SpuriousWake, Status
<1> QED
  BY <1>1, <1>2, <1>3, <1>4, <1>5, <1>6, <1>7, <1>8, <1>9, <1>10, <1>11 DEF Consumer

\* dequeue changes nothing in the lanes.
LEMMA ConsumerKeepsLanes ==
  ASSUME TypeOK, WP!Lanes, Status, Consumer \/ SpuriousWake
  PROVE  WP!Lanes' /\ W!ProducerTypes' /\ W!HistoryTypes'
<1>1. UNCHANGED <<up_to_, count_, write_head_, pc, cur, before>>
  BY ConsumerFrame
<1>2. WP!Lanes'
  BY <1>1 DEF WP!Lanes, WP!Published, WP!Tickets, WP!Unique, WP!InCall, WP!Order, WP!Completed
<1>3. W!ProducerTypes'
  BY <1>1 DEF TypeOK, W!ProducerTypes
<1>4. atCall' \in [Threads -> Slots]
  <2>1. W!Completed \in [Threads -> Slots]
    BY Names, WP!CompletedType, SizeAssumption DEF TypeOK
  <2>2. atCall' = atCall \/ atCall' = W!Completed
    BY DEF Consumer, BeginDequeue, W!BeginDequeue, LoadExtra, ScanLane, Rescan, W!Rescan,
       ReturnMin, W!ReturnMin, ReturnExtra, CheckUpTo, W!CheckUpTo, Announce, W!Announce,
       Wait, W!Wait, Resume, W!Resume, SpuriousWake, W!SpuriousWake
  <2> QED
    BY <2>1, <2>2, Names DEF TypeOK, W!HistoryTypes
<1> QED
  BY <1>1, <1>2, <1>3, <1>4, Names DEF TypeOK, W!HistoryTypes

\* The minimum of a scan is the ticket of a node that is next to be dequeued: of
\* lane min_index, or of the list.
LEMMA MinPublished ==
  ASSUME TypeOK, IndexTypes, WP!Lanes, List, Status, Scan,
         consumer = "scan", min_count # kEmpty
  PROVE  \E v \in Threads :
           /\ v = min_index \/ (v \in Extra /\ v = extra_next[1])
           /\ min_count = count_[v][read_head_[v]] /\ min_count \in Nat
           /\ read_head_[v] < write_head_[v]
<1>1. CASE min_index \in Bounded /\ min_count = W!HeadCount(min_index)
  <2>1. min_index \in Threads
    BY <1>1, ListIndices
  <2>2. read_head_[min_index] < write_head_[min_index] /\ min_count \in Nat
    BY <1>1, <2>1, HeadIs
  <2> QED
    BY <1>1, <2>1, <2>2 DEF W!HeadCount
<1>2. CASE extra_next \in ExtraNodes /\ min_count = CountOf(extra_next)
  BY <1>2, NextPublished DEF CountOf
<1> QED
  BY <1>1, <1>2 DEF Scan

\* What ReturnMin and ReturnExtra dequeue, and from which thread.
LEMMA ReturnIs ==
  ASSUME TypeOK, IndexTypes, WP!Lanes, List, Status, Scan, ReturnMin \/ ReturnExtra
  PROVE  /\ consumer = "scan" /\ consumer' = "idle" /\ min_count # kEmpty
         /\ lowest_seen_' = IF lowest_seen_ = min_count THEN lowest_seen_ + 1 ELSE lowest_seen_
         /\ UNCHANGED <<sleeping_, i, min_count, min_index, prev_index>>
         /\ \E v \in Threads :
              /\ read_head_' = [read_head_ EXCEPT ![v] = @ + 1]
              /\ read_head_[v] < write_head_[v]
              /\ \/ ReturnMin /\ v \in Bounded /\ v = min_index /\ UNCHANGED listVars
                 \/ ReturnExtra /\ v \in Extra /\ extra_next \in ExtraNodes
                    /\ CutHead /\ v = extra_next[1] /\ min_index = -2 /\ i = LoopOver
<1>1. /\ consumer = "scan" /\ consumer' = "idle" /\ min_index # -1
      /\ lowest_seen_' = IF lowest_seen_ = min_count THEN lowest_seen_ + 1 ELSE lowest_seen_
      /\ UNCHANGED <<sleeping_, i, min_count, min_index, prev_index>>
  BY SizeAssumption, ListIndices
     DEF ReturnMin, W!ReturnMin, ReturnExtra, W!ScanOver, W!SeenNow, W!scanVars
<1>2. min_count # kEmpty
  BY <1>1 DEF Scan
<1>3. CASE ReturnMin
  <2>1. min_index \in Bounded
    BY <1>3 DEF ReturnMin, TypeOK
  <2>2. min_index \in Threads /\ read_head_[min_index] < write_head_[min_index]
    BY <1>1, <2>1, ListIndices, HeadIs DEF Scan
  <2> QED
    BY <1>1, <1>2, <1>3, <2>1, <2>2 DEF ReturnMin, W!ReturnMin
<1>4. CASE ReturnExtra
  <2>1. extra_next \in ExtraNodes /\ min_index = -2 /\ i = LoopOver /\ CutHead
    BY <1>1, <1>4 DEF ReturnExtra, W!ScanOver, Scan
  <2>2. /\ extra_next[1] \in Extra /\ extra_next[1] \in Threads
        /\ read_head_[extra_next[1]] < write_head_[extra_next[1]]
    BY <1>1, <2>1, NextPublished
  <2> QED
    BY <1>1, <1>2, <1>4, <2>1, <2>2 DEF CutHead
<1> QED
  BY <1>3, <1>4

\* dequeue keeps the list in order, and cuts it behind the node it returns.
LEMMA ConsumerKeepsList ==
  ASSUME TypeOK, IndexTypes, WP!Lanes, List, Status, Scan, Consumer \/ SpuriousWake
  PROVE  List' /\ IndexTypes' /\ Status' /\ ListTypes'
<1>0. PICK K, h, f : ListOrder(K, h, f) /\ Precedes(before, K, f)
  BY DEF List
<1>1. /\ UNCHANGED <<up_to_, count_, write_head_, pc, cur, before>>
      /\ UNCHANGED <<next_, extra_tail_, old, destroyed, deconstructed>>
      /\ ~destroyed /\ ListTypes
  BY ConsumerFrame DEF TypeOK
<1>2. Precedes(before, K, f)'
  BY <1>0, <1>1 DEF Precedes
<1>3. Linking' = Linking
  BY <1>1 DEF Linking
<1>4. Status'
  BY <1>1, <1>3 DEF Status
<1>5. CASE ReturnMin
  <2>1. PICK v \in Bounded :
          /\ read_head_' = [read_head_ EXCEPT ![v] = @ + 1] /\ read_head_[v] < write_head_[v]
          /\ UNCHANGED listVars /\ v \in Threads
    BY <1>5, ReturnIs, ListIndices DEF ReturnExtra, ReturnMin
  <2>2. /\ \A u \in Threads : read_head_'[u] = IF u = v THEN read_head_[u] + 1 ELSE read_head_[u]
        /\ \A u \in Threads : read_head_[u] \in Nat /\ write_head_[u] \in Nat
        /\ read_head_[v] + 1 \in Slots
    <3>1. write_head_[v] \in Slots /\ read_head_[v] \in Slots
      BY <2>1 DEF IndexTypes
    <3> QED
      BY <2>1, <3>1, ListIndices DEF IndexTypes
  <2>3. ListOrder(K, h, f)'
    <3>1. \A u \in Extra : read_head_'[u] = read_head_[u]
      BY <2>1, <2>2, ListIndices
    <3> QED
      BY <1>0, <1>1, <2>1, <3>1, OtherStepKeepsList DEF listVars, endVars
  <2>4. IndexTypes'
    BY <1>1, <1>3, <2>1, <2>2 DEF IndexTypes
  <2>5. ListTypes'
    BY <1>1, <2>1 DEF ListTypes, listVars, endVars
  <2> QED
    BY <1>2, <1>4, <2>3, <2>4, <2>5 DEF List
<1>6. CASE ReturnExtra
  <2>1. /\ extra_next \in ExtraNodes /\ CutHead /\ consumer = "scan"
    BY <1>6, ReturnIs DEF ReturnExtra, ReturnMin, TypeOK
  <2>2. extra_next = next_[extra_head_] /\ extra_next # nullptr
    BY <2>1, NextPublished
  <2>3. ListOrder(K, h + 1, f)' /\ IndexTypes'
    BY <1>0, <1>1, <2>1, <2>2, CutKeepsList
  <2>4. ListTypes'
    BY <1>0, <1>1, <2>1, DequeueKeepsListTypes
  <2> QED
    BY <1>2, <1>4, <2>3, <2>4 DEF List
<1>7. CASE ~ReturnMin /\ ~ReturnExtra
  <2>1. UNCHANGED <<read_head_, extra_head_, deleted>>
    BY <1>7, ConsumerFrame
  <2>2. ListOrder(K, h, f)'
    BY <1>0, <1>1, <2>1, OtherStepKeepsList
  <2>3. IndexTypes'
    BY <1>1, <1>3, <2>1 DEF IndexTypes
  <2>4. NewTurn \/ LoadNext \/ UNCHANGED listVars
    BY <1>7 DEF Consumer, BeginDequeue, LoadExtra, ScanLane, Rescan, CheckUpTo, Announce, Wait,
       Resume, SpuriousWake
  <2>5. ListTypes'
    <3>1. CASE NewTurn \/ LoadNext
      BY <1>0, <1>1, <3>1, DequeueKeepsListTypes
    <3>2. CASE UNCHANGED listVars
      BY <1>1, <3>2 DEF ListTypes, listVars, endVars
    <3> QED
      BY <2>4, <3>1, <3>2
  <2> QED
    BY <1>2, <1>4, <2>2, <2>3, <2>5 DEF List
<1> QED
  BY <1>5, <1>6, <1>7

\* Of the tickets of the lanes, lowest_seen_ only passes the one that is dequeued:
\* the ticket that it counts is in the list otherwise.
LEMMA ConsumerKeepsLanesNotBelow ==
  ASSUME TypeOK, IndexTypes, WP!Lanes, List, Status, Scan, LanesNotBelow,
         Consumer \/ SpuriousWake
  PROVE  LanesNotBelow'
<1>1. UNCHANGED <<count_, write_head_, pc, cur>>
  BY ConsumerFrame
<1>2. CASE ~ReturnMin /\ ~ReturnExtra
  <2>1. UNCHANGED <<read_head_, lowest_seen_>>
    BY <1>2, ConsumerFrame
  <2> QED
    BY <1>1, <2>1 DEF LanesNotBelow
<1>3. CASE ReturnMin \/ ReturnExtra
  <2>1. PICK v \in Threads :
          /\ read_head_' = [read_head_ EXCEPT ![v] = @ + 1] /\ read_head_[v] < write_head_[v]
          /\ \/ v \in Bounded /\ v = min_index
             \/ v \in Extra /\ v = extra_next[1] /\ min_index = -2
    BY <1>3, ReturnIs
  <2>2. PICK w \in Threads :
          /\ w = min_index \/ w \in Extra
          /\ min_count = count_[w][read_head_[w]] /\ min_count \in Nat
          /\ read_head_[w] < write_head_[w]
    BY <1>3, ReturnIs, MinPublished
  <2>3. w = v \/ w \notin Bounded
    <3>1. -2 \notin Threads
      BY SizeAssumption DEF Threads, Bounded, Extra
    <3> QED
      BY <2>1, <2>2, <3>1, ListIndices
  <2>4. /\ lowest_seen_ \in Nat
        /\ lowest_seen_' = IF lowest_seen_ = min_count THEN lowest_seen_ + 1 ELSE lowest_seen_
    BY <1>3, ReturnIs DEF TypeOK
  <2>5. /\ read_head_ \in [Threads -> Slots] /\ \A u \in Bounded : u \in Threads
        /\ read_head_[v] \in Nat /\ read_head_[w] \in Slots
    BY ListIndices DEF IndexTypes
  <2>6. ASSUME NEW t \in Bounded, pc[t] = "drawn"
        PROVE  lowest_seen_' <= cur[t]
    <3>1. lowest_seen_ <= cur[t] /\ cur[t] # min_count /\ cur[t] \in Nat
      BY <2>2, <2>5, <2>6, Names, LanesSay DEF LanesNotBelow, TypeOK, W!ProducerTypes
    <3> QED
      BY <2>4, <3>1
  <2>7. ASSUME NEW t \in Bounded, NEW n \in Slots, read_head_'[t] <= n, n < write_head_[t]
        PROVE  lowest_seen_' <= count_[t][n]
    <3>1. read_head_[t] <= n /\ (t = v => n # read_head_[v])
      <4>1. n \in Nat /\ read_head_[t] \in Nat
        BY <2>5, ListIndices
      <4> QED
        BY <2>1, <2>5, <2>7, <4>1
    <3>2. lowest_seen_ <= count_[t][n] /\ count_[t][n] \in Nat
      BY <2>5, <2>7, <3>1, LanesSay DEF LanesNotBelow
    <3>3. count_[t][n] # min_count
      BY <2>2, <2>3, <2>5, <2>7, <3>1, LanesSay
    <3> QED
      BY <2>4, <3>2, <3>3
  <2> QED
    BY <1>1, <2>6, <2>7 DEF LanesNotBelow
<1> QED
  BY <1>2, <1>3

\* lowest_seen_ moves only when something is dequeued.
LEMMA ConsumerKeepsCounted ==
  ASSUME TypeOK, IndexTypes, WP!Lanes, List, Status, Scan, Counted, Consumer \/ SpuriousWake
  PROVE  Counted'
<1>1. UNCHANGED <<up_to_, write_head_, pc>>
  BY ConsumerFrame
<1>2. Drawn' = Drawn
  BY <1>1 DEF Drawn
<1>3. CASE ~ReturnMin /\ ~ReturnExtra
  <2>1. UNCHANGED <<read_head_, lowest_seen_>>
    BY <1>3, ConsumerFrame
  <2>2. Dequeued' = Dequeued
    BY <2>1 DEF Dequeued
  <2> QED
    BY <1>1, <1>2, <2>1, <2>2 DEF Counted
<1>4. CASE ReturnMin \/ ReturnExtra
  <2>1. PICK v \in Threads : read_head_' = [read_head_ EXCEPT ![v] = @ + 1]
    BY <1>4, ReturnIs
  <2>2. lowest_seen_ \in Nat /\ lowest_seen_' <= lowest_seen_ + 1 /\ lowest_seen_' \in Nat
    BY <1>4, ReturnIs DEF TypeOK
  <2>3. read_head_ \in [Threads -> Slots] /\ read_head_[v] \in Nat /\ \A n \in Slots : n \in Nat
    BY ListIndices DEF IndexTypes
  <2>4. Dequeued' = Dequeued \cup {<<v, read_head_[v]>>}
    <3>1. ASSUME NEW x \in Threads \X Slots
          PROVE  x \in Dequeued' <=> x \in Dequeued \/ x = <<v, read_head_[v]>>
      <4>1. x[1] \in Threads /\ x[2] \in Nat /\ x = <<x[1], x[2]>>
        BY <2>3
      <4>2. CASE x[1] = v
        <5>1. read_head_'[x[1]] = read_head_[v] + 1
          BY <2>1, <2>3, <4>2
        <5>2. x[2] < read_head_[v] + 1 <=> x[2] < read_head_[v] \/ x[2] = read_head_[v]
          BY <2>3, <4>1
        <5> QED
          BY <4>1, <4>2, <5>1, <5>2 DEF Dequeued
      <4>3. CASE x[1] # v
        <5>1. read_head_'[x[1]] = read_head_[x[1]]
          BY <2>1, <2>3, <4>1, <4>3
        <5> QED
          BY <4>1, <4>3, <5>1 DEF Dequeued
      <4> QED
        BY <4>2, <4>3
    <3>2. <<v, read_head_[v]>> \in Threads \X Slots
      BY <2>3
    <3>3. Dequeued' \subseteq Threads \X Slots /\ Dequeued \subseteq Threads \X Slots
      BY DEF Dequeued
    <3> QED
      BY <3>1, <3>2, <3>3
  <2>5. <<v, read_head_[v]>> \notin Dequeued
    BY <2>3 DEF Dequeued
  <2>6. /\ Cardinality(Dequeued') = Cardinality(Dequeued) + 1 /\ Cardinality(Dequeued) \in Nat
    BY <2>4, <2>5, CountedSets, FS_AddElement
  <2> QED
    BY <1>1, <1>2, <2>2, <2>6 DEF Counted
<1> QED
  BY <1>3, <1>4

\* The element of the list that is dequeued has nothing before it in the list nor,
\* as the scan has found, in the lanes.
LEMMA ConsumerKeepsInOrder ==
  ASSUME TypeOK, IndexTypes, WP!Lanes, List, Status, Scan, ExtraInOrder,
         Consumer \/ SpuriousWake
  PROVE  ExtraInOrder'
<1>1. before' = before
  BY ConsumerFrame
<1>2. CASE ~ReturnMin /\ ~ReturnExtra
  <2>1. read_head_' = read_head_
    BY <1>2, ConsumerFrame
  <2> QED
    BY <1>1, <2>1 DEF ExtraInOrder
<1>3. CASE ReturnMin \/ ReturnExtra
  <2>1. PICK v \in Threads :
          /\ read_head_' = [read_head_ EXCEPT ![v] = @ + 1]
          /\ \/ v \in Bounded
             \/ /\ v \in Extra /\ extra_next \in ExtraNodes
                /\ v = extra_next[1] /\ min_index = -2 /\ i = LoopOver
    BY <1>3, ReturnIs
  <2>2. consumer = "scan" /\ ~destroyed
    BY <1>3, ReturnIs, ConsumerFrame
  <2>3. /\ \A u \in Threads : read_head_[u] \in Nat /\ read_head_'[u] \in Nat
        /\ \A u \in Threads : read_head_[u] <= read_head_'[u]
        /\ \A u \in Threads : u # v => read_head_'[u] = read_head_[u]
        /\ read_head_'[v] = read_head_[v] + 1
    BY <2>1, ListIndices DEF IndexTypes
  <2>4. ASSUME NEW a \in Extra, NEW n \in 0..(read_head_'[a] - 1), NEW u \in Threads
        PROVE  before[a][n][u] <= read_head_'[u]
    <3>0. a \in Threads /\ n \in Nat /\ before[a][n][u] \in Nat
      <4>1. a \in Threads /\ n \in Nat /\ read_head_'[a] \in Slots
        BY <2>4, ListIndices, ConsumerKeepsList DEF IndexTypes
      <4>2. n \in Slots
        BY <4>1, ListIndices, <2>4 DEF Slots
      <4> QED
        BY <4>1, <4>2, LanesSay
    <3>1. CASE n < read_head_[a]
      <4>1. before[a][n][u] <= read_head_[u]
        BY <2>3, <3>0, <3>1 DEF ExtraInOrder
      <4> QED
        BY <2>3, <3>0, <4>1
    <3>2. CASE ~(n < read_head_[a])
      <4>1. a = v /\ n = read_head_[a]
        BY <2>3, <3>0, <3>2
      <4>2. /\ extra_next \in ExtraNodes /\ extra_next[1] = a /\ extra_next[2] = n
            /\ min_index = -2 /\ i = LoopOver
            /\ extra_next = next_[extra_head_] /\ extra_next # nullptr
        BY <2>1, <2>2, <4>1, ListIndices, NextPublished
      <4>3. CASE u \in Bounded
        <5>1. u < i
          BY <4>2, <4>3, SizeAssumption DEF Bounded, LoopOver
        <5>2. before[extra_next[1]][extra_next[2]][u] <= read_head_[u]
          BY <2>2, <4>2, <4>3, <5>1 DEF Scan
        <5> QED
          BY <2>3, <3>0, <4>2, <5>2
      <4>4. CASE u \in Extra
        <5>1. PICK K, h, f : ListOrder(K, h, f) /\ Precedes(before, K, f)
          BY DEF List
        <5>2. PICK x : x = extra_next
          OBVIOUS
        <5>3. before[x[1]][x[2]][u] <= read_head_[u]
          BY <2>2, <3>0, <4>2, <4>4, <5>1, <5>2, NextPrecedes DEF TypeOK
        <5> QED
          BY <2>3, <3>0, <4>2, <5>2, <5>3
      <4> QED
        BY <4>3, <4>4, ListIndices
    <3> QED
      BY <3>1, <3>2
  <2> QED
    BY <1>1, <2>4 DEF ExtraInOrder
<1> QED
  BY <1>2, <1>3

\* The consumer blocks only when every ticket has been dequeued.
LEMMA ConsumerKeepsWakeups ==
  ASSUME TypeOK, IndexTypes, WP!Lanes, List, Status, Scan, Counted, WP!Sleeping, NoLostWakeup,
         Consumer \/ SpuriousWake
  PROVE  WP!Sleeping' /\ NoLostWakeup'
<1>1. WP!Sleeping'
  <2> USE DEF WP!Sleeping
  <2>1. CASE BeginDequeue \/ LoadExtra \/ ScanLane \/ Rescan
    BY <2>1 DEF BeginDequeue, W!BeginDequeue, LoadExtra, ScanLane, Rescan, W!Rescan, W!ScanOver
  <2>2. CASE ReturnMin \/ ReturnExtra
    BY <2>2, ReturnIs
  <2>3. CASE CheckUpTo \/ Announce
    BY <2>3 DEF CheckUpTo, W!CheckUpTo, W!ScanOver, Announce, W!Announce
  <2>4. CASE Wait \/ Resume \/ SpuriousWake
    BY <2>4 DEF Wait, W!Wait, Resume, W!Resume, SpuriousWake, W!SpuriousWake
  <2> QED
    BY <2>1, <2>2, <2>3, <2>4 DEF Consumer
<1>2. ASSUME consumer' = "asleep"
      PROVE  \A t \in Threads : ~(read_head_'[t] < write_head_'[t])
  <2>1. Wait
    <3>1. ~(ReturnMin \/ ReturnExtra)
      BY <1>2, ReturnIs
    <3> QED
      BY <1>2, <3>1
         DEF Consumer, BeginDequeue, W!BeginDequeue, LoadExtra, ScanLane, Rescan, W!Rescan, W!ScanOver,
             CheckUpTo, W!CheckUpTo, Announce, W!Announce, Resume, W!Resume, SpuriousWake,
             W!SpuriousWake
  <2>2. lowest_seen_ = up_to_ /\ UNCHANGED <<read_head_, write_head_>>
    BY <1>2, <2>1 DEF Wait, W!Wait, W!Blocks, W!producerVars
  <2>3. Dequeued = Drawn
    BY <2>2, CountsMeet DEF TypeOK, W!ProducerTypes
  <2>4. \A t \in Threads : read_head_[t] = write_head_[t] /\ read_head_[t] \in Nat
    BY <2>3, AllDequeued, ListIndices DEF IndexTypes
  <2> QED
    BY <2>2, <2>4
<1>3. NoLostWakeup'
  BY <1>2, Names DEF NoLostWakeup, WP!NoLostWakeup
<1> QED
  BY <1>1, <1>3

\* What a new scan starts from.
LEMMA NewScanIs ==
  ASSUME NEW prev, W!NewScan(prev)
  PROVE  i' = 0 /\ min_count' = kEmpty /\ min_index' = -1 /\ prev_index' = prev
BY DEF W!NewScan

\* What the scan finds in the list.
LEMMA LoadExtraIs ==
  ASSUME TypeOK, IndexTypes, WP!Lanes, List, Status, LoadExtra
  PROVE  /\ consumer = "scan" /\ consumer' = "scan" /\ prev_index' = prev_index
         /\ extra_next' = next_[extra_head_]
         /\ UNCHANGED <<sleeping_, read_head_, lowest_seen_, count_, before, next_, extra_head_>>
         /\ \/ /\ extra_next' = nullptr /\ i' = At(0)
               /\ min_count' = min_count /\ min_index' = min_index
            \/ /\ extra_next' \in ExtraNodes /\ CountOf(extra_next)' \in Nat
               /\ extra_next'[1] \in Extra /\ extra_next'[2] \in Slots
               /\ extra_next'[2] < write_head_[extra_next'[1]]
               /\ min_count' = CountOf(extra_next)' /\ min_index' = prev_index
               /\ i' = FirstLane(CountOf(extra_next)')
<1>1. /\ consumer = "scan" /\ consumer' = "scan" /\ prev_index' = prev_index
      /\ extra_next' = next_[extra_head_]
      /\ UNCHANGED <<sleeping_, read_head_, lowest_seen_, count_, before, next_, extra_head_>>
      /\ ~destroyed
  BY DEF LoadExtra, LoadNext, Status
<1>2. CASE extra_next' = nullptr
  BY <1>1, <1>2 DEF LoadExtra
<1>3. CASE extra_next' # nullptr
  <2>1. PICK K, h, f : ListOrder(K, h, f)
    BY DEF List
  <2>2. PICK x : x = next_[extra_head_]
    OBVIOUS
  <2>3. /\ x = f[h + 1] /\ h + 1 \in 1..K /\ x \in ExtraNodes
        /\ x[1] \in Extra /\ x[1] \in Threads /\ x[2] \in Slots /\ x[2] < write_head_[x[1]]
    BY <1>1, <1>3, <2>1, <2>2, NextIsUnread, ListNodes DEF TypeOK, ListOrder
  <2>4. count_[x[1]][x[2]] \in Nat
    BY <2>3, LanesSay
  <2>5. extra_next' = x /\ CountOf(extra_next)' = count_[x[1]][x[2]] /\ CountOf(extra_next') = count_[x[1]][x[2]]
    BY <1>1, <2>2 DEF CountOf
  <2>6. /\ min_count' = CountOf(extra_next') /\ min_index' = prev_index
        /\ i' = FirstLane(CountOf(extra_next'))
    BY <1>3 DEF LoadExtra
  <2>7. FirstLane(CountOf(extra_next')) = FirstLane(CountOf(extra_next)')
    BY <2>5
  <2> QED
    BY <1>1, <2>3, <2>4, <2>5, <2>6, <2>7
<1> QED
  BY <1>2, <1>3

\* What one turn of the for loop does with the head of lane i.
LEMMA ScanLaneIs ==
  ASSUME TypeOK, IndexTypes, WP!Lanes, ScanLane
  PROVE  /\ consumer = "scan" /\ consumer' = "scan"
         /\ i \in Bounded /\ i \in Nat /\ i' \in 0..LoopOver
         /\ UNCHANGED <<sleeping_, read_head_, lowest_seen_, count_, before, listVars>>
         /\ \/ /\ W!HeadCount(i) \in Nat
               /\ min_count' = W!HeadCount(i) /\ min_index' = i
               /\ prev_index' = prev_index \/ prev_index' = i
            \/ /\ W!HeadCount(i) = kEmpty \/ (min_count # kEmpty /\ min_count <= W!HeadCount(i))
               /\ min_count' = min_count /\ min_index' = min_index /\ prev_index' = prev_index
               /\ \A u \in Bounded : u < i' => u < i \/ u = i
<1>1. /\ consumer = "scan" /\ consumer' = "scan" /\ i < NumThreads
      /\ UNCHANGED <<sleeping_, read_head_, lowest_seen_, count_, before, listVars>>
      /\ W!Inspect(W!HeadCount(i), At(i + 1))
  BY DEF ScanLane
<1>2. i \in Bounded /\ i \in Nat /\ i \in Threads
  BY <1>1, SizeAssumption, ListIndices DEF TypeOK, Bounded
<1>3. W!HeadCount(i) \in Nat \cup {kEmpty} /\ min_count \in Nat \cup {kEmpty} /\ kEmpty \notin Nat
  BY <1>2, HeadIs, EmptyAssumption DEF TypeOK
<1>4. At(i + 1) \in 0..LoopOver /\ LoopOver \in 0..LoopOver
  BY <1>1, <1>2, SizeAssumption DEF At, LoopOver
<1>5. \A u \in Bounded : u < At(i + 1) => u < i \/ u = i
  BY <1>2, SizeAssumption DEF At, Bounded
<1>6. CASE W!Earlier(W!HeadCount(i), min_count)
  BY <1>1, <1>2, <1>3, <1>4, <1>6 DEF W!Inspect, W!Earlier
<1>7. CASE ~W!Earlier(W!HeadCount(i), min_count)
  <2>1. /\ i' = At(i + 1) /\ min_count' = min_count /\ min_index' = min_index
        /\ prev_index' = prev_index
    BY <1>1, <1>7 DEF W!Inspect
  <2>2. W!HeadCount(i) = kEmpty \/ (min_count # kEmpty /\ min_count <= W!HeadCount(i))
    BY <1>3, <1>7 DEF W!Earlier
  <2> QED
    BY <1>1, <1>2, <1>4, <1>5, <2>1, <2>2
<1> QED
  BY <1>6, <1>7

\* Nothing in a lane precedes an element whose ticket is lowest_seen_, nor is there
\* anything before it in a lane whose head has a larger ticket, or none.
LEMMA NothingPrecedes ==
  ASSUME TypeOK, IndexTypes, WP!Lanes, NEW t \in Threads, NEW n \in Slots, n < write_head_[t],
         NEW u \in Bounded,
         \/ W!HeadCount(u) = kEmpty
         \/ count_[t][n] <= W!HeadCount(u)
         \/ LanesNotBelow /\ count_[t][n] = lowest_seen_
  PROVE  before[t][n][u] <= read_head_[u]
<1>1. /\ u \in Threads /\ read_head_[u] \in Slots /\ read_head_[u] \in Nat /\ write_head_[u] \in Nat
      /\ read_head_[u] <= write_head_[u]
      /\ W!HeadCount(u) # kEmpty <=> read_head_[u] < write_head_[u]
      /\ before[t][n][u] \in Nat /\ before[t][n][u] <= write_head_[u]
  BY ListIndices, HeadIs, LanesSay DEF IndexTypes
<1>2. ASSUME read_head_[u] < before[t][n][u]
      PROVE  FALSE
  <2>1. read_head_[u] < write_head_[u]
    BY <1>1, <1>2
  <2>2. /\ count_[u][read_head_[u]] < count_[t][n] /\ count_[t][n] \in Nat
        /\ count_[u][read_head_[u]] \in Nat
    BY <1>1, <1>2, <2>1, LanesSay
  <2>3. LanesNotBelow => lowest_seen_ <= count_[u][read_head_[u]]
    BY <1>1, <2>1 DEF LanesNotBelow
  <2>4. W!HeadCount(u) = count_[u][read_head_[u]]
    BY DEF W!HeadCount
  <2> QED
    BY <1>1, <2>1, <2>2, <2>3, <2>4
<1> QED
  BY <1>1, <1>2

\* What the scan has established survives its steps.
LEMMA ConsumerKeepsScan ==
  ASSUME TypeOK, IndexTypes, WP!Lanes, List, Status, LanesNotBelow, Scan, Consumer \/ SpuriousWake
  PROVE  Scan'
<1>0. /\ UNCHANGED <<count_, before, next_, write_head_>>
      /\ kEmpty \notin Nat /\ -1 \notin Bounded /\ -2 \notin Bounded
      /\ unloaded \notin ExtraNodes /\ nullptr \notin ExtraNodes
  BY ConsumerFrame, EmptyAssumption, NullAssumption, SizeAssumption DEF Bounded
<1>1. ASSUME NewTurn, W!NewScan(-2)
      PROVE  Scan'
  BY <1>0, <1>1, NewScanIs DEF Scan, NewTurn
<1>2. CASE BeginDequeue \/ Resume
  BY <1>1, <1>2 DEF BeginDequeue, W!BeginDequeue, Resume, W!Resume
<1>3. CASE CheckUpTo
  <2>1. CASE W!UsedUp
    BY <1>3, <2>1 DEF CheckUpTo, W!CheckUpTo, W!scanVars, Scan
  <2> QED
    BY <1>1, <1>3, <2>1 DEF CheckUpTo, W!CheckUpTo
<1>4. CASE Rescan
  <2>1. /\ min_count' = kEmpty /\ min_index' = -1 /\ prev_index' = min_index
        /\ extra_next' = unloaded /\ read_head_' = read_head_ /\ consumer = "scan"
    BY <1>4, NewScanIs DEF Rescan, W!Rescan, W!ScanOver, NewTurn
  <2>2. prev_index' \in Bounded => count_'[prev_index'][read_head_'[prev_index']] # kEmpty
    BY <1>0, <2>1 DEF Scan, W!HeadCount
  <2> QED
    BY <1>0, <2>1, <2>2 DEF Scan, W!HeadCount
<1>5. CASE LoadExtra
  <2>0. /\ consumer = "scan" /\ extra_next = unloaded /\ extra_next' = next_'[extra_head_']
        /\ prev_index' = prev_index /\ read_head_' = read_head_
    BY <1>0, <1>5, LoadExtraIs DEF LoadExtra, LoadNext
  <2>1. prev_index \in Bounded => count_'[prev_index'][read_head_'[prev_index']] # kEmpty
    BY <1>0, <2>0 DEF Scan, W!HeadCount
  <2>2. CASE extra_next' = nullptr
    <3>1. min_count' = min_count /\ min_index' = min_index
      BY <1>0, <1>5, <2>2, LoadExtraIs
    <3>2. min_index # -2 /\ (min_count # kEmpty => min_index \in Bounded /\ min_count = W!HeadCount(min_index))
      BY <1>0, <2>0 DEF Scan
    <3>3. min_index \in Bounded =>
            /\ count_'[min_index'][read_head_'[min_index']] = W!HeadCount(min_index)
            /\ W!HeadCount(min_index) # kEmpty
      BY <1>0, <2>0, <3>1 DEF Scan, W!HeadCount
    <3> QED
      BY <1>0, <2>0, <2>1, <2>2, <3>1, <3>2, <3>3 DEF Scan, W!HeadCount
  <2>3. CASE extra_next' # nullptr
    <3>1. /\ extra_next' \in ExtraNodes /\ CountOf(extra_next)' \in Nat
          /\ extra_next'[1] \in Extra /\ extra_next'[2] \in Slots
          /\ extra_next'[2] < write_head_[extra_next'[1]]
          /\ min_count' = CountOf(extra_next)' /\ min_index' = prev_index
          /\ i' = FirstLane(CountOf(extra_next)')
      BY <1>5, <2>3, LoadExtraIs
    <3>2. ASSUME NEW u \in Bounded, u < i'
          PROVE  before'[extra_next'[1]][extra_next'[2]][u] <= read_head_'[u]
      <4>1. CountOf(extra_next)' = lowest_seen_
        BY <3>1, <3>2, SizeAssumption DEF FirstLane, At, Bounded
      <4>2. count_[extra_next'[1]][extra_next'[2]] = lowest_seen_ /\ extra_next'[1] \in Threads
        BY <1>0, <3>1, <4>1, ListIndices DEF CountOf
      <4> QED
        BY <1>0, <2>0, <3>1, <4>2, NothingPrecedes
    <3>3. min_index' \in Bounded => count_'[min_index'][read_head_'[min_index']] # kEmpty
      BY <2>0, <2>1, <3>1
    <3> QED
      BY <1>0, <2>0, <2>1, <3>1, <3>2, <3>3 DEF Scan, W!HeadCount
  <2> QED
    BY <2>2, <2>3
<1>6. CASE ScanLane
  <2>0. /\ consumer = "scan" /\ i \in Bounded
        /\ UNCHANGED <<read_head_, count_, before, next_, extra_head_, extra_next>>
    BY <1>6, ScanLaneIs DEF listVars
  <2>1. CASE /\ W!HeadCount(i) \in Nat
             /\ min_count' = W!HeadCount(i) /\ min_index' = i
             /\ prev_index' = prev_index \/ prev_index' = i
    <3>1. /\ count_'[min_index'][read_head_'[min_index']] = W!HeadCount(i)
          /\ W!HeadCount(i) # kEmpty
      BY <1>0, <2>0, <2>1 DEF W!HeadCount
    <3>2. prev_index' \in Bounded => count_'[prev_index'][read_head_'[prev_index']] # kEmpty
      BY <2>0, <2>1, <3>1 DEF Scan, W!HeadCount
    <3> QED
      BY <1>0, <2>0, <2>1, <3>1, <3>2 DEF Scan, W!HeadCount
  <2>2. CASE /\ W!HeadCount(i) = kEmpty \/ (min_count # kEmpty /\ min_count <= W!HeadCount(i))
             /\ min_count' = min_count /\ min_index' = min_index /\ prev_index' = prev_index
             /\ \A u \in Bounded : u < i' => u < i \/ u = i
    <3>1. ASSUME min_index = -2, NEW u \in Bounded, u < i'
          PROVE  before[extra_next[1]][extra_next[2]][u] <= read_head_[u]
      <4>1. CASE u < i
        BY <2>0, <3>1, <4>1 DEF Scan
      <4>2. CASE u = i
        <5>1. extra_next \in ExtraNodes /\ min_count = CountOf(extra_next)
          BY <2>0, <3>1 DEF Scan
        <5>2. /\ extra_next[1] \in Threads /\ extra_next[2] \in Slots
              /\ extra_next[2] < write_head_[extra_next[1]]
          BY <2>0, <5>1, NextPublished
        <5> QED
          BY <2>2, <4>2, <5>1, <5>2, NothingPrecedes DEF CountOf
      <4> QED
        BY <2>2, <3>1, <4>1, <4>2
    <3>2. /\ min_index \in Bounded =>
               count_'[min_index'][read_head_'[min_index']] = W!HeadCount(min_index)
          /\ prev_index \in Bounded =>
               count_'[prev_index'][read_head_'[prev_index']] = W!HeadCount(prev_index)
          /\ CountOf(extra_next)' = CountOf(extra_next)
      BY <2>0, <2>2 DEF W!HeadCount, CountOf
    <3> QED
      BY <2>0, <2>2, <3>1, <3>2 DEF Scan, W!HeadCount
  <2> QED
    BY <1>6, <2>1, <2>2, ScanLaneIs
<1>7. CASE ReturnMin \/ ReturnExtra
  <2>1. consumer' = "idle" /\ UNCHANGED <<min_count, min_index>>
    BY <1>7, ReturnIs
  <2> QED
    BY <2>1 DEF Scan
<1>8. CASE Announce \/ Wait \/ SpuriousWake
  <2>1. consumer' # "scan" /\ UNCHANGED <<min_count, min_index>>
    BY <1>8 DEF Announce, W!Announce, Wait, W!Wait, SpuriousWake, W!SpuriousWake, W!scanVars
  <2> QED
    BY <2>1 DEF Scan
<1> QED
  BY <1>2, <1>3, <1>4, <1>5, <1>6, <1>7, <1>8 DEF Consumer

-----------------------------------------------------------------------------
(* The types, and the steps together. *)

\* enqueue keeps the types.
LEMMA ProducerKeepsTypes ==
  ASSUME TypeOK, IndexTypes, WP!Lanes, List, Status, NEW t \in Threads, Producer(t)
  PROVE  TypeOK'
<1>1. W!ProducerTypes' /\ W!HistoryTypes' /\ ListTypes' /\ IndexTypes'
  BY ProducerKeepsLanes, ProducerKeepsList
<1>2. /\ UNCHANGED <<read_head_, lowest_seen_, i, min_count, min_index, prev_index, sleeping_>>
      /\ consumer' = consumer \/ consumer' = "wait"
  BY ProducerFrame
<1>3. \A u \in Threads : 0 <= read_head_'[u] /\ read_head_'[u] <= write_head_'[u]
  BY <1>1, <1>2 DEF IndexTypes, TypeOK
<1> QED
  BY <1>1, <1>2, <1>3 DEF TypeOK

\* dequeue keeps the types.
LEMMA ConsumerKeepsTypes ==
  ASSUME TypeOK, IndexTypes, WP!Lanes, List, Status, Scan, Consumer \/ SpuriousWake
  PROVE  TypeOK'
<1>1. W!ProducerTypes' /\ W!HistoryTypes' /\ ListTypes' /\ IndexTypes'
  BY ConsumerKeepsLanes, ConsumerKeepsList
<1>2. \A u \in Threads : 0 <= read_head_'[u] /\ read_head_'[u] <= write_head_'[u]
  BY <1>1, ListIndices DEF IndexTypes
<1>3. LoopOver \in Nat /\ 0 \in 0..LoopOver /\ LoopOver \in 0..LoopOver /\ At(0) \in 0..LoopOver
  BY SizeAssumption DEF LoopOver, At
<1>4. /\ sleeping_' \in BOOLEAN /\ lowest_seen_' \in Nat
      /\ consumer' \in {"idle", "scan", "announce", "wait", "asleep", "woken"}
      /\ i' \in 0..LoopOver /\ min_count' \in Nat \cup {kEmpty}
      /\ min_index' \in Bounded \cup {-1, -2} /\ prev_index' \in Bounded \cup {-1, -2}
  <2> USE DEF TypeOK
  <2>1. CASE BeginDequeue \/ Resume
    BY <1>3, <2>1, NewScanIs DEF BeginDequeue, W!BeginDequeue, Resume, W!Resume
  <2>2. CASE LoadExtra
    <3>1. FirstLane(CountOf(extra_next)') \in 0..LoopOver
      BY <1>3 DEF FirstLane
    <3> QED
      BY <1>3, <2>2, <3>1, LoadExtraIs
  <2>3. CASE ScanLane
    BY <2>3, ScanLaneIs DEF listVars
  <2>4. CASE Rescan
    BY <1>3, <2>4, NewScanIs DEF Rescan, W!Rescan
  <2>5. CASE ReturnMin \/ ReturnExtra
    BY <2>5, ReturnIs
  <2>6. CASE CheckUpTo
    <3>1. CASE W!UsedUp
      BY <2>6, <3>1 DEF CheckUpTo, W!CheckUpTo, W!scanVars
    <3> QED
      BY <1>3, <2>6, <3>1, NewScanIs DEF CheckUpTo, W!CheckUpTo
  <2>7. CASE Announce \/ Wait \/ SpuriousWake
    BY <2>7 DEF Announce, W!Announce, Wait, W!Wait, SpuriousWake, W!SpuriousWake, W!scanVars
  <2> QED
    BY <2>1, <2>2, <2>3, <2>4, <2>5, <2>6, <2>7 DEF Consumer
<1> QED
  BY <1>1, <1>2, <1>4 DEF TypeOK

\* No step of enqueue breaks the inductive invariant.
LEMMA ProducerKeepsIInv ==
  ASSUME IInv, NEW t \in Threads, Producer(t)
  PROVE  IInv'
<1>1. TypeOK'
  BY ProducerKeepsTypes DEF IInv
<1>2. WP!Lanes' /\ List' /\ IndexTypes' /\ Status'
  BY ProducerKeepsLanes, ProducerKeepsList DEF IInv
<1>3. LanesNotBelow' /\ Counted'
  BY ProducerKeepsLanesNotBelow, ProducerKeepsCounted DEF IInv
<1>4. Scan' /\ ExtraInOrder'
  BY ProducerKeepsScan, ProducerKeepsInOrder DEF IInv
<1>5. WP!Sleeping' /\ NoLostWakeup'
  BY ProducerKeepsWakeups DEF IInv
<1> QED
  BY <1>1, <1>2, <1>3, <1>4, <1>5 DEF IInv

\* No step of dequeue breaks the inductive invariant, nor does a spurious wake-up.
LEMMA ConsumerKeepsIInv ==
  ASSUME IInv, Consumer \/ SpuriousWake
  PROVE  IInv'
<1>1. TypeOK'
  BY ConsumerKeepsTypes DEF IInv
<1>2. WP!Lanes' /\ List' /\ IndexTypes' /\ Status'
  BY ConsumerKeepsLanes, ConsumerKeepsList DEF IInv
<1>3. LanesNotBelow' /\ Counted'
  BY ConsumerKeepsLanesNotBelow, ConsumerKeepsCounted DEF IInv
<1>4. Scan' /\ ExtraInOrder'
  BY ConsumerKeepsScan, ConsumerKeepsInOrder DEF IInv
<1>5. WP!Sleeping' /\ NoLostWakeup'
  BY ConsumerKeepsWakeups DEF IInv
<1> QED
  BY <1>1, <1>2, <1>3, <1>4, <1>5 DEF IInv

\* A step that leaves the lanes, the tickets and the scan alone keeps what does not
\* depend on the list.
LEMMA OtherStepKeepsWaitPart ==
  ASSUME IInv, UNCHANGED waitVars
  PROVE  /\ W!ProducerTypes' /\ W!HistoryTypes'
         /\ WP!Lanes' /\ LanesNotBelow' /\ Counted' /\ WP!Sleeping' /\ NoLostWakeup' /\ ExtraInOrder'
<1> USE DEF waitVars
<1>1. W!ProducerTypes' /\ W!HistoryTypes'
  BY DEF IInv, TypeOK, W!ProducerTypes, W!HistoryTypes
<1>2. WP!Lanes'
  BY DEF IInv, WP!Lanes, WP!Published, WP!Tickets, WP!Unique, WP!InCall, WP!Order, WP!Completed
<1>3. LanesNotBelow' /\ WP!Sleeping' /\ ExtraInOrder'
  BY DEF IInv, LanesNotBelow, WP!Sleeping, ExtraInOrder
<1>4. Counted'
  <2>1. Dequeued' = Dequeued /\ Drawn' = Drawn
    BY DEF Dequeued, Drawn
  <2> QED
    BY <2>1 DEF IInv, Counted
<1>5. NoLostWakeup'
  BY Names DEF IInv, NoLostWakeup, WP!NoLostWakeup
<1> QED
  BY <1>1, <1>2, <1>3, <1>4, <1>5

\* The destructor leaves the inductive invariant intact.
LEMMA DestroyKeepsIInv ==
  ASSUME IInv, Destroy
  PROVE  IInv'
<1>1. /\ consumer = "idle" /\ (\A t \in Threads : pc[t] = "idle")
      /\ DestroyList /\ UNCHANGED waitVars
  BY DEF Destroy
<1>2. Linking = {}
  <2>1. \A t \in Linking : t \in Threads /\ pc[t] = "drawn"
    BY ListIndices DEF IInv, Status, Linking
  <2> QED
    BY <1>1, <2>1
<1>3. PICK K, h, f : ListOrder(K, h, f) /\ Precedes(before, K, f)
  BY DEF IInv, List
<1>4. ListOrder(K, h, f)' /\ IndexTypes' /\ Linking' = {}
  BY <1>1, <1>2, <1>3, DestroyKeepsList DEF IInv, TypeOK, waitVars
<1>5. Precedes(before, K, f)'
  BY <1>1, <1>3 DEF Precedes, waitVars
<1>6. ListTypes'
  BY <1>1, <1>3, DestroyKeepsListTypes DEF IInv, TypeOK
<1>7. /\ W!ProducerTypes' /\ W!HistoryTypes'
      /\ WP!Lanes' /\ LanesNotBelow' /\ Counted' /\ WP!Sleeping' /\ NoLostWakeup' /\ ExtraInOrder'
  BY <1>1, OtherStepKeepsWaitPart
<1>8. TypeOK'
  BY <1>1, <1>6, <1>7 DEF IInv, TypeOK, waitVars
<1>9. Status' /\ Scan'
  BY <1>1, <1>4 DEF IInv, Status, Scan, waitVars
<1> QED
  BY <1>4, <1>5, <1>7, <1>8, <1>9 DEF IInv, List

\* Nor does anything change when the queue does not.
LEMMA StutterKeepsIInv ==
  ASSUME IInv, UNCHANGED vars
  PROVE  IInv'
<1>1. UNCHANGED waitVars /\ UNCHANGED listVars
  BY DEF vars
<1>2. PICK K, h, f : ListOrder(K, h, f) /\ Precedes(before, K, f)
  BY DEF IInv, List
<1>3. ListOrder(K, h, f)' /\ Linking' = Linking
  BY <1>1, <1>2, OtherStepKeepsList DEF IInv, waitVars, listVars, endVars
<1>4. Precedes(before, K, f)'
  BY <1>1, <1>2 DEF Precedes, waitVars
<1>5. /\ W!ProducerTypes' /\ W!HistoryTypes'
      /\ WP!Lanes' /\ LanesNotBelow' /\ Counted' /\ WP!Sleeping' /\ NoLostWakeup' /\ ExtraInOrder'
  BY <1>1, OtherStepKeepsWaitPart
<1>6. ListTypes' /\ IndexTypes'
  BY <1>1, <1>3 DEF IInv, TypeOK, ListTypes, IndexTypes, waitVars, listVars, endVars
<1>7. TypeOK'
  BY <1>1, <1>5, <1>6 DEF IInv, TypeOK, waitVars
<1>8. Status'
  BY <1>1, <1>3 DEF IInv, Status, waitVars, listVars, endVars
<1>9. Scan'
  BY <1>1 DEF IInv, Scan, CountOf, W!HeadCount, waitVars, listVars
<1> QED
  BY <1>3, <1>4, <1>5, <1>6, <1>7, <1>8, <1>9 DEF IInv, List

\* The constructor establishes the inductive invariant.
LEMMA InitIInv == Init => IInv
<1> SUFFICES ASSUME Init
             PROVE  IInv
  OBVIOUS
<1>1. /\ W!Init /\ ListInit /\ Linking = {}
      /\ \A t \in Bounded : t \in Threads
      /\ LoopOver \in Nat /\ 0 \in Slots /\ kEmpty \notin Nat
  BY SizeAssumption, EmptyAssumption, ListIndices DEF Init, ListInit, Linking, Slots, LoopOver
<1>2. /\ up_to_ = 0 /\ sleeping_ = FALSE /\ lowest_seen_ = 0 /\ consumer = "idle"
      /\ count_ = [t \in Threads |-> [n \in Slots |-> kEmpty]]
      /\ write_head_ = [t \in Threads |-> 0] /\ read_head_ = [t \in Threads |-> 0]
      /\ cur = [t \in Threads |-> 0] /\ atCall = [t \in Threads |-> 0]
      /\ pc = [t \in Threads |-> "idle"]
      /\ before = [t \in Threads |-> [n \in Slots |-> [u \in Threads |-> 0]]]
      /\ i = 0 /\ min_count = kEmpty /\ min_index = -1 /\ prev_index = -2
  BY <1>1, Names DEF W!Init, W!Zero
<1>3. W!ProducerTypes
  BY <1>1, <1>2, Names, ListIndices DEF W!ProducerTypes
<1>4. W!HistoryTypes
  BY <1>1, <1>2, Names DEF W!HistoryTypes
<1>5. WP!Lanes
  BY <1>1, <1>2, Names, ListIndices
     DEF WP!Lanes, WP!Published, WP!Tickets, WP!Unique, WP!InCall, WP!Order, WP!Completed
<1>6. IndexTypes
  BY <1>1, <1>2, InitKeepsList
<1>7. ListTypes
  BY <1>1 DEF ListInit, ListTypes, ExtraNodes
<1>8. List
  <2>1. PICK K, h, f : ListOrder(K, h, f)
    BY <1>1, <1>2, InitKeepsList
  <2>2. Precedes(before, K, f)
    BY <1>2, <1>6, <2>1, ListNodes, ListIndices DEF Precedes, ListOrder
  <2> QED
    BY <2>1, <2>2 DEF List
<1>9. TypeOK
  <2>1. \A t \in Threads : 0 <= read_head_[t] /\ read_head_[t] <= write_head_[t]
    BY <1>2
  <2>2. i \in 0..LoopOver /\ min_count \in Nat \cup {kEmpty} /\ lowest_seen_ \in Nat
    BY <1>1, <1>2
  <2>3. /\ min_index \in Bounded \cup {-1, -2} /\ prev_index \in Bounded \cup {-1, -2}
        /\ sleeping_ \in BOOLEAN
    BY <1>2
  <2> QED
    BY <1>2, <1>3, <1>4, <1>7, <2>1, <2>2, <2>3 DEF TypeOK
<1>10. Status /\ LanesNotBelow /\ Scan /\ WP!Sleeping /\ NoLostWakeup /\ ExtraInOrder
  <2>1. Status
    BY <1>1, <1>2 DEF Status, ListInit
  <2>2. LanesNotBelow
    BY <1>1, <1>2, ListIndices DEF LanesNotBelow
  <2>3. Scan /\ WP!Sleeping
    BY <1>2 DEF Scan, WP!Sleeping
  <2>4. NoLostWakeup
    BY <1>2, Names DEF NoLostWakeup, WP!NoLostWakeup
  <2>5. ExtraInOrder
    BY <1>2, ListIndices DEF ExtraInOrder
  <2> QED
    BY <2>1, <2>2, <2>3, <2>4, <2>5
<1>11. Counted
  <2>1. Dequeued = {} /\ Drawn = {}
    BY <1>2, ListIndices DEF Dequeued, Drawn
  <2> QED
    BY <1>2, <2>1, FS_EmptySet DEF Counted
<1> QED
  BY <1>5, <1>6, <1>8, <1>9, <1>10, <1>11 DEF IInv

\* No step breaks the inductive invariant.
LEMMA NextKeepsIInv == IInv /\ [Next]_vars => IInv'
BY ProducerKeepsIInv, ConsumerKeepsIInv, DestroyKeepsIInv, StutterKeepsIInv DEF Next

\* The inductive invariant holds in every execution of the queue.
THEOREM Invariance == Spec => []IInv
BY InitIInv, NextKeepsIInv, PTL DEF Spec

-----------------------------------------------------------------------------
(* The theorems. *)

\* The types hold in every execution, for any number of threads of either kind, and
\* the consumer never reads past what a thread has published.
THEOREM TypeCorrect == Spec => []TypeOK
<1>1. IInv => TypeOK
  BY DEF IInv
<1> QED
  BY <1>1, Invariance, PTL

\* The consumer deletes no node that it, or a thread that stopped between exchange
\* and next_, can still reach, at whatever step the threads are (line 422).
THEOREM NodesAreReclaimedSafely == Spec => []SafeReclaim
<1>1. IInv => SafeReclaim
  BY OrderMakesSafe DEF IInv, TypeOK, List
<1> QED
  BY <1>1, Invariance, PTL

\* However many threads stand between exchange and next_, the pieces of the list
\* hold all the elements that were not dequeued and no others.
THEOREM NoElementIsCutOff == Spec => []ListIntact
<1>1. IInv => ListIntact
  BY OrderMakesIntact DEF IInv, TypeOK, List
<1> QED
  BY <1>1, Invariance, PTL

\* The destructor frees the whole list and deconstructs what was not dequeued, and
\* the data_ of one node that holds no element.
THEOREM DestructorForgetsNothing == Spec => []DestroysAll
<1>1. IInv => DestroysAll
  BY OrderMakesDestroyed DEF IInv, TypeOK, List
<1> QED
  BY <1>1, Invariance, PTL

\* An element of the list is dequeued after all the elements whose enqueue had
\* returned when its ticket was drawn, those of the lanes included (lines 359-365).
THEOREM ListIsInOrder == Spec => []ExtraInOrder
<1>1. IInv => ExtraInOrder
  BY DEF IInv
<1> QED
  BY <1>1, Invariance, PTL

\* When lowest_seen_ equals up_to_, nothing is left in the queue or on its way into
\* it, although lowest_seen_ may pass tickets that are still in the list.
THEOREM SeenMeansDequeued == Spec => []SeenIsDequeued
<1>1. IInv => SeenIsDequeued
  BY CountsMeet, AllDequeued DEF IInv, TypeOK, W!ProducerTypes, SeenIsDequeued
<1> QED
  BY <1>1, Invariance, PTL

\* The consumer blocks on an element, of a lane or of the list, only while a thread
\* is still going to notify it.
THEOREM WakeupsAreNotLost == Spec => []NoLostWakeup
<1>1. IInv => NoLostWakeup
  BY DEF IInv
<1> QED
  BY <1>1, Invariance, PTL
=============================================================================
