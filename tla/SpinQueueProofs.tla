--------------------------- MODULE SpinQueueProofs ---------------------------
(***************************************************************************)
(* Proofs about SpinQueue, for any number of producers and of elements.    *)
(* The inductive invariant has three parts besides the types: what the     *)
(* tickets in the lanes say about the order of the enqueues, what the      *)
(* current scan has established, and why a scan cannot come back to a lane *)
(* that was given up.                                                      *)
(***************************************************************************)
EXTENDS SpinQueue, TLAPS

\* The nodes up to write_head_ are the published ones.
Published ==
  \A t \in Threads : \A n \in Slots : count_[t][n] # kEmpty <=> n < write_head_[t]

\* A ticket is at most up_to_, and less once its enqueue has returned.
Tickets ==
  \A t \in Threads : \A n \in Slots :
    /\ n < write_head_[t] => count_[t][n] <= up_to_
    /\ n < Completed[t] => count_[t][n] < up_to_

\* A producer inside enqueue holds the ticket it will publish, or has published.
InCall ==
  \A t \in Threads :
    /\ pc[t] = "loaded" => write_head_[t] < MaxItems /\ cur[t] <= up_to_
    /\ pc[t] \in {"stored", "raise"} =>
         write_head_[t] > 0 /\ count_[t][write_head_[t] - 1] = cur[t]

\* An element has a larger ticket than all the elements whose enqueue had
\* returned when its ticket was drawn.
Order ==
  \A t, u \in Threads :
    /\ \A n \in Slots : before[t][n][u] <= Completed[u]
    /\ \A n, m \in Slots :
         n < write_head_[t] /\ m < before[t][n][u] => count_[u][m] < count_[t][n]
    /\ \A m \in Slots :
         pc[t] = "loaded" /\ m < before[t][write_head_[t]][u] => count_[u][m] < cur[t]

Lanes == Published /\ Tickets /\ InCall /\ Order

\* min_count is the ticket at the head of lane min_index, one of the lanes
\* scanned; no lane scanned so far has at its head an element that precedes the
\* head of lane prev_index and a ticket below min_count; and if nothing was
\* found, the lanes scanned so far hold nothing that had returned when dequeue
\* was called.
Scan ==
  /\ \A t \in Threads : atCall[t] <= Completed[t]
  /\ min_index = -1 <=> min_count = kEmpty
  /\ scanning /\ min_index # -1 =>
       HeadCount(min_index) = min_count /\ min_index < i
  /\ scanning /\ prev_index \in Threads =>
       /\ HeadCount(prev_index) # kEmpty
       /\ \A u \in Threads :
            u < i /\ read_head_[u] < before[prev_index][read_head_[prev_index]][u]
              => min_index # -1 /\ min_count <= HeadCount(u)
  /\ scanning /\ min_index = -1 =>
       \A u \in Threads : u < i => atCall[u] <= read_head_[u]

\* The head of lane t comes before that of lane u in the order of the scan.
Ahead(t, u) ==
  HeadCount(t) < HeadCount(u) \/ (HeadCount(t) = HeadCount(u) /\ t < u)

\* Every lane given up in this dequeue has its head behind that of lane
\* prev_index, and once the scan has passed prev_index its minimum is not behind.
GivenUp ==
  scanning =>
    /\ prev_index \in tried
    /\ prev_index = -2 => tried = {-2}
    /\ prev_index = -1 => tried = {-1, -2}
    /\ \A t \in Threads : t \in tried =>
         /\ HeadCount(t) # kEmpty
         /\ t # prev_index => prev_index \in Threads /\ Ahead(prev_index, t)
    /\ prev_index \in Threads /\ prev_index < i =>
         min_index # -1 /\ (min_index = prev_index \/ Ahead(min_index, prev_index))

IInv == TypeOK /\ Lanes /\ Scan /\ GivenUp /\ RealTimeOrder

-----------------------------------------------------------------------------
\* What the constants say about thread and node indices.
LEMMA Indices ==
  /\ \A t \in Threads : t \in Nat /\ t < NumThreads
  /\ NumThreads \in Nat /\ MaxItems \in Nat /\ 0 \in Slots
  /\ \A n \in Slots : n \in Nat /\ n <= MaxItems
  /\ \A n \in Slots : n < MaxItems => n + 1 \in Slots
  /\ \A n \in Slots : n > 0 => n - 1 \in Slots
  /\ kEmpty \notin Nat /\ -1 \notin Threads /\ -2 \notin Threads
BY SizeAssumption, EmptyAssumption DEF Threads, Slots

\* The part of the types that the lanes are about.
LEMMA Typed ==
  ASSUME TypeOK
  PROVE  ProducerTypes /\ HistoryTypes
BY DEF TypeOK

\* The constructor establishes the inductive invariant.
LEMMA InitIInv == Init => IInv
<1> USE Indices DEF Zero, Init
<1>1. Init => ProducerTypes
  BY DEF ProducerTypes
<1>2. Init => ConsumerTypes
  <2>1. Init => read_head_ \in [Threads -> Slots] /\ scanning \in BOOLEAN
    OBVIOUS
  <2>2. Init => i \in 0..NumThreads /\ min_count \in Nat \cup {kEmpty}
    OBVIOUS
  <2>3. Init => min_index \in Threads \cup {-1} /\ prev_index \in Threads \cup {-1, -2}
    OBVIOUS
  <2> QED
    BY <2>1, <2>2, <2>3 DEF ConsumerTypes
<1>3. Init => HistoryTypes
  <2>1. Init => before \in [Threads -> [Slots -> [Threads -> Slots]]]
    OBVIOUS
  <2>2. Init => atCall \in [Threads -> Slots] /\ tried \in SUBSET (Threads \cup {-1, -2})
    OBVIOUS
  <2> QED
    BY <2>1, <2>2 DEF HistoryTypes
<1>4. Init => Lanes
  BY DEF Lanes, Published, Tickets, InCall, Order, Completed
<1>5. Init => Scan /\ GivenUp /\ RealTimeOrder
  BY DEF Scan, GivenUp, RealTimeOrder, Completed
<1>6. ASSUME Init, NEW t \in Threads
      PROVE  read_head_[t] <= write_head_[t]
  BY <1>6
<1> QED
  BY <1>1, <1>2, <1>3, <1>4, <1>5, <1>6 DEF IInv, TypeOK

\* The enqueues of a thread that have returned are at most MaxItems.
LEMMA CompletedType ==
  ASSUME ProducerTypes, Lanes
  PROVE  Completed \in [Threads -> Slots]
BY Indices DEF ProducerTypes, Lanes, InCall, Completed

\* Completed changes only when an enqueue returns.
LEMMA CompletedStep ==
  ASSUME ProducerTypes, Lanes, NEW t \in Threads, Producer(t), NEW u \in Threads
  PROVE  \/ Completed'[u] = Completed[u]
         \/ u = t /\ (Recheck(t) \/ Raise(t)) /\ pc'[t] = "idle"
            /\ Completed'[t] = write_head_[t] /\ Completed[t] = write_head_[t] - 1
<1>0. /\ write_head_ \in [Threads -> Nat]
      /\ pc \in [Threads -> {"idle", "loaded", "stored", "raise"}]
  BY Indices DEF ProducerTypes
<1>1. CASE LoadTicket(t)
  BY <1>0, <1>1 DEF LoadTicket, Completed
<1>2. CASE Publish(t)
  BY <1>0, <1>2 DEF Publish, Completed
<1>3. CASE Recheck(t)
  BY <1>0, <1>3 DEF Unraised, Recheck, Completed
<1>4. CASE Raise(t)
  BY <1>0, <1>4 DEF Raise, Completed
<1> QED
  BY <1>1, <1>2, <1>3, <1>4 DEF Producer

\* No producer step takes back a publication or what was noted about one, and
\* Completed only grows.
LEMMA ProducerFrame ==
  ASSUME ProducerTypes, HistoryTypes, Lanes, NEW t \in Threads, Producer(t)
  PROVE  /\ UNCHANGED <<read_head_, scanning, i, min_count, min_index, prev_index>>
         /\ UNCHANGED <<atCall, tried>>
         /\ \A u \in Threads : Completed[u] <= Completed'[u]
         /\ \A u \in Threads : write_head_[u] <= write_head_'[u]
         /\ \A u \in Threads : \A n \in Slots :
               count_[u][n] # kEmpty => count_'[u][n] = count_[u][n]
         /\ \A u \in Threads : \A n \in Slots :
               n < write_head_[u] => before'[u][n] = before[u][n]
<1> USE DEF localVars, history
<1>0. /\ write_head_ \in [Threads -> Nat]
      /\ count_ \in [Threads -> [Slots -> Nat \cup {kEmpty}]]
      /\ before \in [Threads -> [Slots -> [Threads -> Slots]]]
  BY Indices DEF ProducerTypes, HistoryTypes
<1>1. /\ UNCHANGED <<read_head_, scanning, i, min_count, min_index, prev_index>>
      /\ UNCHANGED <<atCall, tried>>
  BY DEF Unraised, Producer, LoadTicket, Publish, Recheck, Raise
<1>2. ASSUME NEW u \in Threads
      PROVE  Completed[u] <= Completed'[u]
  <2>1. Completed[u] \in Nat /\ write_head_[t] \in Nat
    BY <1>0, CompletedType, Indices
  <2> QED
    BY <2>1, CompletedStep
<1>3. ASSUME NEW u \in Threads
      PROVE  write_head_[u] <= write_head_'[u]
  <2>1. write_head_'[u] = write_head_[u] \/ write_head_'[u] = write_head_[u] + 1
    BY <1>0 DEF Unraised, Producer, LoadTicket, Publish, Recheck, Raise
  <2> QED
    BY <1>0, <2>1
<1>4. ASSUME NEW u \in Threads, NEW n \in Slots, count_[u][n] # kEmpty
      PROVE  count_'[u][n] = count_[u][n]
  <2>1. n < write_head_[u]
    BY <1>4 DEF Lanes, Published
  <2>2. CASE Publish(t)
    BY <1>0, <2>1, <2>2 DEF Publish
  <2> QED
    BY <2>2 DEF Unraised, Producer, LoadTicket, Recheck, Raise
<1>5. ASSUME NEW u \in Threads, NEW n \in Slots, n < write_head_[u]
      PROVE  before'[u][n] = before[u][n]
  <2>1. CASE LoadTicket(t)
    BY <1>0, <1>5, <2>1 DEF LoadTicket
  <2> QED
    BY <2>1 DEF Unraised, Producer, Publish, Recheck, Raise
<1> QED
  BY <1>1, <1>2, <1>3, <1>4, <1>5

\* No step of enqueue breaks the types of what it changes.
LEMMA ProducerKeepsLaneTypes ==
  ASSUME ProducerTypes, HistoryTypes, Lanes, NEW t \in Threads, Producer(t)
  PROVE  ProducerTypes' /\ HistoryTypes'
<1>1. ProducerTypes'
  <2> USE Indices DEF ProducerTypes
  <2>1. CASE LoadTicket(t)
    BY <2>1 DEF LoadTicket
  <2>2. CASE Publish(t)
    BY <2>2 DEF Publish, Lanes, InCall
  <2>3. CASE Recheck(t)
    BY <2>3 DEF Unraised, Recheck
  <2>4. CASE Raise(t)
    BY <2>4 DEF Raise
  <2> QED
    BY <2>1, <2>2, <2>3, <2>4 DEF Producer
<1>2. before' \in [Threads -> [Slots -> [Threads -> Slots]]]
  <2>1. before \in [Threads -> [Slots -> [Threads -> Slots]]] /\ write_head_[t] \in Slots
    BY DEF HistoryTypes, ProducerTypes
  <2>2. CASE LoadTicket(t)
    <3>1. Completed \in [Threads -> Slots]
      BY CompletedType
    <3> DEFINE row == [before[t] EXCEPT ![write_head_[t]] = Completed]
    <3>2. row \in [Slots -> [Threads -> Slots]]
      BY <2>1, <3>1
    <3>3. before' = [before EXCEPT ![t] = row]
      BY <2>2 DEF LoadTicket
    <3> HIDE DEF row
    <3> QED
      BY <2>1, <3>2, <3>3
  <2> QED
    BY <2>1, <2>2 DEF Unraised, Producer, Publish, Recheck, Raise, history
<1> QED
  BY <1>1, <1>2, ProducerFrame DEF HistoryTypes

\* No step of enqueue breaks the types.
LEMMA ProducerKeepsTypes ==
  ASSUME TypeOK, Lanes, NEW t \in Threads, Producer(t)
  PROVE  TypeOK'
<1>1. ProducerTypes' /\ HistoryTypes'
  BY ProducerKeepsLaneTypes DEF TypeOK
<1>2. ConsumerTypes'
  BY ProducerFrame DEF TypeOK, ConsumerTypes
<1>3. \A u \in Threads : read_head_'[u] <= write_head_'[u]
  <2>1. /\ write_head_ \in [Threads -> Nat] /\ write_head_' \in [Threads -> Nat]
        /\ read_head_ \in [Threads -> Nat]
    BY <1>1, Indices DEF TypeOK, ProducerTypes, ConsumerTypes
  <2> QED
    BY <2>1, ProducerFrame DEF TypeOK
<1> QED
  BY <1>1, <1>2, <1>3 DEF TypeOK

\* enqueue publishes the node at write_head_, and no other.
LEMMA ProducerKeepsPublished ==
  ASSUME ProducerTypes, HistoryTypes, Lanes, NEW t \in Threads, Producer(t)
  PROVE  Published'
<1>0. /\ write_head_ \in [Threads -> Nat] /\ cur \in [Threads -> Nat]
      /\ count_ \in [Threads -> [Slots -> Nat \cup {kEmpty}]]
  BY Indices DEF ProducerTypes
<1>1. CASE Publish(t)
  <2> SUFFICES ASSUME NEW u \in Threads, NEW n \in Slots
               PROVE  count_'[u][n] # kEmpty <=> n < write_head_'[u]
    BY DEF Published
  <2>1. CASE u = t /\ n = write_head_[t]
    BY <1>0, <1>1, <2>1, Indices DEF Publish
  <2>2. CASE ~(u = t /\ n = write_head_[t])
    <3>1. count_'[u][n] = count_[u][n]
      BY <1>0, <1>1, <2>2 DEF Publish
    <3>2. n < write_head_'[u] <=> n < write_head_[u]
      <4>1. n \in Nat /\ write_head_[t] \in Nat
        BY <1>0, Indices
      <4>2. u # t => write_head_'[u] = write_head_[u]
        BY <1>0, <1>1 DEF Publish
      <4>3. u = t => n # write_head_[t] /\ write_head_'[u] = write_head_[t] + 1
        BY <1>0, <1>1, <2>2 DEF Publish
      <4> QED
        BY <4>1, <4>2, <4>3
    <3> QED
      BY <3>1, <3>2 DEF Lanes, Published
  <2> QED
    BY <2>1, <2>2
<1> QED
  BY <1>1 DEF Unraised, Producer, LoadTicket, Recheck, Raise, Lanes, Published

\* up_to_ is raised past a ticket before the enqueue that drew it returns.
LEMMA ProducerKeepsTickets ==
  ASSUME ProducerTypes, HistoryTypes, Lanes, NEW t \in Threads, Producer(t)
  PROVE  Tickets'
<1>0. /\ write_head_ \in [Threads -> Nat] /\ cur \in [Threads -> Nat]
      /\ count_ \in [Threads -> [Slots -> Nat \cup {kEmpty}]] /\ up_to_ \in Nat
      /\ Completed \in [Threads -> Nat]
  BY CompletedType, Indices DEF ProducerTypes
<1> SUFFICES ASSUME NEW u \in Threads, NEW n \in Slots
             PROVE  /\ n < write_head_'[u] => count_'[u][n] <= up_to_'
                    /\ n < Completed'[u] => count_'[u][n] < up_to_'
  BY DEF Tickets
<1>1. up_to_' \in Nat /\ up_to_ <= up_to_'
  BY <1>0 DEF Unraised, Producer, LoadTicket, Publish, Recheck, Raise
<1>2. n \in Nat
  BY Indices
<1>3. n < write_head_[u] => count_[u][n] \in Nat /\ count_'[u][n] = count_[u][n]
  BY <1>0, ProducerFrame DEF Lanes, Published
<1>4. n < write_head_'[u] => count_'[u][n] <= up_to_'
  <2>1. CASE Publish(t) /\ u = t /\ n = write_head_[t]
    BY <1>0, <1>1, <2>1 DEF Publish, Lanes, InCall
  <2>2. CASE ~(Publish(t) /\ u = t /\ n = write_head_[t])
    <3>1. n < write_head_'[u] => n < write_head_[u]
      <4>1. CASE Publish(t)
        <5>1. u # t => write_head_'[u] = write_head_[u]
          BY <1>0, <4>1 DEF Publish
        <5>2. u = t => n # write_head_[t] /\ write_head_'[u] = write_head_[t] + 1
          BY <1>0, <2>2, <4>1 DEF Publish
        <5>3. write_head_[t] \in Nat
          BY <1>0
        <5> QED
          BY <1>2, <5>1, <5>2, <5>3
      <4> QED
        BY <4>1 DEF Unraised, Producer, LoadTicket, Recheck, Raise
    <3> QED
      BY <1>0, <1>1, <1>3, <3>1 DEF Lanes, Tickets
  <2> QED
    BY <2>1, <2>2
<1>5. ASSUME n < Completed'[u]
      PROVE  count_'[u][n] < up_to_'
  <2>1. CASE n < Completed[u]
    <3>1. n < write_head_[u]
      <4>1. Completed[u] <= write_head_[u]
        BY <1>0 DEF Completed
      <4> QED
        BY <1>0, <1>2, <2>1, <4>1
    <3> QED
      BY <1>0, <1>1, <1>3, <2>1, <3>1 DEF Lanes, Tickets
  <2>2. CASE ~(n < Completed[u])
    <3>1. /\ u = t /\ (Recheck(t) \/ Raise(t)) /\ pc'[t] = "idle"
          /\ Completed'[t] = write_head_[t] /\ Completed[t] = write_head_[t] - 1
      BY <1>5, <2>2, CompletedStep
    <3>2. n = write_head_[t] - 1
      <4>1. n < write_head_[t] /\ ~(n < write_head_[t] - 1) /\ write_head_[t] \in Nat
        BY <1>0, <1>5, <2>2, <3>1
      <4> QED
        BY <1>2, <4>1
    <3>3. pc[t] \in {"stored", "raise"}
      BY <3>1 DEF Unraised, Recheck, Raise
    <3>4. n < write_head_[t] /\ count_[t][n] = cur[t] /\ cur[t] <= up_to_
      BY <1>0, <1>2, <3>2, <3>3 DEF Lanes, InCall, Tickets
    <3>5. CASE Raise(t)
      BY <1>0, <1>3, <3>1, <3>4, <3>5 DEF Raise
    <3>6. CASE Recheck(t)
      <4>1. cur[t] # up_to_ /\ up_to_' = up_to_
        BY <3>1, <3>6 DEF Unraised, Recheck, ProducerTypes
      <4> QED
        <5>1. count_'[u][n] = cur[t]
          BY <1>3, <3>1, <3>4
        <5>2. cur[t] \in Nat /\ up_to_ \in Nat
          BY <1>0
        <5>3. cur[t] < up_to_
          BY <3>4, <4>1, <5>2
        <5> QED
          BY <4>1, <5>1, <5>3
    <3> QED
      BY <3>1, <3>5, <3>6
  <2> QED
    BY <2>1, <2>2
<1> QED
  BY <1>4, <1>5

\* A producer publishes the ticket it drew.
LEMMA ProducerKeepsInCall ==
  ASSUME ProducerTypes, HistoryTypes, Lanes, NEW t \in Threads, Producer(t)
  PROVE  InCall'
<1>0. /\ write_head_ \in [Threads -> Slots] /\ cur \in [Threads -> Nat]
      /\ count_ \in [Threads -> [Slots -> Nat \cup {kEmpty}]] /\ up_to_ \in Nat
      /\ pc \in [Threads -> {"idle", "loaded", "stored", "raise"}]
  BY DEF ProducerTypes
<1> SUFFICES ASSUME NEW u \in Threads
             PROVE  /\ pc'[u] = "loaded" => write_head_'[u] < MaxItems /\ cur'[u] <= up_to_'
                    /\ pc'[u] \in {"stored", "raise"} =>
                         write_head_'[u] > 0 /\ count_'[u][write_head_'[u] - 1] = cur'[u]
  BY DEF InCall
<1>1. /\ pc[u] = "loaded" => write_head_[u] < MaxItems /\ cur[u] <= up_to_
      /\ pc[u] \in {"stored", "raise"} =>
           write_head_[u] > 0 /\ count_[u][write_head_[u] - 1] = cur[u]
  BY DEF Lanes, InCall
<1>2. CASE LoadTicket(t)
  BY <1>0, <1>1, <1>2 DEF LoadTicket
<1>3. CASE Publish(t)
  <2>1. CASE u = t
    BY <1>0, <1>3, <2>1, Indices DEF Publish
  <2>2. CASE u # t
    BY <1>0, <1>1, <1>3, <2>2 DEF Publish
  <2> QED
    BY <2>1, <2>2
<1>4. CASE Recheck(t)
  BY <1>0, <1>1, <1>4 DEF Unraised, Recheck
<1>5. CASE Raise(t)
  BY <1>0, <1>1, <1>5 DEF Raise
<1> QED
  BY <1>2, <1>3, <1>4, <1>5 DEF Producer

\* Enqueues return after they have published.
LEMMA CompletedBound ==
  ASSUME ProducerTypes, Lanes, NEW u \in Threads
  PROVE  Completed[u] \in Nat /\ write_head_[u] \in Nat /\ Completed[u] <= write_head_[u]
BY CompletedType, Indices DEF ProducerTypes, Completed

\* A ticket is drawn above those of all the enqueues that have returned.
LEMMA ProducerKeepsOrder ==
  ASSUME ProducerTypes, HistoryTypes, Lanes, NEW t \in Threads, Producer(t)
  PROVE  Order'
<1>0. /\ write_head_ \in [Threads -> Slots] /\ cur \in [Threads -> Nat]
      /\ count_ \in [Threads -> [Slots -> Nat \cup {kEmpty}]]
      /\ before \in [Threads -> [Slots -> [Threads -> Slots]]]
      /\ pc \in [Threads -> {"idle", "loaded", "stored", "raise"}]
      /\ ProducerTypes
  BY DEF ProducerTypes, HistoryTypes
<1> SUFFICES ASSUME NEW a \in Threads, NEW b \in Threads
             PROVE  /\ \A n \in Slots : before'[a][n][b] <= Completed'[b]
                    /\ \A n, m \in Slots :
                         n < write_head_'[a] /\ m < before'[a][n][b] => count_'[b][m] < count_'[a][n]
                    /\ \A m \in Slots :
                         pc'[a] = "loaded" /\ m < before'[a][write_head_'[a]][b]
                           => count_'[b][m] < cur'[a]
  BY DEF Order
\* What was known about lane b is kept.
<1>1. ASSUME NEW n \in Slots, NEW m \in Slots, m < before[a][n][b]
      PROVE  count_'[b][m] = count_[b][m]
  <2>1. before[a][n][b] \in Nat /\ m \in Nat /\ before[a][n][b] <= Completed[b]
    BY <1>0, Indices DEF Lanes, Order
  <2>2. m < write_head_[b]
    BY <1>0, <1>1, <2>1, CompletedBound
  <2> QED
    BY <2>2, ProducerFrame DEF Lanes, Published
<1>2. ASSUME NEW n \in Slots
      PROVE  before'[a][n][b] <= Completed'[b]
  <2>1. Completed[b] <= Completed'[b] /\ Completed[b] \in Nat /\ Completed'[b] \in Nat
    <3>1. Completed'[b] \in Nat
      BY <1>0, CompletedStep, CompletedBound
    <3> QED
      BY <3>1, <1>0, ProducerFrame, CompletedBound
  <2>2. CASE LoadTicket(t) /\ a = t /\ n = write_head_[t]
    BY <1>0, <2>1, <2>2 DEF LoadTicket
  <2>3. CASE ~(LoadTicket(t) /\ a = t /\ n = write_head_[t])
    <3>1. before'[a][n] = before[a][n]
      <4>1. CASE LoadTicket(t)
        <5>1. before[t] \in [Slots -> [Threads -> Slots]]
          BY <1>0
        <5> QED
          BY <1>0, <2>3, <4>1, <5>1 DEF LoadTicket
      <4> QED
        BY <4>1 DEF Unraised, Producer, Publish, Recheck, Raise, history
    <3>2. before[a][n][b] <= Completed[b] /\ before[a][n][b] \in Nat
      BY <1>0, Indices DEF Lanes, Order
    <3> QED
      BY <2>1, <3>1, <3>2
  <2> QED
    BY <2>2, <2>3
<1>3. ASSUME NEW n \in Slots, NEW m \in Slots, n < write_head_'[a], m < before'[a][n][b]
      PROVE  count_'[b][m] < count_'[a][n]
  <2>1. CASE Publish(t) /\ a = t /\ n = write_head_[t]
    <3>1. before' = before /\ count_'[a][n] = cur[a] /\ pc[a] = "loaded"
      BY <1>0, <2>1 DEF Publish, history
    <3>2. count_[b][m] < cur[a]
      BY <1>3, <2>1, <3>1 DEF Lanes, Order
    <3> QED
      BY <1>1, <1>3, <3>1, <3>2
  <2>2. CASE ~(Publish(t) /\ a = t /\ n = write_head_[t])
    <3>1. n < write_head_[a]
      <4>0. n \in Nat /\ write_head_[a] \in Nat
        BY <1>0, Indices
      <4>1. CASE Publish(t) /\ a = t
        <5>1. n # write_head_[a] /\ write_head_'[a] = write_head_[a] + 1
          BY <1>0, <2>2, <4>1 DEF Publish
        <5> QED
          BY <1>3, <4>0, <4>1, <5>1
      <4>2. CASE ~(Publish(t) /\ a = t)
        BY <1>0, <1>3, <4>2 DEF Unraised, Producer, LoadTicket, Publish, Recheck, Raise
      <4> QED
        BY <4>1, <4>2
    <3>2. before'[a][n] = before[a][n] /\ count_'[a][n] = count_[a][n]
      BY <3>1, ProducerFrame DEF Lanes, Published
    <3> QED
      BY <1>1, <1>3, <3>1, <3>2 DEF Lanes, Order
  <2> QED
    BY <2>1, <2>2
<1>4. ASSUME NEW m \in Slots, pc'[a] = "loaded", m < before'[a][write_head_'[a]][b]
      PROVE  count_'[b][m] < cur'[a]
  <2>1. CASE LoadTicket(t) /\ a = t
    <3>1. before'[a][write_head_'[a]] = Completed /\ cur'[a] = up_to_ /\ count_' = count_
      BY <1>0, <2>1 DEF LoadTicket
    <3> QED
      BY <1>4, <3>1 DEF Lanes, Tickets
  <2>2. CASE ~(LoadTicket(t) /\ a = t)
    <3>1. /\ pc[a] = "loaded" /\ write_head_'[a] = write_head_[a] /\ cur'[a] = cur[a]
          /\ before'[a] = before[a]
      BY <1>0, <1>4, <2>2 DEF Unraised, Producer, LoadTicket, Publish, Recheck, Raise, history
    <3>2. count_[b][m] < cur[a]
      BY <1>4, <3>1 DEF Lanes, Order
    <3> QED
      BY <1>0, <1>1, <1>4, <3>1, <3>2
  <2> QED
    BY <2>1, <2>2
<1> QED
  BY <1>2, <1>3, <1>4

\* What the tickets in the lanes say survives enqueue.
LEMMA ProducerKeepsLanes ==
  ASSUME ProducerTypes, HistoryTypes, Lanes, NEW t \in Threads, Producer(t)
  PROVE  Lanes'
BY ProducerKeepsPublished, ProducerKeepsTickets, ProducerKeepsInCall, ProducerKeepsOrder
   DEF Lanes

\* A published head of a lane stays as it is until it is read.
LEMMA HeadKept ==
  ASSUME TypeOK, Lanes, NEW t \in Threads, Producer(t),
         NEW u \in Threads, HeadCount(u) # kEmpty
  PROVE  /\ HeadCount(u)' = HeadCount(u)
         /\ before'[u][read_head_[u]] = before[u][read_head_[u]]
<1>1. read_head_[u] \in Slots /\ read_head_' = read_head_
  BY ProducerFrame DEF TypeOK, ConsumerTypes
<1>2. read_head_[u] < write_head_[u]
  BY <1>1 DEF Lanes, Published, HeadCount
<1> QED
  BY <1>1, <1>2, Typed, ProducerFrame DEF HeadCount

\* A head is published iff its lane has an element that was not read.
LEMMA HeadPublished ==
  ASSUME TypeOK, Lanes, NEW u \in Threads
  PROVE  /\ HeadCount(u) # kEmpty <=> read_head_[u] < write_head_[u]
         /\ HeadCount(u) \in Nat \cup {kEmpty}
         /\ read_head_[u] \in Slots /\ read_head_[u] \in Nat /\ write_head_[u] \in Nat
BY Indices DEF TypeOK, ProducerTypes, ConsumerTypes, Lanes, Published, HeadCount

\* What precedes the head of lane t in lane u is published.
LEMMA PrecedingPublished ==
  ASSUME TypeOK, Lanes, NEW t \in Threads, NEW u \in Threads,
         read_head_[u] < before[t][read_head_[t]][u]
  PROVE  HeadCount(u) # kEmpty
<1>1. before[t][read_head_[t]][u] <= Completed[u] /\ before[t][read_head_[t]][u] \in Nat
  <2>1. before[t][read_head_[t]] \in [Threads -> Slots]
    BY HeadPublished DEF TypeOK, HistoryTypes
  <2> QED
    BY <2>1, HeadPublished, Indices DEF Lanes, Order
<1>2. Completed[u] <= write_head_[u] /\ Completed[u] \in Nat
  BY CompletedBound DEF TypeOK
<1> QED
  BY <1>1, <1>2, HeadPublished

\* What the current scan has established survives enqueue.
LEMMA ProducerKeepsScan ==
  ASSUME TypeOK, Lanes, Scan, NEW t \in Threads, Producer(t)
  PROVE  Scan'
<1>1. /\ UNCHANGED <<read_head_, scanning, i, min_count, min_index, prev_index>>
      /\ UNCHANGED <<atCall, tried>>
  BY Typed, ProducerFrame
<1>2. ASSUME NEW u \in Threads
      PROVE  atCall'[u] <= Completed'[u]
  <2>1. Completed[u] <= Completed'[u] /\ atCall[u] <= Completed[u]
    BY Typed, ProducerFrame DEF Scan
  <2>2. Completed[u] \in Nat /\ Completed'[u] \in Nat /\ atCall[u] \in Nat
    BY CompletedBound, CompletedStep, Indices DEF TypeOK, HistoryTypes
  <2> QED
    BY <1>1, <2>1, <2>2
<1>3. min_index' = -1 <=> min_count' = kEmpty
  BY <1>1 DEF Scan
<1>4. ASSUME scanning', min_index' # -1
      PROVE  HeadCount(min_index)' = min_count' /\ min_index' < i'
  <2>1. min_index \in Threads /\ min_count # kEmpty /\ HeadCount(min_index) = min_count /\ min_index < i
    BY <1>1, <1>4 DEF Scan, TypeOK, ConsumerTypes
  <2>2. HeadCount(min_index)' = HeadCount(min_index)
    BY <1>1, <2>1, HeadKept DEF HeadCount
  <2> QED
    BY <1>1, <2>1, <2>2
<1>5. ASSUME scanning', prev_index' \in Threads
      PROVE  /\ HeadCount(prev_index)' # kEmpty
             /\ \A u \in Threads :
                  u < i' /\ read_head_'[u] < before'[prev_index'][read_head_'[prev_index']][u]
                    => min_index' # -1 /\ min_count' <= HeadCount(u)'
  <2>1. HeadCount(prev_index) # kEmpty
    BY <1>1, <1>5 DEF Scan
  <2>2. /\ HeadCount(prev_index)' = HeadCount(prev_index)
        /\ before'[prev_index][read_head_[prev_index]] = before[prev_index][read_head_[prev_index]]
    BY <1>1, <1>5, <2>1, HeadKept DEF HeadCount
  <2>3. ASSUME NEW u \in Threads, u < i, read_head_[u] < before[prev_index][read_head_[prev_index]][u]
        PROVE  min_index # -1 /\ min_count <= HeadCount(u)'
    <3>1. HeadCount(u) # kEmpty
      BY <1>1, <1>5, <2>3, PrecedingPublished
    <3>2. HeadCount(u)' = HeadCount(u)
      BY <3>1, HeadKept
    <3> QED
      BY <1>1, <1>5, <2>3, <3>2 DEF Scan
  <2> QED
    BY <1>1, <2>1, <2>2, <2>3
<1>6. scanning' /\ min_index' = -1 => \A u \in Threads : u < i' => atCall'[u] <= read_head_'[u]
  BY <1>1 DEF Scan
<1> QED
  BY <1>2, <1>3, <1>4, <1>5, <1>6 DEF Scan

\* The lanes that were given up stay behind, whatever is enqueued.
LEMMA ProducerKeepsGivenUp ==
  ASSUME TypeOK, Lanes, Scan, GivenUp, NEW t \in Threads, Producer(t)
  PROVE  GivenUp'
<1>1. /\ UNCHANGED <<read_head_, scanning, i, min_count, min_index, prev_index>>
      /\ UNCHANGED <<atCall, tried>>
  BY Typed, ProducerFrame
<1> SUFFICES ASSUME scanning
             PROVE  GivenUp'
  BY <1>1 DEF GivenUp
<1>2. ASSUME NEW u \in Threads, u \in tried
      PROVE  HeadCount(u)' = HeadCount(u) /\ HeadCount(u) # kEmpty
  BY <1>2, HeadKept DEF GivenUp
<1>3. min_index # -1 =>
        min_index \in Threads /\ HeadCount(min_index)' = HeadCount(min_index)
  <2>1. min_index # -1 => min_index \in Threads /\ HeadCount(min_index) # kEmpty
    BY DEF Scan, TypeOK, ConsumerTypes
  <2> QED
    BY <1>1, <2>1, HeadKept DEF HeadCount
<1>4. prev_index \in Threads => HeadCount(prev_index)' = HeadCount(prev_index)
  BY <1>1, <1>2 DEF GivenUp, HeadCount
<1> QED
  BY <1>1, <1>2, <1>3, <1>4 DEF GivenUp, Ahead, HeadCount

\* enqueue takes nothing from the queue.
LEMMA ProducerKeepsRealTimeOrder ==
  ASSUME TypeOK, Lanes, RealTimeOrder, NEW t \in Threads, Producer(t)
  PROVE  RealTimeOrder'
<1> SUFFICES ASSUME NEW a \in Threads, NEW n \in 0..(read_head_'[a] - 1), NEW u \in Threads
             PROVE  before'[a][n][u] <= read_head_'[u]
  BY DEF RealTimeOrder
<1>1. read_head_' = read_head_ /\ read_head_[a] <= write_head_[a]
  BY ProducerFrame DEF TypeOK
<1>2. n \in Slots /\ n < write_head_[a]
  BY <1>1, HeadPublished, Indices DEF Slots
<1> QED
  BY <1>1, <1>2, Typed, ProducerFrame DEF RealTimeOrder

-----------------------------------------------------------------------------
(* The consumer. *)

\* The consumer leaves the producers alone, and only ReturnMin reads a node.
LEMMA ConsumerFrame ==
  ASSUME Consumer
  PROVE  /\ UNCHANGED <<up_to_, count_, write_head_, pc, cur, before>>
         /\ Completed' = Completed
         /\ ~ReturnMin => read_head_' = read_head_
<1>1. UNCHANGED <<up_to_, count_, write_head_, pc, cur, before>>
  BY DEF Confirmed, Consumer, BeginDequeue, ScanLane, Rescan, ReturnEmpty, ReturnMin, producerVars, history
<1>2. ~ReturnMin => read_head_' = read_head_
  BY DEF Confirmed, Consumer, BeginDequeue, ScanLane, Rescan, ReturnEmpty
<1> QED
  BY <1>1, <1>2 DEF Completed

\* dequeue changes nothing in the lanes.
LEMMA ConsumerKeepsLanes ==
  ASSUME Lanes, Consumer
  PROVE  Lanes'
BY ConsumerFrame DEF Lanes, Published, Tickets, InCall, Order

\* The lane whose scan ended on it has an element to read.
LEMMA MinToRead ==
  ASSUME TypeOK, Lanes, Scan, scanning, min_index # -1
  PROVE  /\ min_index \in Threads /\ min_count \in Nat
         /\ HeadCount(min_index) = min_count
         /\ read_head_[min_index] < write_head_[min_index]
         /\ read_head_[min_index] \in Nat /\ read_head_[min_index] + 1 \in Slots
<1>1. min_index \in Threads /\ min_count \in Nat /\ HeadCount(min_index) = min_count
  BY DEF Scan, TypeOK, ConsumerTypes
<1>2. read_head_[min_index] < write_head_[min_index] /\ read_head_[min_index] \in Slots
  BY <1>1, HeadPublished, EmptyAssumption
<1>3. write_head_[min_index] \in Slots
  BY <1>1 DEF TypeOK, ProducerTypes
<1> QED
  BY <1>1, <1>2, <1>3, Indices

\* No step of dequeue breaks the types.
LEMMA ConsumerKeepsTypes ==
  ASSUME TypeOK, Lanes, Scan, Consumer
  PROVE  TypeOK'
<1>1. ProducerTypes'
  BY ConsumerFrame DEF TypeOK, ProducerTypes
<1>2. HistoryTypes'
  <2>1. before' \in [Threads -> [Slots -> [Threads -> Slots]]]
    BY ConsumerFrame DEF TypeOK, HistoryTypes
  <2>2. atCall' \in [Threads -> Slots]
    BY CompletedType DEF Confirmed, TypeOK, HistoryTypes, Consumer, BeginDequeue, ScanLane, Rescan,
       ReturnEmpty, ReturnMin, history
  <2>3. tried' \in SUBSET (Threads \cup {-1, -2})
    BY DEF Confirmed, TypeOK, HistoryTypes, ConsumerTypes, Consumer, BeginDequeue, ScanLane, Rescan,
       ReturnEmpty, ReturnMin, history
  <2> QED
    BY <2>1, <2>2, <2>3 DEF HistoryTypes
<1>3. ConsumerTypes' /\ \A u \in Threads : read_head_'[u] <= write_head_'[u]
  <2>1. CASE BeginDequeue \/ Rescan
    <3>1. /\ i' = 0 /\ min_count' = kEmpty /\ min_index' = -1 /\ scanning' = TRUE
          /\ read_head_' = read_head_
      BY <2>1 DEF Confirmed, BeginDequeue, Rescan, ScanOver, NewScan
    <3>2. prev_index' \in Threads \cup {-1, -2}
      BY <2>1 DEF Confirmed, BeginDequeue, Rescan, NewScan, TypeOK, ConsumerTypes
    <3>3. 0 \in 0..NumThreads
      BY SizeAssumption
    <3>4. ConsumerTypes'
      BY <3>1, <3>2, <3>3 DEF TypeOK, ConsumerTypes
    <3> QED
      BY <3>1, <3>4, ConsumerFrame DEF TypeOK
  <2>2. CASE ScanLane
    <3>1. i \in Threads /\ i + 1 \in 0..NumThreads
      BY <2>2, Indices DEF ScanLane, TypeOK, ConsumerTypes, Threads
    <3>2. HeadCount(i) \in Nat \cup {kEmpty}
      BY <3>1, HeadPublished
    <3> QED
      BY <2>2, <3>1, <3>2, ConsumerFrame DEF ScanLane, TypeOK, ConsumerTypes
  <2>3. CASE ReturnEmpty
    BY <2>3, ConsumerFrame DEF Confirmed, ReturnEmpty, localVars, TypeOK, ConsumerTypes
  <2>4. CASE ReturnMin
    <3>1. scanning /\ min_index # -1
      BY <2>4 DEF Confirmed, ReturnMin, ScanOver
    <3>2. read_head_' = [read_head_ EXCEPT ![min_index] = @ + 1]
      BY <2>4 DEF Confirmed, ReturnMin
    <3>3. read_head_' \in [Threads -> Slots]
      BY <3>1, <3>2, MinToRead DEF TypeOK, ConsumerTypes
    <3>4. ConsumerTypes'
      BY <2>4, <3>3 DEF Confirmed, ReturnMin, localVars, TypeOK, ConsumerTypes
    <3>5. ASSUME NEW u \in Threads
          PROVE  read_head_'[u] <= write_head_'[u]
      <4>1. read_head_[min_index] + 1 <= write_head_[min_index]
        BY <3>1, MinToRead, HeadPublished
      <4>2. read_head_'[u] = IF u = min_index THEN read_head_[u] + 1 ELSE read_head_[u]
        BY <3>2 DEF TypeOK, ConsumerTypes
      <4> QED
        BY <4>1, <4>2, ConsumerFrame DEF TypeOK
    <3> QED
      BY <3>4, <3>5
  <2> QED
    BY <2>1, <2>2, <2>3, <2>4 DEF Consumer
<1> QED
  BY <1>1, <1>2, <1>3 DEF TypeOK

\* Each turn of the for loop extends what the scan has established by one lane,
\* and a new scan starts with what the last one has seen of lane prev_index.
LEMMA ConsumerKeepsScan ==
  ASSUME TypeOK, Lanes, Scan, Consumer
  PROVE  Scan'
<1>1. CASE BeginDequeue
  <2>1. atCall' = Completed' /\ \A u \in Threads : Completed[u] <= Completed[u]
    BY <1>1, ConsumerFrame, CompletedBound DEF BeginDequeue, TypeOK
  <2>2. i' = 0 /\ min_index' = -1 /\ min_count' = kEmpty /\ prev_index' = -2
    BY <1>1 DEF BeginDequeue, NewScan
  <2> QED
    BY <2>1, <2>2, ConsumerFrame, Indices DEF Scan
<1>2. CASE ScanLane
  <2>1. /\ i \in Threads /\ i' = i + 1 /\ prev_index' = prev_index
        /\ read_head_' = read_head_ /\ atCall' = atCall /\ scanning /\ i \in Nat
    BY <1>2, Indices DEF ScanLane, TypeOK, ConsumerTypes, Threads, history
  <2>2. \A u \in Threads : HeadCount(u)' = HeadCount(u)
    BY <2>1, ConsumerFrame DEF HeadCount
  <2>3. \A u \in Threads : u < i + 1 => u < i \/ u = i
    BY <2>1, Indices
  <2>4. HeadCount(i) \in Nat \cup {kEmpty} /\ min_count \in Nat \cup {kEmpty}
    BY <2>1, HeadPublished DEF TypeOK, ConsumerTypes
  <2>5. /\ min_index = -1 <=> min_count = kEmpty
        /\ min_index # -1 => HeadCount(min_index) = min_count /\ min_index < i /\ min_index \in Threads
    BY <2>1 DEF Scan, TypeOK, ConsumerTypes
  <2>6. \/ /\ HeadCount(i) # kEmpty /\ (min_count = kEmpty \/ HeadCount(i) < min_count)
           /\ min_count' = HeadCount(i) /\ min_index' = i
        \/ /\ HeadCount(i) = kEmpty \/ (min_count # kEmpty /\ ~(HeadCount(i) < min_count))
           /\ min_count' = min_count /\ min_index' = min_index
    BY <1>2 DEF ScanLane, Earlier
  <2>7. min_index' = -1 <=> min_count' = kEmpty
    BY <2>1, <2>5, <2>6, Indices
  <2>8. min_index' # -1 => HeadCount(min_index)' = min_count' /\ min_index' < i'
    <3>1. CASE min_index' = i
      <4>1. HeadCount(min_index)' = count_'[i][read_head_'[i]]
        BY <3>1 DEF HeadCount
      <4>2. count_'[i][read_head_'[i]] = HeadCount(i)
        BY <2>1, ConsumerFrame DEF HeadCount
      <4> QED
        BY <2>1, <2>5, <2>6, <3>1, <4>1, <4>2, Indices
    <3>2. CASE min_index' = min_index /\ min_count' = min_count
      <4>1. HeadCount(min_index)' = HeadCount(min_index)
        BY <2>1, <3>2, ConsumerFrame DEF HeadCount
      <4> QED
        <5>1. min_index # -1 => min_index \in Nat /\ min_index < i
          BY <2>5, Indices
        <5>2. min_index # -1 => min_index < i + 1
          BY <2>1, <5>1
        <5> QED
          BY <2>1, <2>5, <3>2, <4>1, <5>2
    <3> QED
      BY <2>6, <3>1, <3>2
  <2>9. ASSUME prev_index \in Threads
        PROVE  /\ HeadCount(prev_index)' # kEmpty
               /\ \A u \in Threads :
                    u < i' /\ read_head_[u] < before[prev_index][read_head_[prev_index]][u]
                      => min_index' # -1 /\ min_count' <= HeadCount(u)'
    <3>1. HeadCount(prev_index)' # kEmpty
      BY <2>1, <2>2, <2>9 DEF Scan
    <3>2. ASSUME NEW u \in Threads, u < i',
                 read_head_[u] < before[prev_index][read_head_[prev_index]][u]
          PROVE  min_index' # -1 /\ min_count' <= HeadCount(u)'
      <4>1. HeadCount(u) # kEmpty /\ HeadCount(u) \in Nat
        BY <2>9, <3>2, PrecedingPublished, HeadPublished
      <4>2. CASE u = i
        BY <2>1, <2>2, <2>4, <2>5, <2>6, <4>1, <4>2, Indices
      <4>3. CASE u < i
        <5>1. min_index # -1 /\ min_count <= HeadCount(u) /\ min_count \in Nat
          BY <2>1, <2>4, <2>5, <2>9, <3>2, <4>3 DEF Scan
        <5> QED
          BY <2>1, <2>2, <2>4, <2>6, <4>1, <5>1, Indices
      <4> QED
        BY <2>1, <2>3, <3>2, <4>2, <4>3
    <3> QED
      BY <3>1, <3>2
  <2>10. ASSUME min_index' = -1, NEW u \in Threads, u < i'
         PROVE  atCall[u] <= read_head_[u]
    <3>1. min_index = -1 /\ HeadCount(i) = kEmpty
      BY <2>1, <2>5, <2>6, <2>10, Indices
    <3>2. CASE u = i
      <4>1. ~(read_head_[u] < write_head_[u]) /\ read_head_[u] \in Nat /\ write_head_[u] \in Nat
        BY <3>1, <3>2, HeadPublished
      <4>2. Completed[u] \in Nat /\ Completed[u] <= write_head_[u]
        BY CompletedBound DEF TypeOK
      <4>3. atCall[u] <= Completed[u] /\ atCall[u] \in Nat
        BY Indices DEF Scan, TypeOK, HistoryTypes
      <4> QED
        BY <4>1, <4>2, <4>3
    <3>3. CASE u < i
      BY <2>1, <3>1, <3>3 DEF Scan
    <3> QED
      BY <2>1, <2>3, <2>10, <3>2, <3>3
  <2> QED
    <3>1. \A u \in Threads : atCall'[u] <= Completed'[u]
      BY <2>1, ConsumerFrame DEF Scan
    <3>2. scanning' /\ prev_index' \in Threads =>
           /\ HeadCount(prev_index)' # kEmpty
           /\ \A u \in Threads :
                u < i' /\ read_head_'[u] < before'[prev_index'][read_head_'[prev_index']][u]
                  => min_index' # -1 /\ min_count' <= HeadCount(u)'
      BY <2>1, <2>9, ConsumerFrame DEF HeadCount
    <3>3. scanning' /\ min_index' = -1 => \A u \in Threads : u < i' => atCall'[u] <= read_head_'[u]
      BY <2>1, <2>10
    <3> QED
      BY <2>7, <2>8, <3>1, <3>2, <3>3 DEF Scan
<1>3. CASE Rescan
  <2>1. /\ i' = 0 /\ min_index' = -1 /\ min_count' = kEmpty /\ prev_index' = min_index
        /\ read_head_' = read_head_ /\ atCall' = atCall /\ scanning
    BY <1>3 DEF Confirmed, Rescan, NewScan, ScanOver
  <2>2. min_index \in Threads => count_'[min_index][read_head_'[min_index]] # kEmpty
    <3>1. ASSUME min_index \in Threads
          PROVE  HeadCount(min_index) # kEmpty
      <4>1. min_index # -1
        BY <3>1, Indices
      <4> QED
        BY <2>1, <4>1, MinToRead, EmptyAssumption
    <3> QED
      BY <2>1, <3>1, ConsumerFrame DEF HeadCount
  <2>3. \A u \in Threads : ~(u < 0)
    BY Indices
  <2>4. \A u \in Threads : atCall'[u] <= Completed'[u]
    BY <2>1, ConsumerFrame DEF Scan
  <2>5. scanning' /\ prev_index' \in Threads => HeadCount(prev_index)' # kEmpty
    BY <2>1, <2>2, ConsumerFrame DEF HeadCount
  <2> QED
    BY <2>1, <2>3, <2>4, <2>5 DEF Scan
<1>4. CASE ReturnEmpty \/ ReturnMin
  BY <1>4, ConsumerFrame DEF Confirmed, ReturnEmpty, ReturnMin, localVars, history, Scan
<1> QED
  BY <1>1, <1>2, <1>3, <1>4 DEF Consumer

\* The order of the scan is transitive.
LEMMA AheadTransitive ==
  ASSUME NEW a \in Threads, NEW b \in Threads, NEW c \in Threads,
         HeadCount(a) \in Nat, HeadCount(b) \in Nat, HeadCount(c) \in Nat,
         Ahead(a, b), Ahead(b, c)
  PROVE  Ahead(a, c)
BY Indices DEF Ahead

\* A scan that ends on another lane than the one before it ends on one ahead of
\* that lane, and so ahead of all that were given up.
LEMMA ConsumerKeepsGivenUp ==
  ASSUME TypeOK, Lanes, Scan, GivenUp, Consumer
  PROVE  GivenUp'
<1>1. CASE BeginDequeue
  <2>1. prev_index' = -2 /\ tried' = {-2}
    BY <1>1 DEF BeginDequeue, NewScan
  <2> QED
    BY <2>1, Indices DEF GivenUp
<1>2. CASE ScanLane
  <2>1. /\ i \in Threads /\ i' = i + 1 /\ prev_index' = prev_index /\ tried' = tried
        /\ read_head_' = read_head_ /\ scanning
    BY <1>2, Indices DEF ScanLane, TypeOK, ConsumerTypes, Threads, history
  <2>2. /\ \A u \in Threads : HeadCount(u)' = HeadCount(u)
        /\ \A u, v \in Threads : Ahead(u, v)' = Ahead(u, v)
    BY <2>1, ConsumerFrame DEF HeadCount, Ahead
  <2>3. /\ prev_index \in tried
        /\ prev_index = -2 => tried = {-2}
        /\ prev_index = -1 => tried = {-1, -2}
        /\ \A t \in Threads : t \in tried =>
             /\ HeadCount(t) # kEmpty
             /\ t # prev_index => prev_index \in Threads /\ Ahead(prev_index, t)
    BY <2>1 DEF GivenUp
  <2>4. \A t \in Threads : t \in tried /\ t # prev_index => Ahead(prev_index, t)'
    BY <2>1, <2>2, <2>3 DEF Ahead
  <2>5. ASSUME prev_index \in Threads, prev_index < i + 1
        PROVE  min_index' # -1 /\ (min_index' = prev_index \/ Ahead(min_index, prev_index)')
    <3>1. /\ HeadCount(prev_index) \in Nat
          /\ min_count \in Nat \cup {kEmpty} /\ HeadCount(i) \in Nat \cup {kEmpty}
      BY <2>1, <2>3, <2>5, HeadPublished DEF TypeOK, ConsumerTypes
    <3>2. /\ min_index = -1 <=> min_count = kEmpty
          /\ min_index # -1 => min_index \in Threads /\ HeadCount(min_index) = min_count /\ min_index < i
      BY <2>1 DEF Scan, TypeOK, ConsumerTypes
    <3>3. CASE HeadCount(i) # kEmpty /\ (min_count = kEmpty \/ HeadCount(i) < min_count)
      <4>1. min_index' = i /\ min_index' # -1
        BY <1>2, <2>1, <3>3, Indices DEF ScanLane, Earlier
      <4>2. CASE prev_index < i
        <5>1. min_index # -1 /\ (min_index = prev_index \/ Ahead(min_index, prev_index))
          BY <2>1, <2>5, <4>2 DEF GivenUp
        <5>2. HeadCount(i) < min_count /\ HeadCount(i) \in Nat /\ min_count \in Nat
          BY <3>1, <3>2, <3>3, <5>1
        <5>3. min_count <= HeadCount(prev_index)
          BY <3>1, <3>2, <5>1, <5>2 DEF Ahead
        <5>4. HeadCount(i) < HeadCount(prev_index)
          BY <3>1, <5>2, <5>3
        <5>5. HeadCount(min_index)' = HeadCount(i) /\ HeadCount(prev_index)' = HeadCount(prev_index)
          BY <2>1, <4>1, ConsumerFrame DEF HeadCount
        <5> QED
          BY <4>1, <5>4, <5>5 DEF Ahead
      <4>3. CASE prev_index = i
        BY <4>1, <4>3
      <4> QED
        BY <2>1, <2>5, <4>2, <4>3, Indices
    <3>4. CASE ~(HeadCount(i) # kEmpty /\ (min_count = kEmpty \/ HeadCount(i) < min_count))
      <4>1. min_index' = min_index /\ min_count' = min_count
        BY <1>2, <3>4 DEF ScanLane, Earlier
      <4>2. Ahead(min_index, prev_index)' = Ahead(min_index, prev_index)
        BY <2>1, <4>1, ConsumerFrame DEF HeadCount, Ahead
      <4>3. CASE prev_index < i
        BY <2>1, <2>5, <4>1, <4>2, <4>3 DEF GivenUp
      <4>4. CASE prev_index = i
        <5>1. min_count # kEmpty /\ ~(HeadCount(i) < min_count)
          BY <3>1, <3>4, <4>4, EmptyAssumption
        <5>2. min_index # -1 /\ HeadCount(min_index) = min_count /\ min_index < i
          BY <3>2, <5>1
        <5>3. min_count <= HeadCount(i)
          BY <3>1, <4>4, <5>1
        <5>4. HeadCount(min_index) < HeadCount(prev_index) \/ HeadCount(min_index) = HeadCount(prev_index)
          BY <3>1, <4>4, <5>1, <5>2, <5>3
        <5> QED
          BY <4>1, <4>2, <4>4, <5>2, <5>4 DEF Ahead
      <4> QED
        BY <2>1, <2>5, <4>3, <4>4, Indices
    <3> QED
      BY <3>3, <3>4
  <2> QED
    BY <2>1, <2>2, <2>3, <2>4, <2>5 DEF GivenUp
<1>3. CASE Rescan
  <2>1. /\ i' = 0 /\ min_index' = -1 /\ prev_index' = min_index /\ tried' = tried \cup {min_index}
        /\ read_head_' = read_head_ /\ scanning /\ prev_index # min_index /\ i = NumThreads
    BY <1>3 DEF Confirmed, Rescan, NewScan, ScanOver
  <2>2. /\ prev_index = -2 => tried = {-2}
        /\ prev_index = -1 => tried = {-1, -2}
        /\ \A t \in Threads : t \in tried =>
             /\ HeadCount(t) # kEmpty
             /\ t # prev_index => prev_index \in Threads /\ Ahead(prev_index, t)
        /\ prev_index \in Threads => min_index # -1 /\ Ahead(min_index, prev_index)
    BY <2>1, Indices DEF GivenUp
  <2>3. /\ min_index \in Threads \cup {-1} /\ prev_index \in Threads \cup {-1, -2}
        /\ -1 \notin Threads /\ -2 \notin Threads
    BY Indices DEF TypeOK, ConsumerTypes
  <2>4. min_index # -1 => min_index \in Threads /\ HeadCount(min_index) # kEmpty
    BY <2>1, MinToRead, EmptyAssumption
  <2>5. min_index = -1 => tried = {-2}
    BY <2>1, <2>2, <2>3
  <2>6. ASSUME NEW t \in Threads, t \in tried, t # min_index
        PROVE  min_index \in Threads /\ Ahead(min_index, t)
    <3>1. prev_index \in Threads /\ min_index \in Threads /\ Ahead(min_index, prev_index)
      BY <2>2, <2>3, <2>6
    <3>2. CASE t = prev_index
      BY <3>1, <3>2
    <3>3. CASE t # prev_index
      <4>1. Ahead(prev_index, t)
        BY <2>2, <2>6, <3>3
      <4>2. HeadCount(prev_index) \in Nat /\ HeadCount(min_index) \in Nat /\ HeadCount(t) \in Nat
        <5>1. HeadCount(prev_index) # kEmpty
          BY <2>1, <3>1 DEF Scan
        <5> QED
          BY <2>2, <2>4, <2>3, <2>6, <3>1, <5>1, HeadPublished
      <4> QED
        BY <3>1, <4>1, <4>2, AheadTransitive
    <3> QED
      BY <3>2, <3>3
  <2>7. \A t \in Threads : t \in tried' =>
          /\ HeadCount(t)' # kEmpty
          /\ t # prev_index' => prev_index' \in Threads /\ Ahead(prev_index, t)'
    <3>1. ASSUME NEW t \in Threads, t \in tried'
          PROVE  HeadCount(t) # kEmpty /\ (t # min_index => min_index \in Threads /\ Ahead(min_index, t))
      <4>1. CASE t = min_index
        BY <2>3, <2>4, <4>1
      <4>2. CASE t # min_index
        <5>1. t \in tried
          BY <2>1, <3>1, <4>2
        <5> QED
          BY <2>2, <2>6, <4>2, <5>1
      <4> QED
        BY <4>1, <4>2
    <3>2. ASSUME NEW t \in Threads
          PROVE  /\ HeadCount(t)' = HeadCount(t)
                 /\ Ahead(min_index, t) => Ahead(prev_index, t)'
      BY <2>1, ConsumerFrame DEF HeadCount, Ahead
    <3> QED
      BY <2>1, <3>1, <3>2
  <2>8. ~(prev_index' \in Threads /\ prev_index' < i')
    BY <2>1, Indices
  <2>9. /\ prev_index' \in tried' /\ prev_index' # -2
        /\ prev_index' = -1 => tried' = {-1, -2}
    BY <2>1, <2>3, <2>5
  <2> QED
    BY <2>7, <2>8, <2>9 DEF GivenUp
<1>4. CASE ReturnEmpty \/ ReturnMin
  BY <1>4 DEF Confirmed, ReturnEmpty, ReturnMin, GivenUp
<1> QED
  BY <1>1, <1>2, <1>3, <1>4 DEF Consumer

\* dequeue takes the head of the lane on which two scans ended: an element that
\* precedes it and were still in its lane would have had a lower ticket, and the
\* second scan, which began after the first had seen the head, would have met it.
LEMMA MinIsNext ==
  ASSUME TypeOK, Lanes, Scan, ScanOver, min_index # -1, prev_index = min_index,
         NEW u \in Threads
  PROVE  before[min_index][read_head_[min_index]][u] <= read_head_[u]
<1> DEFINE r == read_head_[min_index]
<1>1. /\ scanning /\ i = NumThreads
      /\ min_index \in Threads /\ min_count \in Nat /\ HeadCount(min_index) = min_count
      /\ r < write_head_[min_index] /\ r \in Slots
  BY MinToRead, HeadPublished DEF ScanOver
<1>2. before[min_index][r][u] \in Nat /\ read_head_[u] \in Nat /\ read_head_[u] \in Slots
  <2>1. before[min_index][r] \in [Threads -> Slots]
    BY <1>1 DEF TypeOK, HistoryTypes
  <2> QED
    BY <2>1, HeadPublished, Indices
<1>3. SUFFICES ASSUME read_head_[u] < before[min_index][r][u]
               PROVE  FALSE
  BY <1>2
<1>4. min_count <= HeadCount(u)
  BY <1>1, <1>3, Indices DEF Scan
<1>5. HeadCount(u) \in Nat
  BY <1>1, <1>3, PrecedingPublished, HeadPublished
<1>6. HeadCount(u) < min_count
  BY <1>1, <1>2, <1>3 DEF Lanes, Order, HeadCount
<1> QED
  BY <1>1, <1>4, <1>5, <1>6

\* The element dequeue takes comes after all that precede it.
LEMMA ConsumerKeepsRealTimeOrder ==
  ASSUME TypeOK, Lanes, Scan, RealTimeOrder, Consumer
  PROVE  RealTimeOrder'
<1>1. CASE ~ReturnMin
  BY <1>1, ConsumerFrame DEF RealTimeOrder
<1>2. CASE ReturnMin
  <2> DEFINE r == read_head_[min_index]
  <2>1. /\ scanning /\ i = NumThreads /\ min_index # -1 /\ prev_index = min_index
        /\ read_head_' = [read_head_ EXCEPT ![min_index] = @ + 1]
    BY <1>2 DEF Confirmed, ReturnMin, ScanOver
  <2>2. /\ min_index \in Threads /\ min_count \in Nat /\ HeadCount(min_index) = min_count
        /\ r < write_head_[min_index] /\ r \in Nat /\ r \in Slots
    BY <2>1, MinToRead, HeadPublished
  <2>3. \A u \in Threads : before[min_index][r][u] <= read_head_[u]
    BY <1>2, MinIsNext DEF Confirmed, ReturnMin
  <2>4. ASSUME NEW u \in Threads
        PROVE  /\ read_head_'[u] = IF u = min_index THEN read_head_[u] + 1 ELSE read_head_[u]
               /\ read_head_[u] \in Nat /\ read_head_[u] <= read_head_'[u]
    BY <2>1, HeadPublished DEF TypeOK, ConsumerTypes
  <2>5. ASSUME NEW t \in Threads, NEW n \in 0..(read_head_'[t] - 1), NEW u \in Threads
        PROVE  before'[t][n][u] <= read_head_'[u]
    <3>1. before[t][n][u] <= read_head_[u] /\ n \in Slots
      <4>1. CASE n \in 0..(read_head_[t] - 1)
        BY <4>1, HeadPublished, Indices DEF RealTimeOrder, Slots
      <4>2. CASE n \notin 0..(read_head_[t] - 1)
        <5>1. t = min_index /\ n = r
          BY <2>4, <2>5, <4>2
        <5> QED
          BY <2>2, <2>3, <5>1
      <4> QED
        BY <4>1, <4>2
    <3>2. before[t][n][u] \in Nat
      <4>1. before[t][n] \in [Threads -> Slots]
        BY <3>1 DEF TypeOK, HistoryTypes
      <4> QED
        BY <4>1, Indices
    <3>3. before' = before
      BY ConsumerFrame
    <3> QED
      BY <2>4, <3>1, <3>2, <3>3
  <2> QED
    BY <2>5 DEF RealTimeOrder
<1> QED
  BY <1>1, <1>2

-----------------------------------------------------------------------------
\* Every step keeps the inductive invariant.
LEMMA NextKeepsIInv ==
  ASSUME IInv, [Next]_vars
  PROVE  IInv'
<1>1. ASSUME NEW t \in Threads, Producer(t)
      PROVE  IInv'
  BY <1>1, Typed, ProducerKeepsTypes, ProducerKeepsLanes, ProducerKeepsScan, ProducerKeepsGivenUp,
     ProducerKeepsRealTimeOrder DEF IInv
<1>2. CASE Consumer
  BY <1>2, ConsumerKeepsTypes, ConsumerKeepsLanes, ConsumerKeepsScan, ConsumerKeepsGivenUp,
     ConsumerKeepsRealTimeOrder DEF IInv
<1>3. CASE UNCHANGED vars
  <2>1. /\ UNCHANGED <<up_to_, count_, write_head_, pc, cur, read_head_, scanning>>
        /\ UNCHANGED <<i, min_count, min_index, prev_index, before, atCall, tried>>
    BY <1>3 DEF vars, producerVars, localVars, history
  <2>2. TypeOK' <=> TypeOK
    BY <2>1 DEF TypeOK, ProducerTypes, ConsumerTypes, HistoryTypes
  <2>3. Completed' = Completed /\ RealTimeOrder' = RealTimeOrder
    BY <2>1 DEF Completed, RealTimeOrder
  <2>4. Lanes' <=> Lanes
    BY <2>1, <2>3 DEF Lanes, Published, Tickets, InCall, Order
  <2>5. /\ \A u \in Threads : HeadCount(u)' = HeadCount(u)
        /\ \A u, v \in Threads : Ahead(u, v)' = Ahead(u, v)
        /\ HeadCount(min_index)' = HeadCount(min_index)
        /\ HeadCount(prev_index)' = HeadCount(prev_index)
    BY <2>1 DEF HeadCount, Ahead
  <2>6. Scan' <=> Scan
    BY <2>1, <2>3, <2>5 DEF Scan
  <2>7. GivenUp' <=> GivenUp
    BY <2>1 DEF GivenUp, Ahead, HeadCount
  <2> QED
    BY <2>2, <2>3, <2>4, <2>6, <2>7 DEF IInv
<1> QED
  BY <1>1, <1>2, <1>3 DEF Next

\* The inductive invariant holds at every step of enqueue and dequeue.
THEOREM Invariance == Spec => []IInv
BY InitIInv, NextKeepsIInv, PTL DEF Spec

\* The types, and that the consumer stays behind the producer in every lane.
THEOREM TypeCorrect == Spec => []TypeOK
BY Invariance, PTL DEF IInv

\* Elements leave the queue in an order that agrees with real time, for any
\* number of producers.
THEOREM RealTimeOrdered == Spec => []RealTimeOrder
BY Invariance, PTL DEF IInv

\* A dequeue that reports "empty" overlooked nothing that was enqueued before it
\* was called.
THEOREM EmptyIsEmpty == Spec => []EmptyMeansEmpty
<1>1. IInv => EmptyMeansEmpty
  BY Indices DEF IInv, Scan, EmptyMeansEmpty, ScanOver, TypeOK, ConsumerTypes
<1> QED
  BY <1>1, Invariance, PTL

\* A dequeue never returns to a lane it gave up, whatever the producers do.
THEOREM ScansAreBounded == Spec => []BoundedScans
<1>1. IInv => BoundedScans
  <2> SUFFICES ASSUME IInv, ScanOver, min_index \in tried, min_index # prev_index
               PROVE  FALSE
    BY DEF BoundedScans
  <2>1. /\ scanning /\ i = NumThreads
        /\ min_index \in Threads \cup {-1} /\ prev_index \in Threads \cup {-1, -2}
        /\ -1 \notin Threads /\ -2 \notin Threads
    BY Indices DEF ScanOver, IInv, TypeOK, ConsumerTypes
  <2>2. prev_index \in Threads
    BY <2>1 DEF IInv, GivenUp
  <2>3. min_index \in Threads /\ Ahead(min_index, prev_index)
    BY <2>1, <2>2, Indices DEF IInv, GivenUp
  <2>4. Ahead(prev_index, min_index)
    BY <2>1, <2>3 DEF IInv, GivenUp
  <2>5. HeadCount(prev_index) \in Nat /\ HeadCount(min_index) \in Nat
    BY <2>1, <2>2, <2>3, HeadPublished DEF IInv, GivenUp
  <2> QED
    BY <2>2, <2>3, <2>4, <2>5, Indices DEF Ahead
<1> QED
  BY <1>1, Invariance, PTL

-----------------------------------------------------------------------------
(* Linearizability: every step of the queue is a step of LinearQueue or      *)
(* changes nothing that LinearQueue sees.                                    *)

Started == [t \in Threads |-> Completed[t] + (IF pc[t] = "idle" THEN 0 ELSE 1)]

\* Drawing the ticket is the call of the abstract enqueue, and the last step of
\* the code its return; what is between changes nothing there.
LEMMA ProducerRefines ==
  ASSUME IInv, NEW t \in Threads, Producer(t)
  PROVE  [LQ!Next]_(LQ!vars)
<1> USE DEF IInv
<1>1. UNCHANGED <<read_head_, scanning, atCall>>
  BY Typed, ProducerFrame
<1>2. /\ pc \in [Threads -> {"idle", "loaded", "stored", "raise"}]
      /\ write_head_ \in [Threads -> Nat] /\ up_to_ \in Nat
  BY Indices DEF TypeOK, ProducerTypes
<1>3. \A u \in Threads : Completed[u] \in Nat
  BY CompletedBound DEF TypeOK
<1>4. CASE LoadTicket(t)
  <2>1. pc[t] = "idle" /\ write_head_[t] < MaxItems
    BY <1>4 DEF LoadTicket
  <2>2. Completed[t] = write_head_[t] /\ Started[t] = write_head_[t]
    BY <1>2, <2>1 DEF Completed, Started
  <2>3. Completed' = Completed
    BY <1>2, <1>4 DEF LoadTicket, Completed
  <2>4. Started' = [Started EXCEPT ![t] = @ + 1]
    <3>1. Started = [u \in Threads |-> Started[u]] /\ Started' = [u \in Threads |-> Started'[u]]
      BY DEF Started
    <3>2. pc'[t] = "loaded" /\ \A u \in Threads : u # t => pc'[u] = pc[u]
      BY <1>2, <1>4 DEF LoadTicket
    <3>3. \A u \in Threads : Started'[u] = IF u = t THEN Started[u] + 1 ELSE Started[u]
      BY <1>2, <1>3, <2>1, <2>3, <3>2 DEF Started
    <3> QED
      BY <3>1, <3>3
  <2>5. before' = [before EXCEPT ![t][Started[t]] = Completed]
    BY <1>4, <2>2 DEF LoadTicket
  <2>6. LQ!EnqueueCall(t)
    BY <1>1, <2>1, <2>2, <2>3, <2>4, <2>5 DEF LQ!EnqueueCall, Started
  <2> QED
    BY <2>6 DEF LQ!Next
<1>5. CASE Publish(t)
  <2>1. Completed' = Completed
    BY <1>2, <1>5 DEF Publish, Completed
  <2>2. Started' = Started
    BY <1>2, <1>3, <1>5, <2>1 DEF Publish, Started
  <2>3. UNCHANGED before
    BY <1>5 DEF Publish, history
  <2> QED
    BY <1>1, <2>1, <2>2, <2>3 DEF LQ!vars, Started
<1>6. CASE (Recheck(t) \/ Raise(t)) /\ pc'[t] = "idle"
  <2>1. /\ pc' = [pc EXCEPT ![t] = "idle"] /\ pc[t] \in {"stored", "raise"}
        /\ write_head_' = write_head_ /\ before' = before
    BY <1>2, <1>6 DEF Unraised, Recheck, Raise, history
  <2>2. Completed' = [Completed EXCEPT ![t] = @ + 1]
    <3>1. Completed = [u \in Threads |-> Completed[u]] /\ Completed' = [u \in Threads |-> Completed'[u]]
      BY DEF Completed
    <3>2. \A u \in Threads : Completed'[u] = IF u = t THEN Completed[u] + 1 ELSE Completed[u]
      BY <1>2, <2>1 DEF Completed
    <3> QED
      BY <3>1, <3>2
  <2>3. Started' = Started
    BY <1>2, <1>3, <2>1, <2>2 DEF Started, Completed
  <2>4. Completed[t] < Started[t]
    BY <1>2, <1>3, <2>1 DEF Started
  <2>5. LQ!EnqueueReturn(t)
    BY <1>1, <2>1, <2>2, <2>3, <2>4 DEF LQ!EnqueueReturn, Started
  <2> QED
    BY <2>5 DEF LQ!Next
<1>7. CASE Recheck(t) /\ pc'[t] # "idle"
  <2>1. /\ pc' = [pc EXCEPT ![t] = "raise"] /\ pc[t] = "stored"
        /\ write_head_' = write_head_ /\ before' = before
    BY <1>2, <1>7 DEF Unraised, Recheck, history
  <2>2. Completed' = Completed
    BY <1>2, <2>1 DEF Completed
  <2>3. Started' = Started
    BY <1>2, <1>3, <2>1, <2>2 DEF Started
  <2> QED
    BY <1>1, <2>1, <2>2, <2>3 DEF LQ!vars, Started
<1>8. Raise(t) => pc'[t] = "idle"
  BY <1>2 DEF Raise
<1> QED
  BY <1>4, <1>5, <1>6, <1>7, <1>8 DEF Producer

\* A dequeue returns what the abstract one may return, by MinIsNext and Scan.
LEMMA ConsumerRefines ==
  ASSUME IInv, Consumer
  PROVE  [LQ!Next]_(LQ!vars)
<1> USE DEF IInv
<1>1. Completed' = Completed /\ Started' = Started /\ before' = before
  BY ConsumerFrame DEF Started
<1>2. CASE BeginDequeue
  <2>1. LQ!DequeueCall
    BY <1>1, <1>2 DEF BeginDequeue, LQ!DequeueCall, Started
  <2> QED
    BY <2>1 DEF LQ!Next
<1>3. CASE ScanLane \/ Rescan
  BY <1>1, <1>3 DEF Confirmed, ScanLane, Rescan, ScanOver, history, LQ!vars, Started
<1>4. CASE ReturnEmpty
  <2>1. EmptyMeansEmpty
    BY Indices DEF Scan, EmptyMeansEmpty, ScanOver, TypeOK, ConsumerTypes
  <2>2. LQ!DequeueEmpty
    BY <1>1, <1>4, <2>1 DEF Confirmed, ReturnEmpty, ScanOver, EmptyMeansEmpty, history, LQ!DequeueEmpty, Started
  <2> QED
    BY <2>2 DEF LQ!Next
<1>5. CASE ReturnMin
  <2>1. scanning /\ min_index # -1
    BY <1>5 DEF Confirmed, ReturnMin, ScanOver
  <2>2. min_index \in Threads /\ read_head_[min_index] \in Nat
    BY <2>1, MinToRead
  <2>3. read_head_[min_index] < Started[min_index]
    <3>1. /\ write_head_ \in [Threads -> Nat] /\ read_head_[min_index] < write_head_[min_index]
      BY <2>1, MinToRead, Indices DEF TypeOK, ProducerTypes
    <3>2. Started[min_index] = IF pc[min_index] = "loaded" THEN write_head_[min_index] + 1
                                                          ELSE write_head_[min_index]
      BY <2>2, <3>1 DEF Started, Completed, TypeOK, ProducerTypes
    <3> QED
      BY <2>2, <3>1, <3>2
  <2>4. \A u \in Threads : before[min_index][read_head_[min_index]][u] <= read_head_[u]
    BY <1>5, MinIsNext DEF Confirmed, ReturnMin
  <2>5. LQ!DequeueItem(min_index)
    BY <1>1, <1>5, <2>1, <2>2, <2>3, <2>4 DEF Confirmed, ReturnMin, history, LQ!DequeueItem, Started
  <2> QED
    BY <2>2, <2>5 DEF LQ!Next
<1> QED
  BY <1>2, <1>3, <1>4, <1>5 DEF Consumer

\* spin_mpsc_queue is linearizable: it implements the abstract queue.
THEOREM Refinement == Spec => Linearizable
<1>1. Init => LQ!Init
  <2> SUFFICES ASSUME Init
               PROVE  LQ!Init
    OBVIOUS
  <2>1. Completed = Zero
    BY DEF Init, Completed, Zero
  <2>2. Started = Zero
    BY <2>1 DEF Init, Started, Zero
  <2> QED
    BY <2>1, <2>2 DEF Init, LQ!Init, LQ!Zero, Zero, Started, Slots
<1>2. IInv /\ [Next]_vars => [LQ!Next]_(LQ!vars)
  <2>1. ASSUME UNCHANGED vars
        PROVE  UNCHANGED LQ!vars
    BY <2>1 DEF vars, producerVars, localVars, history, LQ!vars, Completed
  <2> QED
    BY <2>1, ProducerRefines, ConsumerRefines DEF Next
<1> QED
  BY <1>1, <1>2, Invariance, PTL DEF Spec, Linearizable, LQ!Spec
=============================================================================
