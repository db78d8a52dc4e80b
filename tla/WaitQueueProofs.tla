--------------------------- MODULE WaitQueueProofs ---------------------------
(***************************************************************************)
(* Proofs about WaitQueue, for any number of producers and of elements.    *)
(* The inductive invariant has four parts besides the types: what the      *)
(* tickets say about the order of the enqueues, that nothing below         *)
(* lowest_seen_ is left, what the current scan has established, and what   *)
(* sleeping_ tells a producer about the consumer.                          *)
(***************************************************************************)
EXTENDS WaitQueue, TLAPS

\* The nodes up to write_head_ are the published ones.
Published ==
  \A t \in Threads : \A n \in Slots : count_[t][n] # kEmpty <=> n < write_head_[t]

\* The tickets that were drawn are those below up_to_.
Tickets ==
  /\ \A t \in Threads : \A n \in Slots : n < write_head_[t] => count_[t][n] < up_to_
  /\ \A t \in Threads : pc[t] = "drawn" => cur[t] < up_to_

\* No ticket is drawn twice.
Unique ==
  \A t, u \in Threads :
    /\ \A n, m \in Slots :
         n < write_head_[t] /\ m < write_head_[u] /\ count_[t][n] = count_[u][m]
           => t = u /\ n = m
    /\ \A m \in Slots :
         pc[t] = "drawn" /\ m < write_head_[u] => cur[t] # count_[u][m]
    /\ pc[t] = "drawn" /\ pc[u] = "drawn" /\ cur[t] = cur[u] => t = u

\* A producer inside enqueue has a node to write, or has written one.
InCall ==
  \A t \in Threads :
    /\ pc[t] = "drawn" => write_head_[t] < MaxItems
    /\ pc[t] \in {"published", "notify"} => write_head_[t] > 0

\* An element has a larger ticket than all the elements whose enqueue had
\* returned when its ticket was drawn.
Order ==
  \A t, u \in Threads :
    /\ \A n \in Slots : before[t][n][u] <= Completed[u]
    /\ \A n, m \in Slots :
         n < write_head_[t] /\ m < before[t][n][u] => count_[u][m] < count_[t][n]
    /\ \A m \in Slots :
         pc[t] = "drawn" /\ m < before[t][write_head_[t]][u] => count_[u][m] < cur[t]

Lanes == Published /\ Tickets /\ Unique /\ InCall /\ Order

\* min_count is the ticket at the head of lane min_index, and no lane scanned so
\* far has at its head an element that precedes the head of lane prev_index and
\* a ticket below min_count.
Scan ==
  /\ min_index = -1 <=> min_count = kEmpty
  /\ consumer = "scan" /\ min_index # -1 => HeadCount(min_index) = min_count
  /\ consumer = "scan" /\ prev_index \in Threads =>
       /\ HeadCount(prev_index) # kEmpty
       /\ \A u \in Threads :
            u < i /\ read_head_[u] < before[prev_index][read_head_[prev_index]][u]
              => min_index # -1 /\ min_count <= HeadCount(u)

\* sleeping_ is set around the wait, and only there.
Sleeping == sleeping_ <=> (consumer \in {"wait", "asleep", "woken"})

IInv ==
  /\ TypeOK /\ Lanes /\ NothingBelowLowestSeen /\ Scan
  /\ Sleeping /\ NoLostWakeup

-----------------------------------------------------------------------------
\* What the constants say about thread and node indices.
LEMMA Indices ==
  /\ \A t \in Threads : t \in Nat /\ t < NumThreads
  /\ NumThreads \in Nat /\ MaxItems \in Nat /\ 0 \in Slots
  /\ \A n \in Slots : n \in Nat /\ n <= MaxItems
  /\ \A n \in Slots : n < MaxItems => n + 1 \in Slots
  /\ kEmpty \notin Nat /\ -1 \notin Threads /\ -2 \notin Threads
BY SizeAssumption, EmptyAssumption DEF Threads, Slots

\* The part of the types that the lanes are about.
LEMMA Typed ==
  ASSUME TypeOK
  PROVE  ProducerTypes /\ HistoryTypes /\ read_head_ \in [Threads -> Slots]
BY DEF TypeOK, ConsumerTypes

\* The constructor establishes the inductive invariant.
LEMMA InitIInv == Init => IInv
<1> SUFFICES ASSUME Init
             PROVE  IInv
  OBVIOUS
<1> USE Indices DEF Zero, Init
<1>1. ProducerTypes
  BY DEF ProducerTypes
<1>2. ConsumerTypes
  <2>1. read_head_ \in [Threads -> Slots] /\ sleeping_ \in BOOLEAN /\ lowest_seen_ \in Nat
    OBVIOUS
  <2>2. i \in 0..NumThreads /\ min_count \in Nat \cup {kEmpty} /\ consumer = "idle"
    OBVIOUS
  <2>3. min_index \in Threads \cup {-1} /\ prev_index \in Threads \cup {-1, -2}
    OBVIOUS
  <2> QED
    BY <2>1, <2>2, <2>3 DEF ConsumerTypes
<1>3. HistoryTypes
  <2>1. before \in [Threads -> [Slots -> [Threads -> Slots]]]
    OBVIOUS
  <2>2. atCall \in [Threads -> Slots]
    OBVIOUS
  <2> QED
    BY <2>1, <2>2 DEF HistoryTypes
<1>4. \A t \in Threads : read_head_[t] <= write_head_[t]
  OBVIOUS
<1>5. Lanes
  BY DEF Lanes, Published, Tickets, Unique, InCall, Order, Completed
<1>6. NothingBelowLowestSeen
  BY DEF NothingBelowLowestSeen
<1>7. Scan
  BY DEF Scan
<1>8. Sleeping
  BY DEF Sleeping
<1>9. NoLostWakeup
  BY DEF NoLostWakeup
<1> QED
  BY <1>1, <1>2, <1>3, <1>4, <1>5, <1>6, <1>7, <1>8, <1>9 DEF IInv, TypeOK

\* Enqueues return after they have published.
LEMMA CompletedBound ==
  ASSUME ProducerTypes, Lanes, NEW u \in Threads
  PROVE  /\ Completed[u] \in Slots /\ Completed[u] \in Nat /\ write_head_[u] \in Nat
         /\ Completed[u] <= write_head_[u]
<1>1. write_head_[u] \in Slots /\ write_head_[u] \in Nat
  BY Indices DEF ProducerTypes
<1>2. pc[u] \in {"published", "notify"} => write_head_[u] > 0
  BY DEF Lanes, InCall
<1>3. \/ Completed[u] = write_head_[u]
      \/ Completed[u] = write_head_[u] - 1 /\ pc[u] \in {"published", "notify"}
  BY DEF Completed
<1> QED
  BY <1>1, <1>2, <1>3, SizeAssumption DEF Slots

\* The enqueues of a thread that have returned are at most MaxItems.
LEMMA CompletedType ==
  ASSUME ProducerTypes, Lanes
  PROVE  Completed \in [Threads -> Slots]
<1>1. Completed = [t \in Threads |-> Completed[t]]
  BY DEF Completed
<1> QED
  BY <1>1, CompletedBound

\* Completed changes only when an enqueue returns.
LEMMA CompletedStep ==
  ASSUME ProducerTypes, Lanes, NEW t \in Threads, Producer(t), NEW u \in Threads
  PROVE  \/ Completed'[u] = Completed[u]
         \/ u = t /\ (LoadSleeping(t) \/ Notify(t)) /\ pc'[t] = "idle"
            /\ Completed'[t] = write_head_[t] /\ Completed[t] = write_head_[t] - 1
<1>0. /\ write_head_ \in [Threads -> Nat]
      /\ pc \in [Threads -> {"idle", "drawn", "published", "notify"}]
  BY Indices DEF ProducerTypes
<1>1. CASE DrawTicket(t)
  BY <1>0, <1>1 DEF DrawTicket, Completed
<1>2. CASE Publish(t)
  BY <1>0, <1>2 DEF Publish, Completed
<1>3. CASE LoadSleeping(t)
  BY <1>0, <1>3 DEF LoadSleeping, Completed
<1>4. CASE Notify(t)
  BY <1>0, <1>4 DEF Notify, Completed
<1> QED
  BY <1>1, <1>2, <1>3, <1>4 DEF Producer

\* enqueue leaves the scan alone, takes back no publication nor what was noted
\* about one, and Completed only grows.
LEMMA ProducerFrame ==
  ASSUME ProducerTypes, HistoryTypes, Lanes, NEW t \in Threads, Producer(t)
  PROVE  /\ UNCHANGED <<read_head_, lowest_seen_, i, min_count, min_index, prev_index>>
         /\ UNCHANGED <<sleeping_, atCall>>
         /\ consumer' = IF Notify(t) THEN Notified ELSE consumer
         /\ \A u \in Threads : Completed[u] <= Completed'[u]
         /\ \A u \in Threads : write_head_[u] <= write_head_'[u]
         /\ \A u \in Threads : \A n \in Slots :
               count_[u][n] # kEmpty => count_'[u][n] = count_[u][n]
         /\ \A u \in Threads : \A n \in Slots :
               n < write_head_[u] => before'[u][n] = before[u][n]
<1> USE DEF consumerVars, scanVars
<1>0. /\ write_head_ \in [Threads -> Nat]
      /\ count_ \in [Threads -> [Slots -> Nat \cup {kEmpty}]]
      /\ before \in [Threads -> [Slots -> [Threads -> Slots]]]
  BY Indices DEF ProducerTypes, HistoryTypes
<1>1. /\ UNCHANGED <<read_head_, lowest_seen_, i, min_count, min_index, prev_index>>
      /\ UNCHANGED <<sleeping_, atCall>>
      /\ consumer' = IF Notify(t) THEN Notified ELSE consumer
  BY DEF Producer, DrawTicket, Publish, LoadSleeping, Notify
<1>2. ASSUME NEW u \in Threads
      PROVE  Completed[u] <= Completed'[u]
  BY CompletedBound, CompletedStep
<1>3. ASSUME NEW u \in Threads
      PROVE  write_head_[u] <= write_head_'[u]
  <2>1. write_head_'[u] = write_head_[u] \/ write_head_'[u] = write_head_[u] + 1
    BY <1>0 DEF Producer, DrawTicket, Publish, LoadSleeping, Notify
  <2> QED
    BY <1>0, <2>1
<1>4. ASSUME NEW u \in Threads, NEW n \in Slots, count_[u][n] # kEmpty
      PROVE  count_'[u][n] = count_[u][n]
  <2>1. n < write_head_[u]
    BY <1>4 DEF Lanes, Published
  <2>2. CASE Publish(t)
    BY <1>0, <2>1, <2>2 DEF Publish
  <2> QED
    BY <2>2 DEF Producer, DrawTicket, LoadSleeping, Notify
<1>5. ASSUME NEW u \in Threads, NEW n \in Slots, n < write_head_[u]
      PROVE  before'[u][n] = before[u][n]
  <2>1. CASE DrawTicket(t)
    BY <1>0, <1>5, <2>1 DEF DrawTicket
  <2> QED
    BY <2>1 DEF Producer, Publish, LoadSleeping, Notify
<1> QED
  BY <1>1, <1>2, <1>3, <1>4, <1>5

\* No step of enqueue breaks the types of what it changes.
LEMMA ProducerKeepsLaneTypes ==
  ASSUME ProducerTypes, HistoryTypes, Lanes, NEW t \in Threads, Producer(t)
  PROVE  ProducerTypes' /\ HistoryTypes'
<1>1. ProducerTypes'
  <2> USE Indices DEF ProducerTypes
  <2>1. CASE DrawTicket(t)
    BY <2>1 DEF DrawTicket
  <2>2. CASE Publish(t)
    BY <2>2 DEF Publish, Lanes, InCall
  <2>3. CASE LoadSleeping(t)
    BY <2>3 DEF LoadSleeping
  <2>4. CASE Notify(t)
    BY <2>4 DEF Notify
  <2> QED
    BY <2>1, <2>2, <2>3, <2>4 DEF Producer
<1>2. before' \in [Threads -> [Slots -> [Threads -> Slots]]]
  <2>1. before \in [Threads -> [Slots -> [Threads -> Slots]]] /\ write_head_[t] \in Slots
    BY DEF HistoryTypes, ProducerTypes
  <2>2. CASE DrawTicket(t)
    <3>1. Completed \in [Threads -> Slots]
      BY CompletedType
    <3> DEFINE row == [before[t] EXCEPT ![write_head_[t]] = Completed]
    <3>2. row \in [Slots -> [Threads -> Slots]]
      BY <2>1, <3>1
    <3>3. before' = [before EXCEPT ![t] = row]
      BY <2>2 DEF DrawTicket
    <3> HIDE DEF row
    <3> QED
      BY <2>1, <3>2, <3>3
  <2> QED
    BY <2>1, <2>2 DEF Producer, Publish, LoadSleeping, Notify
<1>3. atCall' \in [Threads -> Slots]
  BY ProducerFrame DEF HistoryTypes
<1> QED
  BY <1>1, <1>2, <1>3 DEF HistoryTypes

\* No step of enqueue breaks the types.
LEMMA ProducerKeepsTypes ==
  ASSUME TypeOK, Lanes, NEW t \in Threads, Producer(t)
  PROVE  TypeOK'
<1>1. ProducerTypes' /\ HistoryTypes'
  BY Typed, ProducerKeepsLaneTypes
<1>2. ConsumerTypes'
  BY Typed, ProducerFrame DEF TypeOK, ConsumerTypes, Notified
<1>3. \A u \in Threads : read_head_'[u] <= write_head_'[u]
  <2>1. /\ write_head_ \in [Threads -> Nat] /\ write_head_' \in [Threads -> Nat]
        /\ read_head_ \in [Threads -> Nat]
    BY <1>1, Indices DEF TypeOK, ProducerTypes, ConsumerTypes
  <2> QED
    BY <2>1, Typed, ProducerFrame DEF TypeOK
<1> QED
  BY <1>1, <1>2, <1>3 DEF TypeOK

\* enqueue publishes the node at write_head_, and no other, with its ticket.
LEMMA ProducerWrites ==
  ASSUME ProducerTypes, HistoryTypes, Lanes, NEW t \in Threads, Producer(t), NEW u \in Threads, NEW n \in Slots
  PROVE  \/ /\ Publish(t) /\ u = t /\ n = write_head_[t] /\ pc[t] = "drawn"
            /\ count_'[u][n] = cur[t] /\ n < write_head_'[u] /\ ~(n < write_head_[u])
         \/ count_'[u][n] = count_[u][n] /\ (n < write_head_'[u] <=> n < write_head_[u])
<1>0. /\ write_head_ \in [Threads -> Slots] /\ cur \in [Threads -> Nat]
      /\ count_ \in [Threads -> [Slots -> Nat \cup {kEmpty}]]
      /\ n \in Nat /\ write_head_[t] \in Nat
  BY Indices DEF ProducerTypes
<1>1. CASE Publish(t) /\ u = t
  <2>1. write_head_'[t] = write_head_[t] + 1
    BY <1>0, <1>1 DEF Publish
  <2>2. CASE n = write_head_[t]
    BY <1>0, <1>1, <2>1, <2>2 DEF Publish
  <2>3. CASE n # write_head_[t]
    <3>1. count_'[u][n] = count_[u][n]
      BY <1>0, <1>1, <2>3 DEF Publish
    <3> QED
      BY <1>0, <1>1, <2>1, <2>3, <3>1
  <2> QED
    BY <2>2, <2>3
<1>2. CASE Publish(t) /\ u # t
  BY <1>0, <1>2 DEF Publish
<1>3. CASE ~Publish(t)
  BY <1>3 DEF Producer, DrawTicket, LoadSleeping, Notify
<1> QED
  BY <1>1, <1>2, <1>3

\* A producer that holds a ticket drew it in this step or held it before.
LEMMA ProducerDraws ==
  ASSUME ProducerTypes, HistoryTypes, NEW t \in Threads, Producer(t), NEW u \in Threads, pc'[u] = "drawn"
  PROVE  /\ write_head_'[u] = write_head_[u]
         /\ \/ /\ DrawTicket(t) /\ u = t /\ cur'[u] = up_to_ /\ up_to_' = up_to_ + 1
               /\ count_' = count_ /\ write_head_' = write_head_
               /\ before'[u][write_head_[u]] = Completed
            \/ ~(DrawTicket(t) /\ u = t) /\ pc[u] = "drawn" /\ cur'[u] = cur[u]
               /\ before'[u] = before[u]
<1>0. /\ write_head_ \in [Threads -> Slots] /\ cur \in [Threads -> Nat]
      /\ pc \in [Threads -> {"idle", "drawn", "published", "notify"}]
      /\ before \in [Threads -> [Slots -> [Threads -> Slots]]]
  BY DEF ProducerTypes, HistoryTypes
<1>1. CASE DrawTicket(t)
  BY <1>0, <1>1 DEF DrawTicket
<1>2. CASE Publish(t)
  BY <1>0, <1>2 DEF Publish, DrawTicket
<1>3. CASE LoadSleeping(t)
  BY <1>0, <1>3 DEF LoadSleeping, DrawTicket
<1>4. CASE Notify(t)
  BY <1>0, <1>4 DEF Notify, DrawTicket
<1> QED
  BY <1>1, <1>2, <1>3, <1>4 DEF Producer

\* enqueue publishes the node at write_head_, and no other.
LEMMA ProducerKeepsPublished ==
  ASSUME ProducerTypes, HistoryTypes, Lanes, NEW t \in Threads, Producer(t)
  PROVE  Published'
<1> SUFFICES ASSUME NEW u \in Threads, NEW n \in Slots
             PROVE  count_'[u][n] # kEmpty <=> n < write_head_'[u]
  BY DEF Published
<1>1. cur[t] # kEmpty
  BY EmptyAssumption DEF ProducerTypes
<1> QED
  BY <1>1, ProducerWrites DEF Lanes, Published

\* The ticket counter is past every ticket that was drawn.
LEMMA ProducerKeepsTickets ==
  ASSUME ProducerTypes, HistoryTypes, Lanes, NEW t \in Threads, Producer(t)
  PROVE  Tickets' /\ up_to_ <= up_to_' /\ up_to_' \in Nat
<1>0. /\ up_to_ \in Nat /\ cur \in [Threads -> Nat]
      /\ count_ \in [Threads -> [Slots -> Nat \cup {kEmpty}]]
  BY DEF ProducerTypes
<1>1. up_to_' \in Nat /\ up_to_ <= up_to_'
  BY <1>0 DEF Producer, DrawTicket, Publish, LoadSleeping, Notify
<1>2. ASSUME NEW u \in Threads, NEW n \in Slots, n < write_head_'[u]
      PROVE  count_'[u][n] < up_to_'
  <2>1. CASE pc[t] = "drawn" /\ count_'[u][n] = cur[t]
    BY <1>0, <1>1, <2>1 DEF Lanes, Tickets
  <2>2. CASE count_'[u][n] = count_[u][n] /\ n < write_head_[u]
    <3>1. count_[u][n] < up_to_ /\ count_[u][n] \in Nat
      BY <1>0, <2>2 DEF Lanes, Tickets, Published
    <3> QED
      BY Typed, <1>0, <1>1, <2>2, <3>1
  <2> QED
    BY <1>2, <2>1, <2>2, ProducerWrites
<1>3. ASSUME NEW u \in Threads, pc'[u] = "drawn"
      PROVE  cur'[u] < up_to_'
  <2>1. CASE cur'[u] = up_to_ /\ up_to_' = up_to_ + 1
    BY <1>0, <2>1
  <2>2. CASE pc[u] = "drawn" /\ cur'[u] = cur[u]
    BY <1>0, <1>1, <2>2 DEF Lanes, Tickets
  <2> QED
    BY <1>3, <2>1, <2>2, ProducerDraws
<1> QED
  BY Typed, <1>1, <1>2, <1>3 DEF Tickets

\* fetch_add hands out a ticket once.
LEMMA ProducerKeepsUnique ==
  ASSUME ProducerTypes, HistoryTypes, Lanes, NEW t \in Threads, Producer(t)
  PROVE  Unique'
<1>0. /\ up_to_ \in Nat /\ cur \in [Threads -> Nat]
      /\ count_ \in [Threads -> [Slots -> Nat \cup {kEmpty}]]
      /\ pc \in [Threads -> {"idle", "drawn", "published", "notify"}]
  BY DEF ProducerTypes
<1> SUFFICES ASSUME NEW a \in Threads, NEW b \in Threads
             PROVE  /\ \A n, m \in Slots :
                         /\ n < write_head_'[a] /\ m < write_head_'[b]
                         /\ count_'[a][n] = count_'[b][m]
                         => a = b /\ n = m
                    /\ \A m \in Slots :
                         pc'[a] = "drawn" /\ m < write_head_'[b] => cur'[a] # count_'[b][m]
                    /\ pc'[a] = "drawn" /\ pc'[b] = "drawn" /\ cur'[a] = cur'[b] => a = b
  BY DEF Unique
<1>1. ASSUME NEW n \in Slots, NEW m \in Slots,
             n < write_head_'[a], m < write_head_'[b], count_'[a][n] = count_'[b][m]
      PROVE  a = b /\ n = m
  <2>1. \/ a = t /\ n = write_head_[t] /\ pc[t] = "drawn" /\ count_'[a][n] = cur[t]
        \/ count_'[a][n] = count_[a][n] /\ n < write_head_[a]
    BY <1>1, ProducerWrites
  <2>2. \/ b = t /\ m = write_head_[t] /\ pc[t] = "drawn" /\ count_'[b][m] = cur[t]
        \/ count_'[b][m] = count_[b][m] /\ m < write_head_[b]
    BY <1>1, ProducerWrites
  <2> QED
    BY <1>1, <2>1, <2>2 DEF Lanes, Unique
<1>2. ASSUME NEW m \in Slots, pc'[a] = "drawn", m < write_head_'[b]
      PROVE  cur'[a] # count_'[b][m]
  <2>1. CASE DrawTicket(t) /\ a = t /\ cur'[a] = up_to_ /\ count_' = count_ /\ write_head_' = write_head_
    <3>1. count_[b][m] < up_to_ /\ count_[b][m] \in Nat
      BY <1>0, <1>2, <2>1 DEF Lanes, Tickets, Published
    <3> QED
      BY <1>0, <2>1, <3>1
  <2>2. CASE pc[a] = "drawn" /\ cur'[a] = cur[a]
    <3>1. CASE Publish(t) /\ b = t /\ m = write_head_[t] /\ pc[t] = "drawn" /\ count_'[b][m] = cur[t]
      <4>1. a # t
        BY <1>0, <1>2, <3>1 DEF Publish
      <4> QED
        BY <2>2, <3>1, <4>1 DEF Lanes, Unique
    <3>2. CASE count_'[b][m] = count_[b][m] /\ m < write_head_[b]
      BY <2>2, <3>2 DEF Lanes, Unique
    <3> QED
      BY <1>2, <3>1, <3>2, ProducerWrites
  <2> QED
    BY <1>2, <2>1, <2>2, ProducerDraws
<1>3. ASSUME pc'[a] = "drawn", pc'[b] = "drawn", cur'[a] = cur'[b]
      PROVE  a = b
  <2>1. /\ \/ a = t /\ cur'[a] = up_to_
           \/ pc[a] = "drawn" /\ cur'[a] = cur[a]
        /\ \/ b = t /\ cur'[b] = up_to_
           \/ pc[b] = "drawn" /\ cur'[b] = cur[b]
    BY <1>3, ProducerDraws
  <2>2. \A u \in Threads : pc[u] = "drawn" => cur[u] # up_to_
    BY <1>0 DEF Lanes, Tickets
  <2> QED
    BY <1>3, <2>1, <2>2 DEF Lanes, Unique
<1> QED
  BY <1>1, <1>2, <1>3

\* A producer holds a ticket only while it has a node to write.
LEMMA ProducerKeepsInCall ==
  ASSUME ProducerTypes, HistoryTypes, Lanes, NEW t \in Threads, Producer(t)
  PROVE  InCall'
<1>0. /\ write_head_ \in [Threads -> Nat] /\ MaxItems \in Nat
      /\ pc \in [Threads -> {"idle", "drawn", "published", "notify"}]
  BY Indices DEF ProducerTypes
<1> SUFFICES ASSUME NEW u \in Threads
             PROVE  /\ pc'[u] = "drawn" => write_head_'[u] < MaxItems
                    /\ pc'[u] \in {"published", "notify"} => write_head_'[u] > 0
  BY DEF InCall
<1>1. /\ pc[u] = "drawn" => write_head_[u] < MaxItems
      /\ pc[u] \in {"published", "notify"} => write_head_[u] > 0
  BY DEF Lanes, InCall
<1>2. CASE DrawTicket(t)
  BY <1>0, <1>1, <1>2 DEF DrawTicket
<1>3. CASE Publish(t)
  BY <1>0, <1>1, <1>3 DEF Publish
<1>4. CASE LoadSleeping(t)
  BY <1>0, <1>1, <1>4 DEF LoadSleeping
<1>5. CASE Notify(t)
  BY <1>0, <1>1, <1>5 DEF Notify
<1> QED
  BY <1>2, <1>3, <1>4, <1>5 DEF Producer

\* A ticket is drawn above those of all the enqueues that have returned.
LEMMA ProducerKeepsOrder ==
  ASSUME ProducerTypes, HistoryTypes, Lanes, NEW t \in Threads, Producer(t)
  PROVE  Order'
<1>0. /\ write_head_ \in [Threads -> Slots] /\ cur \in [Threads -> Nat]
      /\ count_ \in [Threads -> [Slots -> Nat \cup {kEmpty}]]
      /\ before \in [Threads -> [Slots -> [Threads -> Slots]]]
      /\ ProducerTypes
  BY DEF ProducerTypes, HistoryTypes
<1> SUFFICES ASSUME NEW a \in Threads, NEW b \in Threads
             PROVE  /\ \A n \in Slots : before'[a][n][b] <= Completed'[b]
                    /\ \A n, m \in Slots :
                         n < write_head_'[a] /\ m < before'[a][n][b] => count_'[b][m] < count_'[a][n]
                    /\ \A m \in Slots :
                         pc'[a] = "drawn" /\ m < before'[a][write_head_'[a]][b]
                           => count_'[b][m] < cur'[a]
  BY DEF Order
<1>1. /\ Completed[b] \in Nat /\ Completed'[b] \in Nat /\ Completed[b] <= Completed'[b]
      /\ write_head_[b] \in Nat /\ Completed[b] <= write_head_[b]
  BY <1>0, CompletedBound, CompletedStep, ProducerFrame
\* What was known about lane b is kept.
<1>2. ASSUME NEW n \in Slots, NEW m \in Slots, m < before[a][n][b]
      PROVE  count_'[b][m] = count_[b][m]
  <2>1. before[a][n][b] \in Nat /\ m \in Nat /\ before[a][n][b] <= Completed[b]
    BY <1>0, Indices DEF Lanes, Order
  <2>2. m < write_head_[b]
    BY <1>1, <1>2, <2>1
  <2> QED
    BY <2>2, ProducerFrame DEF Lanes, Published
<1>3. ASSUME NEW n \in Slots
      PROVE  before'[a][n][b] <= Completed'[b]
  <2>1. CASE DrawTicket(t) /\ a = t /\ n = write_head_[t]
    BY <1>0, <1>1, <2>1 DEF DrawTicket
  <2>2. CASE ~(DrawTicket(t) /\ a = t /\ n = write_head_[t])
    <3>1. before'[a][n] = before[a][n]
      <4>1. CASE DrawTicket(t)
        <5>1. before[t] \in [Slots -> [Threads -> Slots]]
          BY <1>0
        <5> QED
          BY <1>0, <2>2, <4>1, <5>1 DEF DrawTicket
      <4> QED
        BY <4>1 DEF Producer, Publish, LoadSleeping, Notify
    <3>2. before[a][n][b] <= Completed[b] /\ before[a][n][b] \in Nat
      BY <1>0, Indices DEF Lanes, Order
    <3> QED
      BY <1>1, <3>1, <3>2
  <2> QED
    BY <2>1, <2>2
<1>4. ASSUME NEW n \in Slots, NEW m \in Slots, n < write_head_'[a], m < before'[a][n][b]
      PROVE  count_'[b][m] < count_'[a][n]
  <2>1. CASE Publish(t) /\ a = t /\ n = write_head_[t] /\ pc[t] = "drawn" /\ count_'[a][n] = cur[t]
    <3>1. before' = before
      BY <2>1 DEF Publish
    <3> QED
      BY <1>2, <1>4, <2>1, <3>1 DEF Lanes, Order
  <2>2. CASE count_'[a][n] = count_[a][n] /\ n < write_head_[a]
    <3>1. before'[a][n] = before[a][n]
      BY <2>2, ProducerFrame
    <3> QED
      BY <1>2, <1>4, <2>2, <3>1 DEF Lanes, Order
  <2> QED
    BY <1>4, <2>1, <2>2, ProducerWrites
<1>5. ASSUME NEW m \in Slots, pc'[a] = "drawn", m < before'[a][write_head_'[a]][b]
      PROVE  count_'[b][m] < cur'[a]
  <2>1. CASE cur'[a] = up_to_ /\ count_' = count_ /\ before'[a][write_head_[a]] = Completed
    <3>1. m < write_head_[b]
      BY <1>1, <1>5, <2>1, ProducerDraws, Indices
    <3> QED
      BY <2>1, <3>1 DEF Lanes, Tickets
  <2>2. CASE pc[a] = "drawn" /\ cur'[a] = cur[a] /\ before'[a] = before[a]
    <3>1. m < before[a][write_head_[a]][b]
      BY <1>5, <2>2, ProducerDraws
    <3> QED
      BY <1>0, <1>2, <2>2, <3>1 DEF Lanes, Order
  <2> QED
    BY <1>5, <2>1, <2>2, ProducerDraws
<1> QED
  BY <1>3, <1>4, <1>5

\* What the tickets say survives enqueue.
LEMMA ProducerKeepsLanes ==
  ASSUME ProducerTypes, HistoryTypes, Lanes, NEW t \in Threads, Producer(t)
  PROVE  Lanes'
BY ProducerKeepsPublished, ProducerKeepsTickets, ProducerKeepsUnique, ProducerKeepsInCall,
   ProducerKeepsOrder DEF Lanes

\* The counter hands out no ticket below lowest_seen_.
LEMMA ProducerKeepsNothingBelow ==
  ASSUME TypeOK, Lanes, NothingBelowLowestSeen, NEW t \in Threads, Producer(t)
  PROVE  NothingBelowLowestSeen'
<1>0. /\ lowest_seen_ \in Nat /\ up_to_ \in Nat /\ up_to_' \in Nat
      /\ lowest_seen_ <= up_to_ /\ up_to_ <= up_to_'
      /\ lowest_seen_' = lowest_seen_ /\ read_head_' = read_head_
  BY ProducerKeepsTickets, ProducerFrame
     DEF TypeOK, ProducerTypes, ConsumerTypes, NothingBelowLowestSeen
<1>1. ASSUME NEW u \in Threads, pc'[u] = "drawn"
      PROVE  lowest_seen_ <= cur'[u]
  BY Typed, <1>0, <1>1, ProducerDraws DEF NothingBelowLowestSeen
<1>2. ASSUME NEW u \in Threads, NEW n \in read_head_[u]..(write_head_'[u] - 1)
      PROVE  lowest_seen_ <= count_'[u][n]
  <2>1. /\ read_head_[u] \in Nat /\ write_head_[u] \in Nat
        /\ write_head_'[u] \in Nat /\ write_head_'[u] <= MaxItems /\ MaxItems \in Nat
    BY ProducerKeepsTypes, Indices DEF TypeOK, ProducerTypes, ConsumerTypes
  <2>2. n \in Slots /\ n < write_head_'[u]
    BY <2>1 DEF Slots
  <2>3. CASE pc[t] = "drawn" /\ count_'[u][n] = cur[t]
    BY <2>3 DEF NothingBelowLowestSeen
  <2>4. CASE count_'[u][n] = count_[u][n] /\ n < write_head_[u]
    BY <2>1, <2>4 DEF NothingBelowLowestSeen
  <2> QED
    BY Typed, <2>2, <2>3, <2>4, ProducerWrites
<1> QED
  BY <1>0, <1>1, <1>2 DEF NothingBelowLowestSeen

\* A published head of a lane stays as it is until it is read.
LEMMA HeadKept ==
  ASSUME ProducerTypes, HistoryTypes, read_head_ \in [Threads -> Slots], Lanes, NEW t \in Threads, Producer(t),
         NEW u \in Threads, HeadCount(u) # kEmpty
  PROVE  /\ HeadCount(u)' = HeadCount(u)
         /\ before'[u][read_head_[u]] = before[u][read_head_[u]]
<1>1. read_head_[u] \in Slots /\ read_head_' = read_head_
  BY ProducerFrame
<1>2. read_head_[u] < write_head_[u]
  BY <1>1 DEF Lanes, Published, HeadCount
<1> QED
  BY <1>1, <1>2, ProducerFrame DEF HeadCount

\* A head is published iff its lane has an element that was not read.
LEMMA HeadPublished ==
  ASSUME ProducerTypes, HistoryTypes, read_head_ \in [Threads -> Slots], Lanes, NEW u \in Threads
  PROVE  /\ HeadCount(u) # kEmpty <=> read_head_[u] < write_head_[u]
         /\ HeadCount(u) \in Nat \cup {kEmpty}
         /\ read_head_[u] \in Slots /\ read_head_[u] \in Nat /\ write_head_[u] \in Nat
BY Indices DEF ProducerTypes, Lanes, Published, HeadCount

\* A published head is not below lowest_seen_.
LEMMA HeadNotBelow ==
  ASSUME TypeOK, Lanes, NothingBelowLowestSeen, NEW u \in Threads, HeadCount(u) # kEmpty
  PROVE  HeadCount(u) \in Nat /\ lowest_seen_ <= HeadCount(u)
<1>1. /\ HeadCount(u) \in Nat /\ read_head_[u] < write_head_[u]
      /\ read_head_[u] \in Nat /\ write_head_[u] \in Nat
  BY Typed, HeadPublished
<1>2. read_head_[u] \in read_head_[u]..(write_head_[u] - 1)
  BY <1>1
<1> QED
  BY <1>1, <1>2 DEF NothingBelowLowestSeen, HeadCount

\* What precedes the head of lane t in lane u is published.
LEMMA PrecedingPublished ==
  ASSUME ProducerTypes, HistoryTypes, read_head_ \in [Threads -> Slots], Lanes, NEW t \in Threads, NEW u \in Threads,
         read_head_[u] < before[t][read_head_[t]][u]
  PROVE  HeadCount(u) # kEmpty
<1>1. before[t][read_head_[t]][u] <= Completed[u] /\ before[t][read_head_[t]][u] \in Nat
  <2>1. before[t][read_head_[t]] \in [Threads -> Slots]
    BY HeadPublished DEF HistoryTypes
  <2> QED
    BY <2>1, HeadPublished, Indices DEF Lanes, Order
<1>2. Completed[u] <= write_head_[u] /\ Completed[u] \in Nat
  BY CompletedBound
<1> QED
  BY <1>1, <1>2, HeadPublished

\* What the current scan has established survives enqueue.
LEMMA ProducerKeepsScan ==
  ASSUME TypeOK, Lanes, Scan, NEW t \in Threads, Producer(t)
  PROVE  Scan'
<1>1. UNCHANGED <<read_head_, i, min_count, min_index, prev_index>>
  BY Typed, ProducerFrame
<1>2. consumer' = "scan" => consumer = "scan"
  BY Typed, ProducerFrame DEF Notified
<1>3. min_index' = -1 <=> min_count' = kEmpty
  BY <1>1 DEF Scan
<1>4. ASSUME consumer' = "scan", min_index' # -1
      PROVE  HeadCount(min_index)' = min_count'
  <2>1. min_index \in Threads /\ min_count # kEmpty /\ HeadCount(min_index) = min_count
    BY <1>1, <1>2, <1>4 DEF Scan, TypeOK, ConsumerTypes
  <2>2. HeadCount(min_index)' = HeadCount(min_index)
    BY Typed, <1>1, <2>1, HeadKept DEF HeadCount
  <2> QED
    BY <1>1, <2>1, <2>2
<1>5. ASSUME consumer' = "scan", prev_index' \in Threads
      PROVE  /\ HeadCount(prev_index)' # kEmpty
             /\ \A u \in Threads :
                  u < i' /\ read_head_'[u] < before'[prev_index'][read_head_'[prev_index']][u]
                    => min_index' # -1 /\ min_count' <= HeadCount(u)'
  <2>1. HeadCount(prev_index) # kEmpty /\ prev_index \in Threads /\ consumer = "scan"
    BY <1>1, <1>2, <1>5 DEF Scan
  <2>2. /\ HeadCount(prev_index)' = HeadCount(prev_index)
        /\ before'[prev_index][read_head_[prev_index]] = before[prev_index][read_head_[prev_index]]
    BY Typed, <1>1, <2>1, HeadKept DEF HeadCount
  <2>3. ASSUME NEW u \in Threads, u < i, read_head_[u] < before[prev_index][read_head_[prev_index]][u]
        PROVE  min_index # -1 /\ min_count <= HeadCount(u)'
    <3>1. HeadCount(u) # kEmpty
      BY Typed, <2>1, <2>3, PrecedingPublished
    <3>2. HeadCount(u)' = HeadCount(u)
      BY Typed, <3>1, HeadKept
    <3> QED
      BY <2>1, <2>3, <3>2 DEF Scan
  <2> QED
    BY <1>1, <2>1, <2>2, <2>3
<1> QED
  BY <1>3, <1>4, <1>5 DEF Scan

\* A producer that publishes while the consumer is blocked will find sleeping_
\* set, and the one that found it set will notify.
LEMMA ProducerKeepsNoLostWakeup ==
  ASSUME ProducerTypes, HistoryTypes, Lanes, Sleeping, NoLostWakeup, NEW t \in Threads, Producer(t)
  PROVE  Sleeping' /\ NoLostWakeup'
<1>0. /\ pc \in [Threads -> {"idle", "drawn", "published", "notify"}]
      /\ UNCHANGED <<read_head_, sleeping_>>
      /\ consumer' = IF Notify(t) THEN Notified ELSE consumer
  BY ProducerFrame DEF ProducerTypes
<1>1. Sleeping'
  BY <1>0 DEF Sleeping, Notified
<1> SUFFICES ASSUME consumer' = "asleep", NEW u \in Threads, read_head_'[u] < write_head_'[u]
             PROVE  \E v \in Threads : (pc'[v] = "published" /\ sleeping_') \/ pc'[v] = "notify"
  BY <1>1 DEF NoLostWakeup
<1>2. consumer = "asleep" /\ sleeping_ /\ ~Notify(t)
  BY <1>0 DEF Sleeping, Notified
<1>3. CASE Publish(t)
  BY <1>0, <1>2, <1>3 DEF Publish
<1>4. CASE LoadSleeping(t)
  BY <1>0, <1>2, <1>4 DEF LoadSleeping
<1>5. CASE DrawTicket(t)
  <2>1. PICK v \in Threads : (pc[v] = "published" /\ sleeping_) \/ pc[v] = "notify"
    BY <1>0, <1>2, <1>5 DEF DrawTicket, NoLostWakeup
  <2>2. v # t /\ pc'[v] = pc[v]
    BY <1>0, <1>5, <2>1 DEF DrawTicket
  <2> QED
    BY <1>0, <2>1, <2>2
<1> QED
  BY <1>2, <1>3, <1>4, <1>5 DEF Producer

-----------------------------------------------------------------------------
(* The consumer. *)

\* The consumer leaves the producers alone, and only ReturnMin reads a node.
LEMMA ConsumerFrame ==
  ASSUME Consumer \/ SpuriousWake
  PROVE  /\ UNCHANGED <<up_to_, count_, write_head_, pc, cur, before>>
         /\ Completed' = Completed
         /\ ~ReturnMin => read_head_' = read_head_ /\ lowest_seen_' = lowest_seen_
<1>1. UNCHANGED <<up_to_, count_, write_head_, pc, cur, before>>
  BY DEF Consumer, BeginDequeue, ScanLane, Rescan, ReturnMin, CheckUpTo, Announce, Wait, Resume,
     SpuriousWake, producerVars
<1>2. ~ReturnMin => read_head_' = read_head_ /\ lowest_seen_' = lowest_seen_
  BY DEF Consumer, BeginDequeue, ScanLane, Rescan, CheckUpTo, Announce, Wait, Resume, SpuriousWake
<1> QED
  BY <1>1, <1>2 DEF Completed

\* dequeue changes nothing in the lanes.
LEMMA ConsumerKeepsLanes ==
  ASSUME Lanes, Consumer \/ SpuriousWake
  PROVE  Lanes'
BY ConsumerFrame DEF Lanes, Published, Tickets, Unique, InCall, Order

\* The lane whose scan ended on it has an element to read.
LEMMA MinToRead ==
  ASSUME TypeOK, Lanes, Scan, consumer = "scan", min_index # -1
  PROVE  /\ min_index \in Threads /\ min_count \in Nat
         /\ HeadCount(min_index) = min_count
         /\ read_head_[min_index] < write_head_[min_index]
         /\ read_head_[min_index] \in Nat /\ read_head_[min_index] + 1 \in Slots
<1>1. min_index \in Threads /\ min_count \in Nat /\ HeadCount(min_index) = min_count
  BY DEF Scan, TypeOK, ConsumerTypes
<1>2. read_head_[min_index] < write_head_[min_index] /\ read_head_[min_index] \in Slots
  BY Typed, <1>1, HeadPublished, EmptyAssumption
<1>3. write_head_[min_index] \in Slots
  BY <1>1 DEF TypeOK, ProducerTypes
<1> QED
  BY <1>1, <1>2, <1>3, Indices

\* What one turn of the for loop does with the head of lane i.
LEMMA ScanLaneStep ==
  ASSUME TypeOK, Lanes, ScanLane
  PROVE  /\ consumer = "scan" /\ consumer' = "scan"
         /\ i \in Threads /\ i \in Nat /\ i' \in 0..NumThreads
         /\ UNCHANGED <<read_head_, lowest_seen_, sleeping_, atCall>>
         /\ \/ /\ HeadCount(i) \in Nat /\ (min_count = kEmpty \/ HeadCount(i) < min_count)
               /\ HeadCount(i) = lowest_seen_
               /\ min_count' = HeadCount(i) /\ min_index' = i
               /\ prev_index' = i /\ i' = NumThreads
            \/ /\ HeadCount(i) \in Nat /\ (min_count = kEmpty \/ HeadCount(i) < min_count)
               /\ min_count' = HeadCount(i) /\ min_index' = i
               /\ prev_index' = prev_index /\ i' = i + 1
            \/ /\ HeadCount(i) = kEmpty \/ (min_count # kEmpty /\ min_count <= HeadCount(i))
               /\ min_count' = min_count /\ min_index' = min_index
               /\ prev_index' = prev_index /\ i' = i + 1
<1>1. /\ consumer = "scan" /\ consumer' = consumer /\ i < NumThreads
      /\ UNCHANGED <<read_head_, lowest_seen_, sleeping_, atCall>>
      /\ Inspect(HeadCount(i), i + 1)
  BY DEF ScanLane
<1>2. i \in Threads /\ i \in Nat /\ i + 1 \in 0..NumThreads /\ NumThreads \in 0..NumThreads
  BY <1>1, Indices DEF TypeOK, ConsumerTypes, Threads
<1>3. HeadCount(i) \in Nat \cup {kEmpty} /\ min_count \in Nat \cup {kEmpty} /\ kEmpty \notin Nat
  BY <1>2, HeadPublished, EmptyAssumption DEF TypeOK, ConsumerTypes
<1>4. CASE Earlier(HeadCount(i), min_count)
  BY <1>1, <1>2, <1>3, <1>4 DEF Inspect, Earlier
<1>5. CASE ~Earlier(HeadCount(i), min_count)
  <2>1. /\ i' = i + 1 /\ min_count' = min_count /\ min_index' = min_index
        /\ prev_index' = prev_index
    BY <1>1, <1>5 DEF Inspect
  <2>2. HeadCount(i) = kEmpty \/ (min_count # kEmpty /\ min_count <= HeadCount(i))
    BY <1>3, <1>5 DEF Earlier
  <2> QED
    BY <1>1, <1>2, <2>1, <2>2
<1> QED
  BY <1>4, <1>5

\* No step of dequeue breaks the types.
LEMMA ConsumerKeepsTypes ==
  ASSUME TypeOK, Lanes, Scan, Consumer \/ SpuriousWake
  PROVE  TypeOK'
<1>1. ProducerTypes'
  BY ConsumerFrame DEF TypeOK, ProducerTypes
<1>2. HistoryTypes'
  <2>1. before' \in [Threads -> [Slots -> [Threads -> Slots]]]
    BY ConsumerFrame DEF TypeOK, HistoryTypes
  <2>2. atCall' \in [Threads -> Slots]
    BY CompletedType DEF TypeOK, HistoryTypes, Consumer, BeginDequeue, ScanLane, Rescan,
       ReturnMin, CheckUpTo, Announce, Wait, Resume, SpuriousWake
  <2> QED
    BY <2>1, <2>2 DEF HistoryTypes
<1>3. ConsumerTypes' /\ \A u \in Threads : read_head_'[u] <= write_head_'[u]
  <2>1. ASSUME NEW prev \in Threads \cup {-1, -2}, NewScan(prev),
               UNCHANGED <<read_head_, lowest_seen_>>, sleeping_' \in BOOLEAN, consumer' = "scan"
        PROVE  ConsumerTypes' /\ \A u \in Threads : read_head_'[u] <= write_head_'[u]
    <3>1. i' \in 0..NumThreads
      BY <2>1, SizeAssumption DEF NewScan
    <3> QED
      BY <2>1, <3>1, ConsumerFrame DEF NewScan, TypeOK, ConsumerTypes
  <2>2. CASE BeginDequeue \/ Rescan \/ Resume
    BY <2>1, <2>2 DEF BeginDequeue, Rescan, Resume, ScanOver, TypeOK, ConsumerTypes
  <2>3. CASE CheckUpTo
    <3>1. CASE UsedUp
      BY <2>3, <3>1, ConsumerFrame DEF CheckUpTo, scanVars, TypeOK, ConsumerTypes
    <3>2. CASE ~UsedUp
      BY <2>1, <2>3, <3>2 DEF CheckUpTo, ScanOver, TypeOK, ConsumerTypes
    <3> QED
      BY <3>1, <3>2
  <2>4. CASE ScanLane
    BY <2>4, ScanLaneStep, ConsumerFrame DEF TypeOK, ConsumerTypes
  <2>5. CASE Announce \/ Wait \/ SpuriousWake
    BY <2>5, ConsumerFrame DEF Announce, Wait, Blocks, SpuriousWake, scanVars, TypeOK, ConsumerTypes
  <2>6. CASE ReturnMin
    <3>1. consumer = "scan" /\ min_index # -1
      BY <2>6 DEF ReturnMin, ScanOver
    <3>2. read_head_' = [read_head_ EXCEPT ![min_index] = @ + 1]
      BY <2>6 DEF ReturnMin
    <3>3. read_head_' \in [Threads -> Slots]
      BY <3>1, <3>2, MinToRead DEF TypeOK, ConsumerTypes
    <3>4. ConsumerTypes'
      BY <2>6, <3>3 DEF ReturnMin, SeenNow, scanVars, TypeOK, ConsumerTypes
    <3>5. ASSUME NEW u \in Threads
          PROVE  read_head_'[u] <= write_head_'[u]
      <4>1. read_head_[min_index] + 1 <= write_head_[min_index]
        BY Typed, <3>1, MinToRead, HeadPublished
      <4>2. read_head_'[u] = IF u = min_index THEN read_head_[u] + 1 ELSE read_head_[u]
        BY <3>2 DEF TypeOK, ConsumerTypes
      <4> QED
        BY <4>1, <4>2, ConsumerFrame DEF TypeOK
    <3> QED
      BY <3>4, <3>5
  <2> QED
    BY <2>2, <2>3, <2>4, <2>5, <2>6 DEF Consumer
<1> QED
  BY <1>1, <1>2, <1>3 DEF TypeOK

\* lowest_seen_ moves past a ticket that is being dequeued, and no other node
\* and no other producer has that ticket.
LEMMA ConsumerKeepsNothingBelow ==
  ASSUME TypeOK, Lanes, Scan, NothingBelowLowestSeen, Consumer \/ SpuriousWake
  PROVE  NothingBelowLowestSeen'
<1>1. CASE ~ReturnMin
  BY <1>1, ConsumerFrame DEF NothingBelowLowestSeen
<1>2. CASE ReturnMin
  <2> DEFINE r == read_head_[min_index]
  <2>1. /\ consumer = "scan" /\ min_index # -1 /\ lowest_seen_' = SeenNow
        /\ read_head_' = [read_head_ EXCEPT ![min_index] = @ + 1]
        /\ UNCHANGED <<up_to_, count_, write_head_, pc, cur>>
    BY <1>2, ConsumerFrame DEF ReturnMin, ScanOver
  <2>2. /\ min_index \in Threads /\ min_count \in Nat /\ count_[min_index][r] = min_count
        /\ r < write_head_[min_index] /\ r \in Slots
    BY Typed, <2>1, MinToRead, HeadPublished DEF HeadCount
  <2>3. /\ lowest_seen_ \in Nat /\ up_to_ \in Nat /\ lowest_seen_ <= up_to_
        /\ cur \in [Threads -> Nat]
        /\ count_ \in [Threads -> [Slots -> Nat \cup {kEmpty}]]
        /\ write_head_ \in [Threads -> Slots]
    BY DEF TypeOK, ProducerTypes, ConsumerTypes, NothingBelowLowestSeen
  <2>4. min_count < up_to_
    BY <2>2 DEF Lanes, Tickets
  <2>5. lowest_seen_' <= up_to_
    BY <2>1, <2>2, <2>3, <2>4 DEF SeenNow
  <2>6. ASSUME NEW c \in Nat, lowest_seen_ <= c, c # min_count
        PROVE  lowest_seen_' <= c
    BY <2>1, <2>2, <2>3, <2>6 DEF SeenNow
  <2>7. ASSUME NEW u \in Threads, pc[u] = "drawn"
        PROVE  lowest_seen_' <= cur[u]
    <3>1. lowest_seen_ <= cur[u] /\ cur[u] # min_count
      BY <2>2, <2>7 DEF NothingBelowLowestSeen, Lanes, Unique
    <3> QED
      BY <2>3, <2>6, <3>1
  <2>8. ASSUME NEW u \in Threads, NEW n \in read_head_'[u]..(write_head_[u] - 1)
        PROVE  lowest_seen_' <= count_[u][n]
    <3>1. /\ read_head_'[u] = IF u = min_index THEN read_head_[u] + 1 ELSE read_head_[u]
          /\ read_head_[u] \in Nat /\ write_head_[u] \in Nat
          /\ write_head_[u] <= MaxItems /\ MaxItems \in Nat
      BY <2>1, <2>3, HeadPublished, Indices DEF TypeOK, ConsumerTypes
    <3>2. n \in Slots /\ n < write_head_[u] /\ n \in read_head_[u]..(write_head_[u] - 1)
      BY <3>1 DEF Slots
    <3>3. ~(u = min_index /\ n = r)
      BY <3>1
    <3>4. count_[u][n] # min_count /\ lowest_seen_ <= count_[u][n]
      BY <2>2, <3>2, <3>3 DEF NothingBelowLowestSeen, Lanes, Unique
    <3>5. count_[u][n] \in Nat
      BY <2>3, <3>2 DEF Lanes, Published
    <3> QED
      BY <2>6, <3>4, <3>5
  <2> QED
    BY <2>1, <2>5, <2>7, <2>8 DEF NothingBelowLowestSeen
<1> QED
  BY <1>1, <1>2

\* Each turn of the for loop extends what the scan has established by one lane.
\* The one that meets the ticket lowest_seen_ needs no scan before it: no ticket
\* in a lane is lower.
LEMMA ConsumerKeepsScan ==
  ASSUME TypeOK, Lanes, Scan, NothingBelowLowestSeen, Consumer \/ SpuriousWake
  PROVE  Scan'
<1>1. ASSUME NEW prev, NewScan(prev), read_head_' = read_head_,
             prev \in Threads => HeadCount(prev) # kEmpty
      PROVE  Scan'
  <2>1. i' = 0 /\ min_index' = -1 /\ min_count' = kEmpty /\ prev_index' = prev
    BY <1>1 DEF NewScan
  <2>2. prev \in Threads => HeadCount(prev_index)' # kEmpty
    BY <1>1, <2>1, ConsumerFrame DEF HeadCount
  <2>3. \A u \in Threads : ~(u < 0)
    BY Indices
  <2> QED
    BY <2>1, <2>2, <2>3 DEF Scan
<1>2. CASE BeginDequeue \/ Resume
  BY <1>1, <1>2, Indices DEF BeginDequeue, Resume
<1>3. CASE Rescan
  <2>1. consumer = "scan" /\ NewScan(min_index) /\ read_head_' = read_head_
    BY <1>3 DEF Rescan, ScanOver
  <2>2. min_index \in Threads => HeadCount(min_index) # kEmpty
    BY <2>1, MinToRead, Indices
  <2> QED
    BY <1>1, <2>1, <2>2
<1>4. CASE CheckUpTo
  <2>1. CASE UsedUp
    BY <1>4, <2>1 DEF CheckUpTo, scanVars, Scan
  <2>2. CASE ~UsedUp
    BY <1>1, <1>4, <2>2, Indices DEF CheckUpTo
  <2> QED
    BY <2>1, <2>2
<1>5. CASE Announce \/ Wait \/ SpuriousWake \/ ReturnMin
  BY <1>5 DEF Announce, Wait, Blocks, SpuriousWake, ReturnMin, scanVars, Scan
<1>6. CASE ScanLane
  <2>1. /\ consumer = "scan" /\ i \in Threads /\ i \in Nat /\ read_head_' = read_head_
        /\ \A u \in Threads : HeadCount(u)' = HeadCount(u)
        /\ before' = before
    BY <1>6, ScanLaneStep, ConsumerFrame DEF HeadCount
  <2>2. /\ min_index = -1 <=> min_count = kEmpty
        /\ min_index # -1 =>
             min_index \in Threads /\ HeadCount(min_index) = min_count /\ min_count \in Nat
    BY <2>1 DEF Scan, TypeOK, ConsumerTypes
  <2>3. \A u \in Threads : HeadCount(u) \in Nat \cup {kEmpty}
    BY Typed, HeadPublished
  <2>4. min_index' = -1 <=> min_count' = kEmpty
    BY <1>6, <2>1, <2>2, ScanLaneStep, Indices
  <2>5. min_index' # -1 => HeadCount(min_index)' = min_count'
    <3>1. \/ min_index' = i /\ min_count' = HeadCount(i)
          \/ min_index' = min_index /\ min_count' = min_count
      BY <1>6, ScanLaneStep
    <3>2. HeadCount(min_index)' = count_[min_index'][read_head_[min_index']]
      BY <2>1, ConsumerFrame DEF HeadCount
    <3> QED
      BY <2>1, <2>2, <3>1, <3>2 DEF HeadCount
  <2>6. ASSUME prev_index' \in Threads
        PROVE  /\ HeadCount(prev_index)' # kEmpty
               /\ \A u \in Threads :
                    u < i' /\ read_head_[u] < before[prev_index'][read_head_[prev_index']][u]
                      => min_index' # -1 /\ min_count' <= HeadCount(u)
    <3>1. HeadCount(prev_index)' = count_[prev_index'][read_head_[prev_index']]
      BY <2>1, ConsumerFrame DEF HeadCount
    <3>2. CASE /\ HeadCount(i) \in Nat /\ HeadCount(i) = lowest_seen_ /\ min_count' = HeadCount(i)
               /\ min_index' = i /\ prev_index' = i
      <4>1. HeadCount(prev_index)' # kEmpty
        BY <2>1, <3>1, <3>2, EmptyAssumption DEF HeadCount
      <4>2. ASSUME NEW u \in Threads, read_head_[u] < before[i][read_head_[i]][u]
            PROVE  lowest_seen_ <= HeadCount(u)
        BY Typed, <2>1, <4>2, PrecedingPublished, HeadNotBelow
      <4> QED
        BY <2>1, <3>2, <4>1, <4>2, Indices
    <3>3. CASE prev_index' = prev_index /\ i' = i + 1
      <4>1. HeadCount(prev_index)' # kEmpty
        BY <2>1, <2>6, <3>1, <3>3 DEF Scan, HeadCount
      <4>2. ASSUME NEW u \in Threads, u < i',
                   read_head_[u] < before[prev_index][read_head_[prev_index]][u]
            PROVE  min_index' # -1 /\ min_count' <= HeadCount(u)
        <5>1. HeadCount(u) \in Nat /\ HeadCount(u) # kEmpty
          BY Typed, <2>3, <2>6, <3>3, <4>2, PrecedingPublished
        <5>2. u = i \/ u < i
          BY <2>1, <3>3, <4>2, Indices
        <5>3. CASE u = i
          <6>1. min_index' # -1 /\ (min_count' = HeadCount(i) \/ (min_count' = min_count /\ min_count <= HeadCount(i)))
            BY <1>6, <2>1, <2>2, <5>1, <5>3, ScanLaneStep, Indices
          <6> QED
            BY <5>1, <5>3, <6>1
        <5>4. CASE u < i
          <6>1. min_index # -1 /\ min_count <= HeadCount(u)
            BY <2>1, <2>6, <3>3, <4>2, <5>4 DEF Scan
          <6>2. min_index' # -1 /\ min_count' \in Nat /\ min_count' <= min_count
            BY <1>6, <2>1, <2>2, <6>1, ScanLaneStep, Indices
          <6> QED
            BY <2>2, <5>1, <6>1, <6>2
        <5> QED
          BY <5>2, <5>3, <5>4
      <4> QED
        BY <3>3, <4>1, <4>2
    <3> QED
      BY <1>6, <3>2, <3>3, ScanLaneStep
  <2> QED
    BY <2>1, <2>4, <2>5, <2>6 DEF Scan
<1> QED
  BY <1>2, <1>3, <1>4, <1>5, <1>6 DEF Consumer

\* The consumer blocks only when all tickets drawn are dequeued.
LEMMA ConsumerKeepsNoLostWakeup ==
  ASSUME TypeOK, Lanes, NothingBelowLowestSeen, Sleeping, Consumer \/ SpuriousWake
  PROVE  Sleeping' /\ NoLostWakeup'
<1>1. Sleeping'
  BY DEF Sleeping, Consumer, BeginDequeue, ScanLane, Rescan, ReturnMin, CheckUpTo, Announce, Wait,
     Resume, SpuriousWake, ScanOver
<1>2. ASSUME consumer' = "asleep"
      PROVE  Wait /\ up_to_ = lowest_seen_ /\ read_head_' = read_head_
  BY <1>2 DEF Consumer, BeginDequeue, ScanLane, Rescan, ReturnMin, CheckUpTo, Announce, Wait,
     Blocks, Resume, SpuriousWake, ScanOver
<1>3. ASSUME consumer' = "asleep", NEW u \in Threads, read_head_'[u] < write_head_'[u]
      PROVE  FALSE
  <2>1. read_head_[u] < write_head_[u] /\ up_to_ = lowest_seen_
    BY <1>2, <1>3, ConsumerFrame
  <2>2. HeadCount(u) \in Nat /\ lowest_seen_ <= HeadCount(u)
    BY Typed, <2>1, HeadPublished, HeadNotBelow
  <2>3. HeadCount(u) < up_to_
    BY Typed, <2>1, HeadPublished DEF Lanes, Tickets, HeadCount
  <2> QED
    BY <2>1, <2>2, <2>3 DEF TypeOK, ProducerTypes
<1> QED
  BY <1>1, <1>3 DEF NoLostWakeup

\* dequeue takes the head of the lane the scan ended on: an element that precedes
\* it and were still in its lane would have had a lower ticket, which the scan
\* would have met.
LEMMA MinIsNext ==
  ASSUME TypeOK, Lanes, Scan, ScanOver, min_index # -1, Confirmed,
         NEW u \in Threads
  PROVE  before[min_index][read_head_[min_index]][u] <= read_head_[u]
<1> DEFINE r == read_head_[min_index]
<1>1. /\ consumer = "scan" /\ i = NumThreads /\ prev_index = min_index
      /\ min_index \in Threads /\ min_count \in Nat /\ HeadCount(min_index) = min_count
      /\ r < write_head_[min_index] /\ r \in Slots
  BY Typed, MinToRead, HeadPublished DEF ScanOver, Confirmed
<1>2. before[min_index][r][u] \in Nat /\ read_head_[u] \in Nat /\ read_head_[u] \in Slots
  <2>1. before[min_index][r] \in [Threads -> Slots]
    BY <1>1 DEF TypeOK, HistoryTypes
  <2> QED
    BY Typed, <2>1, HeadPublished, Indices
<1>3. SUFFICES ASSUME read_head_[u] < before[min_index][r][u]
               PROVE  FALSE
  BY <1>2
<1>4. min_count <= HeadCount(u)
  BY <1>1, <1>3, Indices DEF Scan
<1>5. HeadCount(u) \in Nat
  BY Typed, <1>1, <1>3, PrecedingPublished, HeadPublished
<1>6. HeadCount(u) < min_count
  BY <1>1, <1>2, <1>3 DEF Lanes, Order, HeadCount
<1> QED
  BY <1>1, <1>4, <1>5, <1>6

-----------------------------------------------------------------------------
\* Every step keeps the inductive invariant.
LEMMA NextKeepsIInv ==
  ASSUME IInv, [Next]_vars
  PROVE  IInv'
<1>1. ASSUME NEW t \in Threads, Producer(t)
      PROVE  IInv'
  BY Typed, <1>1, ProducerKeepsTypes, ProducerKeepsLanes, ProducerKeepsNothingBelow, ProducerKeepsScan,
     ProducerKeepsNoLostWakeup DEF IInv
<1>2. CASE Consumer \/ SpuriousWake
  BY <1>2, ConsumerKeepsTypes, ConsumerKeepsLanes, ConsumerKeepsNothingBelow, ConsumerKeepsScan,
     ConsumerKeepsNoLostWakeup DEF IInv
<1>3. CASE UNCHANGED vars
  <2>1. /\ UNCHANGED <<up_to_, sleeping_, count_, write_head_, pc, cur>>
        /\ UNCHANGED <<read_head_, lowest_seen_, consumer, i, min_count, min_index, prev_index>>
        /\ UNCHANGED <<before, atCall>>
    BY <1>3 DEF vars, producerVars, consumerVars, scanVars
  <2>2. TypeOK'
    BY <2>1 DEF IInv, TypeOK, ProducerTypes, ConsumerTypes, HistoryTypes
  <2>3. Lanes'
    <3>1. Completed' = Completed
      BY <2>1 DEF Completed
    <3> QED
      BY <2>1, <3>1 DEF IInv, Lanes, Published, Tickets, Unique, InCall, Order
  <2>4. NothingBelowLowestSeen'
    BY <2>1 DEF IInv, NothingBelowLowestSeen
  <2>5. Scan'
    <3>1. /\ \A u \in Threads : HeadCount(u)' = HeadCount(u)
          /\ HeadCount(min_index)' = HeadCount(min_index)
          /\ HeadCount(prev_index)' = HeadCount(prev_index)
      BY <2>1 DEF HeadCount
    <3> QED
      BY <2>1, <3>1 DEF IInv, Scan
  <2>6. Sleeping' /\ NoLostWakeup'
    BY <2>1 DEF IInv, Sleeping, NoLostWakeup
  <2> QED
    BY <2>2, <2>3, <2>4, <2>5, <2>6 DEF IInv
<1> QED
  BY <1>1, <1>2, <1>3 DEF Next

\* The inductive invariant holds at every step of enqueue and dequeue.
THEOREM Invariance == Spec => []IInv
BY InitIInv, NextKeepsIInv, PTL DEF Spec

\* The types, and that the consumer stays behind the producer in every lane.
THEOREM TypeCorrect == Spec => []TypeOK
BY Invariance, PTL DEF IInv

\* Whatever order the tickets are published in, none below lowest_seen_ is left,
\* for any number of producers.
THEOREM LowestSeenIsSound == Spec => []NothingBelowLowestSeen
BY Invariance, PTL DEF IInv

\* No element reaches a lane behind the back of a consumer that went to sleep.
THEOREM WakeupsAreNotLost == Spec => []NoLostWakeup
BY Invariance, PTL DEF IInv

-----------------------------------------------------------------------------
(* Linearizability: every step of the queue is a step of LinearQueue or      *)
(* changes nothing that LinearQueue sees.                                    *)

Started == [t \in Threads |-> Completed[t] + (IF pc[t] = "idle" THEN 0 ELSE 1)]

\* Drawing the ticket is the call of the abstract enqueue, and the last step of
\* the code its return; what is between changes nothing there.
LEMMA ProducerRefines ==
  ASSUME IInv, NEW t \in Threads, Producer(t)
  PROVE  [LQ!Next]_(LQ!vars)
<1> USE DEF IInv
<1>1. /\ UNCHANGED <<read_head_, atCall>>
      /\ (consumer' # "idle") = (consumer # "idle")
  BY Typed, ProducerFrame DEF Notified
<1>2. /\ pc \in [Threads -> {"idle", "drawn", "published", "notify"}]
      /\ write_head_ \in [Threads -> Nat] /\ up_to_ \in Nat
  BY Indices DEF TypeOK, ProducerTypes
<1>3. \A u \in Threads : Completed[u] \in Nat
  BY CompletedBound DEF TypeOK
<1>4. CASE DrawTicket(t)
  <2>1. pc[t] = "idle" /\ write_head_[t] < MaxItems
    BY <1>4 DEF DrawTicket
  <2>2. Completed[t] = write_head_[t] /\ Started[t] = write_head_[t]
    BY <1>2, <2>1 DEF Completed, Started
  <2>3. Completed' = Completed
    BY <1>2, <1>4 DEF DrawTicket, Completed
  <2>4. Started' = [Started EXCEPT ![t] = @ + 1]
    <3>1. Started = [u \in Threads |-> Started[u]] /\ Started' = [u \in Threads |-> Started'[u]]
      BY DEF Started
    <3>2. pc'[t] = "drawn" /\ \A u \in Threads : u # t => pc'[u] = pc[u]
      BY <1>2, <1>4 DEF DrawTicket
    <3>3. \A u \in Threads : Started'[u] = IF u = t THEN Started[u] + 1 ELSE Started[u]
      BY <1>2, <1>3, <2>1, <2>3, <3>2 DEF Started
    <3> QED
      BY <3>1, <3>3
  <2>5. before' = [before EXCEPT ![t][Started[t]] = Completed]
    BY <1>4, <2>2 DEF DrawTicket
  <2>6. LQ!EnqueueCall(t)
    BY <1>1, <2>1, <2>2, <2>3, <2>4, <2>5 DEF LQ!EnqueueCall, Started
  <2> QED
    BY <2>6 DEF LQ!Next
<1>5. CASE Publish(t)
  <2>1. Completed' = Completed
    BY <1>2, <1>5 DEF Publish, Completed
  <2>2. Started' = Started
    BY <1>2, <1>3, <1>5, <2>1 DEF Publish, Started
  <2>3. UNCHANGED before
    BY <1>5 DEF Publish
  <2> QED
    BY <1>1, <2>1, <2>2, <2>3 DEF LQ!vars, Started
<1>6. CASE (LoadSleeping(t) \/ Notify(t)) /\ pc'[t] = "idle"
  <2>1. /\ pc' = [pc EXCEPT ![t] = "idle"] /\ pc[t] \in {"published", "notify"}
        /\ write_head_' = write_head_ /\ before' = before
    BY <1>2, <1>6 DEF LoadSleeping, Notify
  <2>2. Completed' = [Completed EXCEPT ![t] = @ + 1]
    <3>1. Completed = [u \in Threads |-> Completed[u]] /\ Completed' = [u \in Threads |-> Completed'[u]]
      BY DEF Completed
    <3>2. \A u \in Threads : Completed'[u] = IF u = t THEN Completed[u] + 1 ELSE Completed[u]
      BY <1>2, <2>1 DEF Completed
    <3> QED
      BY <3>1, <3>2
  <2>3. Started' = Started
    BY <1>2, <1>3, <2>1, <2>2 DEF Started, Completed
  <2>4. Completed[t] < Started[t]
    BY <1>2, <1>3, <2>1 DEF Started
  <2>5. LQ!EnqueueReturn(t)
    BY <1>1, <2>1, <2>2, <2>3, <2>4 DEF LQ!EnqueueReturn, Started
  <2> QED
    BY <2>5 DEF LQ!Next
<1>7. CASE LoadSleeping(t) /\ pc'[t] # "idle"
  <2>1. /\ pc' = [pc EXCEPT ![t] = "notify"] /\ pc[t] = "published"
        /\ write_head_' = write_head_ /\ before' = before
    BY <1>2, <1>7 DEF LoadSleeping
  <2>2. Completed' = Completed
    BY <1>2, <2>1 DEF Completed
  <2>3. Started' = Started
    BY <1>2, <1>3, <2>1, <2>2 DEF Started
  <2> QED
    BY <1>1, <2>1, <2>2, <2>3 DEF LQ!vars, Started
<1>8. Notify(t) => pc'[t] = "idle"
  BY <1>2 DEF Notify
<1> QED
  BY <1>4, <1>5, <1>6, <1>7, <1>8 DEF Producer

\* A dequeue returns what the abstract one may return, by MinIsNext; scanning,
\* sleeping and waking change nothing there.
LEMMA ConsumerRefines ==
  ASSUME IInv, Consumer \/ SpuriousWake
  PROVE  [LQ!Next]_(LQ!vars)
<1> USE DEF IInv
<1>1. Completed' = Completed /\ Started' = Started /\ before' = before
  BY ConsumerFrame DEF Started
<1>2. CASE BeginDequeue
  <2>1. LQ!DequeueCall
    BY <1>1, <1>2 DEF BeginDequeue, LQ!DequeueCall, Started
  <2> QED
    BY <2>1 DEF LQ!Next
<1>3. CASE ReturnMin
  <2>1. consumer = "scan" /\ min_index # -1
    BY <1>3 DEF ReturnMin, ScanOver
  <2>2. min_index \in Threads /\ read_head_[min_index] \in Nat
    BY <2>1, MinToRead
  <2>3. read_head_[min_index] < Started[min_index]
    <3>1. /\ write_head_ \in [Threads -> Nat] /\ read_head_[min_index] < write_head_[min_index]
      BY <2>1, MinToRead, Indices DEF TypeOK, ProducerTypes
    <3>2. Started[min_index] = IF pc[min_index] = "drawn" THEN write_head_[min_index] + 1
                                                         ELSE write_head_[min_index]
      BY <2>2, <3>1 DEF Started, Completed, TypeOK, ProducerTypes
    <3> QED
      BY <2>2, <3>1, <3>2
  <2>4. \A u \in Threads : before[min_index][read_head_[min_index]][u] <= read_head_[u]
    BY <1>3, MinIsNext DEF ReturnMin
  <2>5. LQ!DequeueItem(min_index)
    BY <1>1, <1>3, <2>1, <2>2, <2>3, <2>4 DEF ReturnMin, LQ!DequeueItem, Started
  <2> QED
    BY <2>2, <2>5 DEF LQ!Next
<1>4. CASE ~BeginDequeue /\ ~ReturnMin
  <2>1. /\ UNCHANGED <<read_head_, atCall>>
        /\ (consumer' # "idle") = (consumer # "idle")
    BY <1>4 DEF Consumer, ScanLane, Rescan, CheckUpTo, Announce, Wait, Blocks, Resume,
       SpuriousWake, ScanOver
  <2> QED
    BY <1>1, <2>1 DEF LQ!vars, Started
<1> QED
  BY <1>2, <1>3, <1>4

\* The constructor maps to that of the abstract queue,
LEMMA InitRefines == Init => LQ!Init
<1> SUFFICES ASSUME Init
             PROVE  LQ!Init
  OBVIOUS
<1>1. Completed = Zero
  BY DEF Init, Completed, Zero
<1>2. Started = Zero
  BY <1>1 DEF Init, Started, Zero
<1> QED
  BY <1>1, <1>2 DEF Init, LQ!Init, LQ!Zero, Zero, Started, Slots

\* and every step to one of its steps or to none.
LEMMA NextRefines ==
  ASSUME IInv, [Next]_vars
  PROVE  [LQ!Next]_(LQ!vars)
<1>1. ASSUME UNCHANGED vars
      PROVE  UNCHANGED LQ!vars
  BY <1>1 DEF vars, producerVars, consumerVars, scanVars, LQ!vars, Completed
<1> QED
  BY <1>1, ProducerRefines, ConsumerRefines DEF Next

\* wait_mpsc_queue is linearizable: it implements the abstract queue.
THEOREM Refinement == Spec => Linearizable
BY InitRefines, NextRefines, Invariance, PTL DEF Spec, Linearizable, LQ!Spec
=============================================================================
