------------------------------ MODULE WaitQueue ------------------------------
(***************************************************************************)
(* wait_mpsc_queue (includes/zib/wait_mpsc_queue.hpp): lanes and scans as  *)
(* in SpinQueue, but tickets are unique, and a dequeue that finds nothing  *)
(* sleeps on up_to_ instead of returning.  lowest_seen_ counts the tickets *)
(* known to be dequeued without a gap: a scan that meets the ticket        *)
(* lowest_seen_ ends at once, and the consumer sleeps when lowest_seen_    *)
(* has reached up_to_.                                                     *)
(*                                                                         *)
(* One action is one access to shared memory with the thread-local code    *)
(* around it; std::atomic::wait compares and blocks in one step and        *)
(* compares again whenever it is woken.                                    *)
(***************************************************************************)
EXTENDS Integers

CONSTANTS
  NumThreads,  \* _num_threads: the producers are 0..NumThreads-1
  MaxItems,    \* bound: how many elements a producer enqueues at most
  kEmpty       \* the count_ of a node that is not published

ASSUME SizeAssumption == NumThreads \in Nat /\ MaxItems \in Nat
ASSUME EmptyAssumption == kEmpty \notin Nat

VARIABLES
  \* Shared between the threads.
  up_to_,       \* the ticket counter, and what the consumer sleeps on
  sleeping_,    \* the consumer announced that it will sleep
  count_,       \* count_[t][n]: ticket of the n-th node of lane t, or kEmpty
  \* Producer t.
  write_head_,  \* index of the next node to fill in lane t
  pc,           \* where t is in enqueue
  cur,          \* the ticket t drew
  \* The consumer.
  read_head_,   \* index of the next node to read in each lane
  lowest_seen_,
  consumer,     \* where it is in dequeue
  i, min_count, min_index, prev_index,
  \* History, read by no action: what was known when the calls were made.
  before,       \* before[t][n]: completed enqueues when <<t, n>> drew its ticket
  atCall        \* completed enqueues when the current dequeue was called

producerVars == <<count_, write_head_, pc, cur>>
scanVars     == <<i, min_count, min_index, prev_index>>
consumerVars == <<read_head_, lowest_seen_, consumer, scanVars>>
vars == <<up_to_, sleeping_, producerVars, consumerVars, before, atCall>>

Threads == 0..(NumThreads - 1)
Slots   == 0..MaxItems   \* the last one is never written
Zero    == [t \in Threads |-> 0]

\* The enqueues that have returned.
Completed ==
  [t \in Threads |->
     IF pc[t] \in {"published", "notify"} THEN write_head_[t] - 1 ELSE write_head_[t]]

\* Variant: count <= min_count.
EarlierOrSame(count, minimum) ==
  minimum = kEmpty \/ (count # kEmpty /\ count <= minimum)

\* count < min_count on 64-bit words, where kEmpty is the largest.
Earlier(count, minimum) ==
  count # kEmpty /\ (minimum = kEmpty \/ count < minimum)

HeadCount(t) == count_[t][read_head_[t]]

Init ==
  /\ up_to_ = 0 /\ sleeping_ = FALSE
  /\ count_ = [t \in Threads |-> [n \in Slots |-> kEmpty]]
  /\ write_head_ = Zero /\ read_head_ = Zero
  /\ pc = [t \in Threads |-> "idle"]
  /\ cur = Zero
  /\ lowest_seen_ = 0
  /\ consumer = "idle"
  /\ i = 0 /\ min_count = kEmpty /\ min_index = -1 /\ prev_index = -2
  /\ before = [t \in Threads |-> [n \in Slots |-> Zero]]
  /\ atCall = Zero

-----------------------------------------------------------------------------
(* enqueue(_data, t) *)

\* cur = up_to_.fetch_add(1).  The buffer switch before it touches the lane only.
DrawTicket(t) ==
  /\ pc[t] = "idle" /\ write_head_[t] < MaxItems
  /\ cur' = [cur EXCEPT ![t] = up_to_]
  /\ up_to_' = up_to_ + 1
  /\ pc' = [pc EXCEPT ![t] = "drawn"]
  /\ before' = [before EXCEPT ![t][write_head_[t]] = Completed]
  /\ UNCHANGED <<sleeping_, count_, write_head_, consumerVars, atCall>>

\* elements_[write_head_++].count_.store(cur): the node is published.
Publish(t) ==
  /\ pc[t] = "drawn"
  /\ count_' = [count_ EXCEPT ![t][write_head_[t]] = cur[t]]
  /\ write_head_' = [write_head_ EXCEPT ![t] = @ + 1]
  /\ pc' = [pc EXCEPT ![t] = "published"]
  /\ UNCHANGED <<up_to_, sleeping_, cur, consumerVars, before, atCall>>

\* if (sleeping_.load() == true)
LoadSleeping(t) ==
  /\ pc[t] = "published"
  /\ pc' = [pc EXCEPT ![t] = IF sleeping_ THEN "notify" ELSE "idle"]
  /\ UNCHANGED <<up_to_, sleeping_, count_, write_head_, cur, consumerVars, before, atCall>>

\* Variant: the notification is lost.
NobodyNotified == consumer

\* The consumer, if it is blocked, compares again.
Notified == IF consumer = "asleep" THEN "wait" ELSE consumer

\* up_to_.notify_one()
Notify(t) ==
  /\ pc[t] = "notify"
  /\ pc' = [pc EXCEPT ![t] = "idle"]
  /\ consumer' = Notified
  /\ UNCHANGED <<up_to_, sleeping_, count_, write_head_, cur, read_head_, lowest_seen_,
                 scanVars, before, atCall>>

-----------------------------------------------------------------------------
(* dequeue() *)

NewScan(prev) ==
  /\ i' = 0 /\ min_count' = kEmpty /\ min_index' = -1
  /\ prev_index' = prev

BeginDequeue ==
  /\ consumer = "idle"
  /\ consumer' = "scan"
  /\ NewScan(-2)
  /\ atCall' = Completed
  /\ UNCHANGED <<up_to_, sleeping_, producerVars, read_head_, lowest_seen_, before>>

\* The body of the for loop, with the ticket at the head of lane i.  Nothing can
\* precede the ticket lowest_seen_: the scan ends there and counts as confirmed.
Inspect(count, next) ==
  IF Earlier(count, min_count)
    THEN /\ min_count' = count /\ min_index' = i
         /\ IF count = lowest_seen_
              THEN prev_index' = i /\ i' = NumThreads
              ELSE i' = next /\ UNCHANGED prev_index
    ELSE i' = next /\ UNCHANGED <<min_count, min_index, prev_index>>

\* One turn of the for loop: load the head of lane i.
ScanLane ==
  /\ consumer = "scan" /\ i < NumThreads
  /\ Inspect(HeadCount(i), i + 1)
  /\ UNCHANGED <<up_to_, sleeping_, producerVars, read_head_, lowest_seen_, consumer,
                 before, atCall>>

ScanOver == consumer = "scan" /\ i = NumThreads

\* Variant: the first scan is trusted.
FirstScan == TRUE

\* The scan agrees with the one before it, or met lowest_seen_.
Confirmed == prev_index = min_index

Rescan ==
  /\ ScanOver /\ ~Confirmed
  /\ NewScan(min_index)
  /\ UNCHANGED <<up_to_, sleeping_, producerVars, read_head_, lowest_seen_, consumer,
                 before, atCall>>

\* Variant: the consumer never finds the tickets used up.
UsedUpLate == up_to_ + 1 = lowest_seen_

\* up_to_.load() == lowest_seen_
UsedUp == up_to_ = lowest_seen_

\* Two scans found nothing.
CheckUpTo ==
  /\ ScanOver /\ min_index = -1 /\ Confirmed
  /\ IF UsedUp
       THEN consumer' = "announce" /\ UNCHANGED scanVars
       ELSE NewScan(-2) /\ UNCHANGED consumer
  /\ UNCHANGED <<up_to_, sleeping_, producerVars, read_head_, lowest_seen_, before, atCall>>

\* sleeping_.store(true)
Announce ==
  /\ consumer = "announce"
  /\ sleeping_' = TRUE
  /\ consumer' = "wait"
  /\ UNCHANGED <<up_to_, producerVars, read_head_, lowest_seen_, scanVars, before, atCall>>

\* Variant: the consumer blocks without comparing.
BlocksBlindly == TRUE

Blocks == up_to_ = lowest_seen_

\* up_to_.wait(lowest_seen_): block unless up_to_ has changed.
Wait ==
  /\ consumer = "wait"
  /\ consumer' = IF Blocks THEN "asleep" ELSE "woken"
  /\ UNCHANGED <<up_to_, sleeping_, producerVars, read_head_, lowest_seen_, scanVars,
                 before, atCall>>

\* A thread blocked in wait may be unblocked for no reason.
SpuriousWake ==
  /\ consumer = "asleep"
  /\ consumer' = "wait"
  /\ UNCHANGED <<up_to_, sleeping_, producerVars, read_head_, lowest_seen_, scanVars,
                 before, atCall>>

\* sleeping_.store(false), then the outer loop starts again.
Resume ==
  /\ consumer = "woken"
  /\ sleeping_' = FALSE
  /\ consumer' = "scan"
  /\ NewScan(-2)
  /\ UNCHANGED <<up_to_, producerVars, read_head_, lowest_seen_, before, atCall>>

\* Variant: lowest_seen_ is set behind the ticket, without asking for its turn.
SeenBehind == min_count + 1

\* if (lowest_seen_ == min_count) { lowest_seen_++; }
SeenNow == IF lowest_seen_ = min_count THEN lowest_seen_ + 1 ELSE lowest_seen_

ReturnMin ==
  /\ ScanOver /\ min_index # -1 /\ Confirmed
  /\ read_head_' = [read_head_ EXCEPT ![min_index] = @ + 1]
  /\ lowest_seen_' = SeenNow
  /\ consumer' = "idle"
  /\ UNCHANGED <<up_to_, sleeping_, producerVars, scanVars, before, atCall>>

-----------------------------------------------------------------------------
Producer(t) == DrawTicket(t) \/ Publish(t) \/ LoadSleeping(t) \/ Notify(t)
Consumer ==
  \/ BeginDequeue \/ ScanLane \/ Rescan \/ ReturnMin
  \/ CheckUpTo \/ Announce \/ Wait \/ Resume
Next == (\E t \in Threads : Producer(t)) \/ Consumer \/ SpuriousWake

\* The consumer thread keeps calling dequeue and is scheduled while it is not
\* blocked; nothing is assumed of the producers, which may stop anywhere, nor
\* of spurious wake-ups.
Spec == Init /\ [][Next]_vars /\ WF_vars(Consumer)

-----------------------------------------------------------------------------
(* Properties *)

ProducerTypes ==
  /\ up_to_ \in Nat
  /\ count_ \in [Threads -> [Slots -> Nat \cup {kEmpty}]]
  /\ write_head_ \in [Threads -> Slots]
  /\ pc \in [Threads -> {"idle", "drawn", "published", "notify"}]
  /\ cur \in [Threads -> Nat]

ConsumerTypes ==
  /\ sleeping_ \in BOOLEAN
  /\ read_head_ \in [Threads -> Slots]
  /\ lowest_seen_ \in Nat
  /\ consumer \in {"idle", "scan", "announce", "wait", "asleep", "woken"}
  /\ i \in 0..NumThreads
  /\ min_count \in Nat \cup {kEmpty}
  /\ min_index \in Threads \cup {-1}
  /\ prev_index \in Threads \cup {-1, -2}

HistoryTypes ==
  /\ before \in [Threads -> [Slots -> [Threads -> Slots]]]
  /\ atCall \in [Threads -> Slots]

\* Every variable has its type, and the consumer never reads past the nodes the
\* producer of the lane has published (lines 286 and 336).
TypeOK ==
  /\ ProducerTypes /\ ConsumerTypes /\ HistoryTypes
  /\ \A t \in Threads : read_head_[t] <= write_head_[t]

\* No ticket below lowest_seen_ is still to come or waiting in a lane: what
\* entitles a scan to stop at lowest_seen_ (line 314) and the consumer to sleep
\* when up_to_ equals it (line 325), although tickets are published in any order.
NothingBelowLowestSeen ==
  /\ lowest_seen_ <= up_to_
  /\ \A t \in Threads :
       /\ pc[t] = "drawn" => lowest_seen_ <= cur[t]
       /\ \A n \in read_head_[t]..(write_head_[t] - 1) : lowest_seen_ <= count_[t][n]

\* While the consumer is blocked, an element in a lane has a producer that is
\* still inside enqueue and will see that it has to notify (lines 282-290 against
\* 327-328).
NoLostWakeup ==
  consumer = "asleep" /\ (\E t \in Threads : read_head_[t] < write_head_[t]) =>
    \E t \in Threads : (pc[t] = "published" /\ sleeping_) \/ pc[t] = "notify"

\* Once its enqueue has returned, an element is dequeued, wherever the other
\* producers stop and however often the consumer slept.
Delivered ==
  \A t \in Threads, n \in 0..(MaxItems - 1) :
    Completed[t] > n ~> read_head_[t] > n

\* No producer is inside enqueue, and all lanes are empty.
Quiescent ==
  \A t \in Threads : pc[t] = "idle" /\ read_head_[t] = write_head_[t]

\* The consumer of an empty queue goes to sleep if tickets were dequeued in order.
SleepsInOrder ==
  Quiescent /\ lowest_seen_ = up_to_ ~> consumer = "asleep" \/ ~Quiescent

\* "The wait queue will block when the queue is empty" (README.md).
BlocksWhenEmpty == Quiescent ~> consumer = "asleep" \/ ~Quiescent

\* The queue implements the abstract one: an element is started once its
\* ticket is drawn, done once its enqueue has returned, taken when dequeue
\* returns it.
LQ == INSTANCE LinearQueue WITH
        started <- [t \in Threads |-> Completed[t] + (IF pc[t] = "idle" THEN 0 ELSE 1)],
        done    <- Completed,
        taken   <- read_head_,
        busy    <- consumer # "idle"

Linearizable == LQ!Spec
=============================================================================
