------------------------------ MODULE SpinQueue ------------------------------
(***************************************************************************)
(* spin_mpsc_queue (includes/zib/spin_mpsc_queue.hpp): every producer has  *)
(* a lane of nodes of its own; a node is published by storing a ticket in  *)
(* its count_.  The only consumer scans the heads of the lanes for the     *)
(* lowest ticket until two scans in a row agree.                           *)
(*                                                                         *)
(* One action is one access to shared memory with the thread-local code    *)
(* around it.  A lane, in the code a list of node_buffers, is an array of  *)
(* nodes here: write_head_ and read_head_ count over the whole lane.       *)
(* Tickets are unbounded: reaching kEmpty = 2^64 - 1 takes that many       *)
(* enqueues.                                                               *)
(***************************************************************************)
EXTENDS Integers

CONSTANTS
  NumThreads,  \* _num_threads: the producers are 0..NumThreads-1
  MaxItems,    \* bound: how many elements a producer enqueues at most
  kEmpty       \* the count_ of a node that is not published

ASSUME SizeAssumption == NumThreads \in Nat /\ MaxItems \in Nat
ASSUME EmptyAssumption == kEmpty \notin Nat

VARIABLES
  \* Shared between the threads.
  up_to_,       \* the ticket counter
  count_,       \* count_[t][n]: ticket of the n-th node of lane t, or kEmpty
  \* Producer t.
  write_head_,  \* index of the next node to fill in lane t
  pc,           \* where t is in enqueue
  cur,          \* the ticket t drew
  \* The consumer.
  read_head_,   \* index of the next node to read in each lane
  scanning,     \* it is inside dequeue
  i, min_count, min_index, prev_index,
  \* History, read by no action: what was known when the calls were made.
  before,       \* before[t][n]: completed enqueues when <<t, n>> drew its ticket
  atCall,       \* completed enqueues when the current dequeue was called
  tried         \* the values prev_index has had in the current dequeue

producerVars == <<write_head_, pc, cur>>
localVars    == <<i, min_count, min_index, prev_index>>
history      == <<before, atCall, tried>>
vars == <<up_to_, count_, producerVars, read_head_, scanning, localVars, history>>

Threads == 0..(NumThreads - 1)
Slots   == 0..MaxItems   \* the last one is never written
Zero    == [t \in Threads |-> 0]

\* The enqueues that have returned: a thread past its publication is still
\* inside the call.
Completed ==
  [t \in Threads |->
     IF pc[t] \in {"stored", "raise"} THEN write_head_[t] - 1 ELSE write_head_[t]]

\* Variant: count <= min_count.
EarlierOrSame(count, minimum) ==
  minimum = kEmpty \/ (count # kEmpty /\ count <= minimum)

\* count < min_count on 64-bit words, where kEmpty is the largest.
Earlier(count, minimum) ==
  count # kEmpty /\ (minimum = kEmpty \/ count < minimum)

HeadCount(t) == count_[t][read_head_[t]]

Init ==
  /\ up_to_ = 0
  /\ count_ = [t \in Threads |-> [n \in Slots |-> kEmpty]]
  /\ write_head_ = Zero /\ read_head_ = Zero
  /\ pc = [t \in Threads |-> "idle"]
  /\ cur = Zero
  /\ scanning = FALSE
  /\ i = 0 /\ min_count = kEmpty /\ min_index = -1 /\ prev_index = -2
  /\ before = [t \in Threads |-> [n \in Slots |-> Zero]]
  /\ atCall = Zero
  /\ tried = {}

-----------------------------------------------------------------------------
(* enqueue(_data, t) *)

\* cur = up_to_.load().  The buffer switch before it touches the lane only.
LoadTicket(t) ==
  /\ pc[t] = "idle" /\ write_head_[t] < MaxItems
  /\ cur' = [cur EXCEPT ![t] = up_to_]
  /\ pc' = [pc EXCEPT ![t] = "loaded"]
  /\ before' = [before EXCEPT ![t][write_head_[t]] = Completed]
  /\ UNCHANGED <<up_to_, count_, write_head_, read_head_, scanning, localVars, atCall, tried>>

\* elements_[write_head_++].count_.store(cur): the node is published.
Publish(t) ==
  /\ pc[t] = "loaded"
  /\ count_' = [count_ EXCEPT ![t][write_head_[t]] = cur[t]]
  /\ write_head_' = [write_head_ EXCEPT ![t] = @ + 1]
  /\ pc' = [pc EXCEPT ![t] = "stored"]
  /\ UNCHANGED <<up_to_, cur, read_head_, scanning, localVars, history>>

\* Variant: the counter is never raised.
NeverUnraised(t) == FALSE

\* Nobody has raised the counter since.
Unraised(t) == cur[t] = up_to_

\* if (cur == up_to_.load())
Recheck(t) ==
  /\ pc[t] = "stored"
  /\ pc' = [pc EXCEPT ![t] = IF Unraised(t) THEN "raise" ELSE "idle"]
  /\ UNCHANGED <<up_to_, count_, write_head_, cur, read_head_, scanning, localVars, history>>

\* up_to_.fetch_add(1)
Raise(t) ==
  /\ pc[t] = "raise"
  /\ up_to_' = up_to_ + 1
  /\ pc' = [pc EXCEPT ![t] = "idle"]
  /\ UNCHANGED <<count_, write_head_, cur, read_head_, scanning, localVars, history>>

-----------------------------------------------------------------------------
(* dequeue() *)

\* Variant: the for loop starts at lane 1.
NewScanFromOne(prev) ==
  /\ i' = 1 /\ min_count' = kEmpty /\ min_index' = -1
  /\ prev_index' = prev

\* Variant: min_count survives from one scan to the next.
NewScanKeepsMin(prev) ==
  /\ i' = 0 /\ min_index' = -1
  /\ prev_index' = prev
  /\ UNCHANGED min_count

NewScan(prev) ==
  /\ i' = 0 /\ min_count' = kEmpty /\ min_index' = -1
  /\ prev_index' = prev

BeginDequeue ==
  /\ ~scanning
  /\ scanning' = TRUE
  /\ NewScan(-2)
  /\ atCall' = Completed
  /\ tried' = {-2}
  /\ UNCHANGED <<up_to_, count_, producerVars, read_head_, before>>

\* One turn of the for loop: load the head of lane i.
ScanLane ==
  /\ scanning /\ i < NumThreads
  /\ IF Earlier(HeadCount(i), min_count)
       THEN min_count' = HeadCount(i) /\ min_index' = i
       ELSE UNCHANGED <<min_count, min_index>>
  /\ i' = i + 1
  /\ UNCHANGED <<up_to_, count_, producerVars, read_head_, scanning, prev_index, history>>

ScanOver == scanning /\ i = NumThreads

\* Variant: the first scan is trusted.
FirstScan == TRUE

\* The scan agrees with the one before it.
Confirmed == prev_index = min_index

Rescan ==
  /\ ScanOver /\ ~Confirmed
  /\ NewScan(min_index)
  /\ tried' = tried \cup {min_index}
  /\ UNCHANGED <<up_to_, count_, producerVars, read_head_, scanning, before, atCall>>

ReturnEmpty ==
  /\ ScanOver /\ min_index = -1 /\ Confirmed
  /\ scanning' = FALSE
  /\ UNCHANGED <<up_to_, count_, producerVars, read_head_, localVars, history>>

ReturnMin ==
  /\ ScanOver /\ min_index # -1 /\ Confirmed
  /\ read_head_' = [read_head_ EXCEPT ![min_index] = @ + 1]
  /\ scanning' = FALSE
  /\ UNCHANGED <<up_to_, count_, producerVars, localVars, history>>

-----------------------------------------------------------------------------
Producer(t) == LoadTicket(t) \/ Publish(t) \/ Recheck(t) \/ Raise(t)
Consumer    == BeginDequeue \/ ScanLane \/ Rescan \/ ReturnEmpty \/ ReturnMin
Next == (\E t \in Threads : Producer(t)) \/ Consumer

\* The consumer thread keeps calling dequeue and is scheduled; nothing is
\* assumed of the producers, which may stop anywhere.
Spec == Init /\ [][Next]_vars /\ WF_vars(Consumer)

-----------------------------------------------------------------------------
(* Properties *)

ProducerTypes ==
  /\ up_to_ \in Nat
  /\ count_ \in [Threads -> [Slots -> Nat \cup {kEmpty}]]
  /\ write_head_ \in [Threads -> Slots]
  /\ pc \in [Threads -> {"idle", "loaded", "stored", "raise"}]
  /\ cur \in [Threads -> Nat]

ConsumerTypes ==
  /\ read_head_ \in [Threads -> Slots]
  /\ scanning \in BOOLEAN
  /\ i \in 0..NumThreads
  /\ min_count \in Nat \cup {kEmpty}
  /\ min_index \in Threads \cup {-1}
  /\ prev_index \in Threads \cup {-1, -2}

HistoryTypes ==
  /\ before \in [Threads -> [Slots -> [Threads -> Slots]]]
  /\ atCall \in [Threads -> Slots]
  /\ tried \in SUBSET (Threads \cup {-1, -2})

\* Every variable has its type, and the consumer never reads past the nodes the
\* producer of the lane has published (lines 286 and 324).
TypeOK ==
  /\ ProducerTypes /\ ConsumerTypes /\ HistoryTypes
  /\ \A t \in Threads : read_head_[t] <= write_head_[t]

\* An element is dequeued after every element whose enqueue had returned when
\* its own enqueue drew its ticket: what the tickets of enqueue (lines 282-293)
\* and the second scan of dequeue (lines 299-341) are there for.
RealTimeOrder ==
  \A t \in Threads : \A n \in 0..(read_head_[t] - 1) :
    \A u \in Threads : before[t][n][u] <= read_head_[u]

\* dequeue returns nullopt (line 319) only if all the elements whose enqueue
\* had returned when it was called are gone.
EmptyMeansEmpty ==
  ScanOver /\ min_index = -1 /\ prev_index = -1 => \A u \in Threads : atCall[u] <= read_head_[u]

\* "wait-free" (README.md): a scan of dequeue never ends on a minimum that an
\* earlier scan of the same call ended on and a later one gave up, so a call
\* makes at most NumThreads + 2 scans whatever the producers do meanwhile.
BoundedScans ==
  ScanOver /\ min_index \in tried => min_index = prev_index

\* Once its enqueue has returned, an element is dequeued, wherever the other
\* producers stop.
Delivered ==
  \A t \in Threads, n \in 0..(MaxItems - 1) :
    Completed[t] > n ~> read_head_[t] > n

\* The queue implements the abstract one: an element is started once its
\* ticket is drawn, done once its enqueue has returned, taken when dequeue
\* returns it.
LQ == INSTANCE LinearQueue WITH
        started <- [t \in Threads |-> Completed[t] + (IF pc[t] = "idle" THEN 0 ELSE 1)],
        done    <- Completed,
        taken   <- read_head_,
        busy    <- scanning

Linearizable == LQ!Spec
=============================================================================
