-------------------------- MODULE SpinOverflowQueue --------------------------
(***************************************************************************)
(* spin_overflow_mpsc_queue (includes/zib/spin_overflow_mpsc_queue.hpp):   *)
(* the tickets and the nullopt of spin_mpsc_queue with the list of         *)
(* overflow_mpsc_queue.  The steps are those of SpinQueue, of ExtraList,   *)
(* or of both at once.                                                     *)
(***************************************************************************)
EXTENDS ExtraList

ASSUME EmptyAssumption == kEmpty \notin Nat

VARIABLES up_to_, pc, cur, scanning,                   \* as in SpinQueue, with
          i, min_count, min_index, prev_index,         \* an entry for each
          before, atCall, tried,                       \* thread without a lane
          \* History, read by no action.
          reachable    \* the list had an element when dequeue was called

\* The tickets and the lanes.  The loop over the lanes, which are fewer than the
\* threads, has steps of its own.
S == INSTANCE SpinQueue WITH NumThreads <- LoopOver

spinVars == <<up_to_, count_, write_head_, pc, cur, read_head_, scanning, i, min_count,
              min_index, prev_index, before, atCall, tried>>
vars == <<spinVars, listVars, reachable>>

\* What the producers leave alone.
others == <<listVars, reachable>>

Init == S!Init /\ ListInit /\ reachable = FALSE

-----------------------------------------------------------------------------
(* safe_enqueue(_data, t); a thread beyond the lanes may call enqueue(_data) *)

\* cur = up_to_.load(), in unsafe_enqueue and overflow_enqueue.
LoadTicket(t) == ~destroyed /\ S!LoadTicket(t) /\ UNCHANGED others

\* unsafe_enqueue: elements_[write_head_++].count_.store(cur)
Publish(t) == t \in Bounded /\ S!Publish(t) /\ UNCHANGED others

\* overflow_enqueue: ptr = new extra_node(_data, cur); old = extra_tail_.exchange(ptr)
Exchange(t) ==
  t \in Extra /\ pc[t] = "loaded" /\ Swap(t) /\ UNCHANGED <<spinVars, reachable>>

\* overflow_enqueue: old->next_.store(ptr).  Nobody reads the node before.
LinkExtra(t) == t \in Extra /\ LinkOld(t) /\ S!Publish(t) /\ UNCHANGED reachable

\* if (cur == up_to_.load()) { up_to_.fetch_add(1); }
Recheck(t) == S!Recheck(t) /\ UNCHANGED others
Raise(t)   == S!Raise(t) /\ UNCHANGED others

-----------------------------------------------------------------------------
(* dequeue() *)

BeginDequeue ==
  /\ ~destroyed /\ S!BeginDequeue /\ NewTurn
  /\ reachable' = (next_[extra_head_] # nullptr)

\* Variant: the for loop starts at lane 1.
FromLaneOne == At(1)

FirstLane == At(0)

\* If there is an extra_node, its ticket is the first minimum, and min_index is
\* whatever prev_index is.
LoadExtra ==
  /\ scanning /\ LoadNext
  /\ IF extra_next' # nullptr
       THEN min_count' = CountOf(extra_next') /\ min_index' = prev_index
       ELSE UNCHANGED <<min_count, min_index>>
  /\ i' = FirstLane
  /\ UNCHANGED <<up_to_, count_, write_head_, pc, cur, read_head_, scanning, prev_index,
                 before, atCall, tried, reachable>>

\* One turn of the for loop: load the head of lane i.
ScanLane ==
  /\ scanning /\ extra_next # unloaded /\ i < NumThreads
  /\ IF S!Earlier(S!HeadCount(i), min_count)
       THEN min_count' = S!HeadCount(i) /\ min_index' = i
       ELSE UNCHANGED <<min_count, min_index>>
  /\ i' = At(i + 1)
  /\ UNCHANGED <<up_to_, count_, write_head_, pc, cur, read_head_, scanning, prev_index,
                 before, atCall, tried, others>>

Rescan == S!Rescan /\ NewTurn /\ UNCHANGED reachable

\* min_index is -1 twice, which it also is when an extra_node has been linked
\* since a scan that found nothing.
ReturnEmpty == S!ReturnEmpty /\ UNCHANGED others

\* The head of lane min_index is dequeued, also when min_count is the ticket of
\* extra_next.
ReturnMin == min_index >= 0 /\ S!ReturnMin /\ UNCHANGED others

\* The element of extra_next is dequeued; extra_next is the new dummy.
ReturnExtra ==
  /\ S!ScanOver /\ min_index = -2 /\ S!Confirmed
  /\ CutHead
  /\ scanning' = FALSE
  /\ UNCHANGED <<up_to_, count_, write_head_, pc, cur, i, min_count, min_index, prev_index,
                 before, atCall, tried, reachable>>

\* The destructor runs when the threads are done with the queue.
Destroy ==
  /\ ~scanning /\ \A t \in Threads : pc[t] = "idle"
  /\ DestroyList
  /\ UNCHANGED <<spinVars, reachable>>

-----------------------------------------------------------------------------
Producer(t) ==
  LoadTicket(t) \/ Publish(t) \/ Exchange(t) \/ LinkExtra(t) \/ Recheck(t) \/ Raise(t)
Consumer ==
  BeginDequeue \/ LoadExtra \/ ScanLane \/ Rescan \/ ReturnEmpty \/ ReturnMin \/ ReturnExtra
Next == (\E t \in Threads : Producer(t)) \/ Consumer \/ Destroy

\* The consumer thread keeps calling dequeue and is scheduled; nothing is
\* assumed of the producers, which may stop anywhere.
Spec == Init /\ [][Next]_vars /\ WF_vars(Consumer)

-----------------------------------------------------------------------------
(* Properties.  SafeReclaim, ListIntact and DestroysAll of ExtraList are      *)
(* about lines 417, 332-345 and 251-294 of this header.                      *)

\* Every variable has its type, and the consumer never reads past the nodes a
\* thread has published.
TypeOK ==
  /\ S!ProducerTypes /\ ListTypes
  /\ scanning \in BOOLEAN /\ reachable \in BOOLEAN
  /\ i \in 0..LoopOver /\ min_count \in Nat \cup {kEmpty}
  /\ min_index \in Bounded \cup {-1, -2} /\ prev_index \in Bounded \cup {-1, -2}
  /\ S!HistoryTypes
  /\ \A t \in Threads : 0 <= read_head_[t] /\ read_head_[t] <= write_head_[t]

\* An element of the list is dequeued after all the elements, of the list and of
\* the lanes, whose enqueue had returned when it drew its ticket: a scan starts
\* with the list and trusts what it finds there at once (lines 365-370), although
\* tickets repeat.
ExtraInOrder ==
  \A t \in Extra : \A n \in 0..(read_head_[t] - 1) :
    \A u \in Threads : before[t][n][u] <= read_head_[u]

\* dequeue returns nullopt (line 387) only if every element whose enqueue had
\* returned in a lane when it was called is gone, and none could be reached in
\* the list then.
EmptyMeansEmpty ==
  S!ScanOver /\ min_index = -1 /\ prev_index = -1 =>
    ~reachable /\ \A u \in Bounded : atCall[u] <= read_head_[u]

\* A scan never ends on a minimum that an earlier scan of the same call ended on
\* and a later one gave up, with elements of the list coming in between: a call
\* makes at most NumThreads + 2 scans.
BoundedScans == S!BoundedScans

\* Once its enqueue has returned, an element of a lane is dequeued, wherever the
\* other threads stop.
DeliveredBounded ==
  \A t \in Bounded, n \in 0..(MaxItems - 1) :
    S!Completed[t] > n ~> read_head_[t] > n \/ destroyed

\* Once its enqueue has returned, an element of the list is dequeued, unless a
\* thread stops for ever between exchange and next_ (lines 338 and 339).
DeliveredExtra ==
  []<>(Linking = {}) =>
    \A t \in Extra, n \in 0..(MaxItems - 1) :
      S!Completed[t] > n ~> read_head_[t] > n \/ destroyed
=============================================================================
