---------------------------- MODULE OverflowQueue ----------------------------
(***************************************************************************)
(* overflow_mpsc_queue (includes/zib/overflow_mpsc_queue.hpp): "A          *)
(* wait_mpsc_queue queue but with the property that the number of threads  *)
(* is not bounded" (README.md).  The steps are those of WaitQueue, of      *)
(* ExtraList, or of both at once.                                          *)
(***************************************************************************)
EXTENDS ExtraList

ASSUME EmptyAssumption == kEmpty \notin Nat

VARIABLES up_to_, sleeping_, pc, cur,                  \* as in WaitQueue, with
          lowest_seen_, consumer,                      \* an entry for each
          i, min_count, min_index, prev_index,         \* thread without a lane
          before, atCall

\* The tickets, the sleep and the lanes.  The loop over the lanes, which are
\* fewer than the threads, has steps of its own.
W == INSTANCE WaitQueue WITH NumThreads <- LoopOver

waitVars == <<up_to_, sleeping_, count_, write_head_, pc, cur, read_head_, lowest_seen_,
              consumer, i, min_count, min_index, prev_index, before, atCall>>
vars == <<waitVars, listVars>>

Init == W!Init /\ ListInit

-----------------------------------------------------------------------------
(* safe_enqueue(_data, t); a thread beyond the lanes may call enqueue(_data) *)

\* cur = up_to_.fetch_add(1), in unsafe_enqueue and overflow_enqueue.
DrawTicket(t) == ~destroyed /\ W!DrawTicket(t) /\ UNCHANGED listVars

\* unsafe_enqueue: elements_[write_head_++].count_.store(cur)
Publish(t) == t \in Bounded /\ W!Publish(t) /\ UNCHANGED listVars

\* overflow_enqueue: ptr = new extra_node(_data, cur); old = extra_tail_.exchange(ptr)
Exchange(t) == t \in Extra /\ pc[t] = "drawn" /\ Swap(t) /\ UNCHANGED waitVars

\* overflow_enqueue: old->next_.store(ptr).  Nobody reads the node before.
LinkExtra(t) == t \in Extra /\ LinkOld(t) /\ W!Publish(t)

\* if (sleeping_.load() == true) { up_to_.notify_one(); }
LoadSleeping(t) == W!LoadSleeping(t) /\ UNCHANGED listVars
Notify(t) == W!Notify(t) /\ UNCHANGED listVars

-----------------------------------------------------------------------------
(* dequeue() *)

BeginDequeue == ~destroyed /\ W!BeginDequeue /\ NewTurn

\* Variant: the lanes are not looked at when an extra_node is there.
NoLane(count) == LoopOver

\* The condition of the for loop, with min_count as found in the list.
FirstLane(count) == IF count = lowest_seen_ THEN LoopOver ELSE At(0)

\* If there is an extra_node, its ticket is the first minimum, and min_index is
\* whatever prev_index is.
LoadExtra ==
  /\ consumer = "scan" /\ LoadNext
  /\ IF extra_next' # nullptr
       THEN /\ min_count' = CountOf(extra_next') /\ min_index' = prev_index
            /\ i' = FirstLane(CountOf(extra_next'))
       ELSE i' = At(0) /\ UNCHANGED <<min_count, min_index>>
  /\ UNCHANGED <<up_to_, sleeping_, count_, write_head_, pc, cur, read_head_, lowest_seen_,
                 consumer, prev_index, before, atCall>>

\* One turn of the for loop: load the head of lane i.
ScanLane ==
  /\ consumer = "scan" /\ extra_next # unloaded /\ i < NumThreads
  /\ W!Inspect(W!HeadCount(i), At(i + 1))
  /\ UNCHANGED <<up_to_, sleeping_, count_, write_head_, pc, cur, read_head_, lowest_seen_,
                 consumer, before, atCall, listVars>>

Rescan == W!Rescan /\ NewTurn

\* min_index is -1 twice, which it also is when an extra_node has been linked
\* since a scan that found nothing.
CheckUpTo == W!CheckUpTo /\ NewTurn

Announce     == W!Announce /\ UNCHANGED listVars
Wait         == W!Wait /\ UNCHANGED listVars
SpuriousWake == W!SpuriousWake /\ UNCHANGED listVars
Resume       == W!Resume /\ NewTurn

\* The head of lane min_index is dequeued, also when min_count is the ticket of
\* extra_next.
ReturnMin == min_index >= 0 /\ W!ReturnMin /\ UNCHANGED listVars

\* The element of extra_next is dequeued; extra_next is the new dummy.
ReturnExtra ==
  /\ W!ScanOver /\ min_index = -2 /\ W!Confirmed
  /\ CutHead
  /\ lowest_seen_' = W!SeenNow
  /\ consumer' = "idle"
  /\ UNCHANGED <<up_to_, sleeping_, count_, write_head_, pc, cur, i, min_count, min_index,
                 prev_index, before, atCall>>

\* The destructor runs when the threads are done with the queue.
Destroy ==
  /\ consumer = "idle" /\ \A t \in Threads : pc[t] = "idle"
  /\ DestroyList
  /\ UNCHANGED waitVars

-----------------------------------------------------------------------------
Producer(t) ==
  DrawTicket(t) \/ Publish(t) \/ Exchange(t) \/ LinkExtra(t) \/ LoadSleeping(t) \/ Notify(t)
Consumer ==
  \/ BeginDequeue \/ LoadExtra \/ ScanLane \/ Rescan \/ ReturnMin \/ ReturnExtra
  \/ CheckUpTo \/ Announce \/ Wait \/ Resume
Next == (\E t \in Threads : Producer(t)) \/ Consumer \/ SpuriousWake \/ Destroy

\* The consumer thread keeps calling dequeue and is scheduled while it is not
\* blocked; nothing is assumed of the producers nor of spurious wake-ups.
Spec == Init /\ [][Next]_vars /\ WF_vars(Consumer)

-----------------------------------------------------------------------------
(* Properties *)

\* Every variable has its type, and the consumer never reads past the nodes a
\* thread has published.
TypeOK ==
  /\ W!ProducerTypes /\ W!HistoryTypes /\ ListTypes
  /\ sleeping_ \in BOOLEAN /\ lowest_seen_ \in Nat
  /\ consumer \in {"idle", "scan", "announce", "wait", "asleep", "woken"}
  /\ i \in 0..LoopOver /\ min_count \in Nat \cup {kEmpty}
  /\ min_index \in Bounded \cup {-1, -2} /\ prev_index \in Bounded \cup {-1, -2}
  /\ \A t \in Threads : 0 <= read_head_[t] /\ read_head_[t] <= write_head_[t]

\* An element of the list is dequeued after all the elements, of the list and of
\* the lanes, whose enqueue had returned when it drew its ticket: a scan starts
\* with the list and trusts what it finds there at once (lines 359-365).
ExtraInOrder ==
  \A t \in Extra : \A n \in 0..(read_head_[t] - 1) :
    \A u \in Threads : before[t][n][u] <= read_head_[u]

\* "A wait_mpsc_queue queue but with the property that the number of threads is
\* not bounded ... the elements added by the extra threads are by themselves are
\* not linearizable" (README.md): among the threads with a lane, an element is
\* dequeued after the elements whose enqueue had returned when it drew its ticket.
BoundedInOrder ==
  \A t \in Bounded : \A n \in 0..(read_head_[t] - 1) :
    \A u \in Bounded : before[t][n][u] <= read_head_[u]

\* When lowest_seen_ reaches up_to_ (line 385), every ticket that was drawn has
\* been dequeued, although line 425 may count the ticket of an element of the list
\* when it is the head of a lane that is dequeued.
SeenIsDequeued ==
  lowest_seen_ = up_to_ =>
    \A t \in Threads : pc[t] # "drawn" /\ read_head_[t] = write_head_[t]

\* While the consumer is blocked, and any element is in a lane or linked, a thread
\* that is still inside enqueue will notify (lines 323-327 and 336-338 against 385-388).
NoLostWakeup == W!NoLostWakeup

\* Once its enqueue has returned, an element of a lane is dequeued, wherever the
\* other threads stop.
DeliveredBounded ==
  \A t \in Bounded, n \in 0..(MaxItems - 1) :
    W!Completed[t] > n ~> read_head_[t] > n \/ destroyed

\* Once its enqueue has returned, an element of the list is dequeued, unless a
\* thread stops for ever between exchange and next_ (lines 335 and 336).
DeliveredExtra ==
  []<>(Linking = {}) =>
    \A t \in Extra, n \in 0..(MaxItems - 1) :
      W!Completed[t] > n ~> read_head_[t] > n \/ destroyed
=============================================================================
