----------------------------- MODULE WaitBuffers -----------------------------
(***************************************************************************)
(* wait_mpsc_queue (includes/zib/wait_mpsc_queue.hpp) with the node_buffers *)
(* and the pools of its lanes, from the constructor to the destructor: the *)
(* steps of WaitQueue and of Lane put together.  The nodes are those of    *)
(* the buffers; WaitQueue's array count_ is what they are compared with,   *)
(* and no action reads it.                                                 *)
(***************************************************************************)
EXTENDS Integers, FiniteSets

CONSTANTS
  NumThreads, MaxItems, kEmpty,                  \* as in WaitQueue
  Buffers, nullptr, BufferSize, AllocationSize,  \* as in Lane
  Calls   \* bound: how often each producer calls enqueue, MaxItems at most

ASSUME SizeAssumption ==
  /\ NumThreads \in Nat /\ MaxItems \in Nat
  /\ BufferSize \in Nat \ {0} /\ AllocationSize \in Nat \ {0}
ASSUME AddressAssumption ==
  nullptr \notin Buffers /\ kEmpty \notin Nat /\ IsFiniteSet(Buffers)

VARIABLES
  up_to_, sleeping_, pc, cur, lowest_seen_, consumer, i, min_count, min_index, prev_index,
  live, mem, items_, read_count_, write_count_, tail, buffer, popped, head, old,
  lpc, cpc,                     \* pc and cpc of Lane
  write_head_, read_head_,      \* of both: sent and got in Lane
  destroyed, deconstructed,
  \* History, read by no action but to take its own steps.
  count_, before, atCall, overrun

Threads == 0..(NumThreads - 1)

W == INSTANCE WaitQueue
L == INSTANCE Lane WITH Lanes <- Threads, pc <- lpc, sent <- write_head_, got <- read_head_

laneVars == <<live, mem, items_, read_count_, write_count_, tail, buffer, popped, head, old,
              lpc, cpc, destroyed, deconstructed, overrun>>
waitVars == <<up_to_, sleeping_, count_, pc, cur, lowest_seen_, consumer,
              i, min_count, min_index, prev_index, before, atCall>>
vars == <<laneVars, waitVars, write_head_, read_head_>>

\* wait_mpsc_queue(_num_threads)
Init == W!Init /\ L!Init

-----------------------------------------------------------------------------
(* enqueue(_data, t) *)

\* The test for the last node of the buffer.
EnqueueCall(t) ==
  /\ pc[t] = "idle" /\ write_head_[t] < Calls[t]
  /\ L!EnqueueCall(t)
  /\ UNCHANGED waitVars

\* tails_[t] = buffers_[t].pop(); buffer->next_ = tails_[t]
Pop(t)  == L!Pop(t) /\ UNCHANGED waitVars
Link(t) == L!Link(t) /\ UNCHANGED waitVars

DrawTicket(t) == lpc[t] = "fill" /\ W!DrawTicket(t) /\ UNCHANGED laneVars

Publish(t) == W!Publish(t) /\ L!Publish(t, cur[t])

LoadSleeping(t) == W!LoadSleeping(t) /\ UNCHANGED laneVars
Notify(t)       == W!Notify(t) /\ UNCHANGED laneVars

-----------------------------------------------------------------------------
(* dequeue() *)

BeginDequeue ==
  /\ ~destroyed /\ \A t \in Threads : cpc[t] = "idle"
  /\ W!BeginDequeue
  /\ UNCHANGED laneVars

\* One turn of the for loop: assert(read_head_ < BufferSize), then load the head
\* of lane i from its buffer.
ScanLane ==
  /\ consumer = "scan" /\ i < NumThreads
  /\ L!InBuffer(i)
  /\ W!Inspect(L!HeadCount(i), i + 1)
  /\ UNCHANGED <<laneVars, up_to_, sleeping_, count_, write_head_, pc, cur, read_head_,
                 lowest_seen_, consumer, before, atCall>>

Rescan       == W!Rescan /\ UNCHANGED laneVars
CheckUpTo    == W!CheckUpTo /\ UNCHANGED laneVars
Announce     == W!Announce /\ UNCHANGED laneVars
Wait         == W!Wait /\ UNCHANGED laneVars
SpuriousWake == W!SpuriousWake /\ UNCHANGED laneVars
Resume       == W!Resume /\ UNCHANGED laneVars

\* data = elements_[read_head_++].data_
ReturnMin == W!ReturnMin /\ L!Take(min_index)

\* The buffer of lane t is read to its end: tmp = heads_[t]; heads_[t] = tmp->next_;
\* buffers_[t].push(tmp).
Unlink(t) == L!Unlink(t) /\ UNCHANGED waitVars
Push(t)   == L!Push(t) /\ UNCHANGED waitVars

\* ~wait_mpsc_queue(), when the threads are done with the queue.
Destroy ==
  /\ consumer = "idle" /\ \A t \in Threads : pc[t] = "idle"
  /\ L!Destroy
  /\ UNCHANGED waitVars

-----------------------------------------------------------------------------
Producer(t) ==
  \/ EnqueueCall(t) \/ Pop(t) \/ Link(t)
  \/ DrawTicket(t) \/ Publish(t) \/ LoadSleeping(t) \/ Notify(t)
Consumer ==
  \/ BeginDequeue \/ ScanLane \/ Rescan \/ ReturnMin \/ \E t \in Threads : Unlink(t) \/ Push(t)
  \/ CheckUpTo \/ Announce \/ Wait \/ Resume
Next == (\E t \in Threads : Producer(t)) \/ Consumer \/ SpuriousWake \/ Destroy

\* As in WaitQueue: the consumer thread keeps calling dequeue and is scheduled
\* while it is not blocked.
Spec == Init /\ [][Next]_vars /\ WF_vars(Consumer)

-----------------------------------------------------------------------------
(* Properties.  Until a pool overruns, as in Lane. *)

BeforeOverrun == ~overrun

\* Every variable has its type, and no lane is read past what is published in it.
TypeOK == W!TypeOK /\ L!TypeOK

\* Linked, filled, read and recycled buffer by buffer, the queue is the one of
\* WaitQueue, whose lanes are arrays: every scan meets the tickets it should, and
\* dequeue takes what the array has there (lines 271-288, 308-321 and 334-353).
Implements == W!Init /\ [][W!Next]_(W!vars)

\* Every live buffer is in one place of one lane: what one producer gets from new
\* or from its pool, no other fills and the consumer does not read (126-214).
OneOwner == L!OneOwner

\* From the scan on which min_index is settled to the return, the node at the
\* head of that lane is the one whose ticket was compared (lines 308-337).
MinimumIsThere ==
  consumer = "scan" /\ min_index # -1 => L!HeadCount(min_index) = min_count

\* Once its enqueue has returned, an element is dequeued, also when its buffer is
\* linked behind others that are read, unlinked and pushed first.
Delivered ==
  \A t \in Threads, n \in 0..(MaxItems - 1) :
    W!Completed[t] > n ~> read_head_[t] > n \/ destroyed

\* The destructor frees every buffer and calls the deconstructor on every element
\* that was not dequeued, in each lane in its turn (lines 234-269).
DestroysAll ==
  destroyed /\ BeforeOverrun =>
    /\ live = {}
    /\ \A t \in Threads :
         deconstructed[t] = {count_[t][n] : n \in read_head_[t]..(write_head_[t] - 1)}
=============================================================================
