-------------------------------- MODULE Lane --------------------------------
(***************************************************************************)
(* The lanes of all four queues, one for each producer t: the linked list  *)
(* of node_buffers between tails_[t] and heads_[t], and the                *)
(* allocation_pool buffers_[t] that brings the buffers the consumer has    *)
(* read back to the producer.  The lanes share only the memory that new    *)
(* returns.  SpinQueue and WaitQueue see a lane as an array of nodes;      *)
(* HeadIsNext says why they may, and WaitBuffers puts the two together.    *)
(*                                                                         *)
(* A node holds one value (for both data_ and count_) or kEmpty; on their  *)
(* own, as here, the lanes number their elements from 0.  One action is    *)
(* one access to memory that both threads use, with the thread-local code  *)
(* around it.                                                              *)
(***************************************************************************)
EXTENDS LinkedList

CONSTANTS
  Lanes,
  Buffers,         \* the addresses new may return
  nullptr,
  kEmpty,          \* the count_ of a node that is not published
  BufferSize,      \* nodes in a node_buffer
  AllocationSize,  \* slots of a pool
  MaxItems         \* bound: how many elements are enqueued in a lane at most

ASSUME SizeAssumption ==
  BufferSize \in Nat \ {0} /\ AllocationSize \in Nat \ {0} /\ MaxItems \in Nat
ASSUME AddressAssumption ==
  nullptr \notin Buffers /\ kEmpty \notin Nat /\ IsFiniteSet(Buffers)

VARIABLES
  live,            \* the buffers allocated and not deleted
  mem,             \* mem[b]: the contents of buffer b
  \* Of each lane t: its pool,
  items_, read_count_, write_count_,
  \* its producer,
  tail,            \* tails_[t]
  pc,              \* where it is in enqueue
  buffer,          \* the buffer it fills
  popped,          \* what pop found
  sent,            \* number of elements published
  \* and what the consumer keeps.
  head,            \* heads_[t]
  cpc,             \* where it is in dequeue, after the scans
  old,             \* the buffer it has finished
  got,             \* number of elements dequeued
  \* The end of the queue.
  destroyed,       \* ~queue() has run
  deconstructed,   \* the elements of each lane it passed to the deconstructor
  \* History.
  overrun          \* push has stored into the last free slot of a pool

pools        == <<items_, read_count_, write_count_>>
producerVars == <<tail, pc, buffer, popped, sent>>
consumerVars == <<head, cpc, old, got>>
endVars      == <<destroyed, deconstructed>>
vars == <<live, mem, pools, producerVars, consumerVars, endVars, overrun>>

Nodes  == 0..(BufferSize - 1)
Places == 0..(AllocationSize - 1)

\* The same value for every lane.
Each(value) == [t \in Lanes |-> value]

\* node_buffer()
Fresh ==
  [read_head_ |-> 0, next_ |-> nullptr,
   elements_ |-> [k \in Nodes |-> kEmpty], write_head_ |-> 0]

\* The index after place k of a pool.
After(k) == IF k + 1 # AllocationSize THEN k + 1 ELSE 0

Init ==
  \E b \in [Lanes -> Buffers] :
    /\ \A t, u \in Lanes : b[t] = b[u] => t = u
    /\ live = {b[t] : t \in Lanes}
    /\ mem = [c \in Buffers |-> Fresh]
    /\ items_ = Each([k \in Places |-> nullptr])
    /\ read_count_ = Each(0) /\ write_count_ = Each(0)
    /\ tail = b /\ pc = Each("idle") /\ buffer = b /\ popped = Each(nullptr)
    /\ sent = Each(0)
    /\ head = b /\ cpc = Each("idle") /\ old = Each(nullptr) /\ got = Each(0)
    /\ destroyed = FALSE /\ deconstructed = Each({})
    /\ overrun = FALSE

-----------------------------------------------------------------------------
(* enqueue *)

\* Variant: the last node of a buffer is filled before the next one is linked,
\* which is then never done.
SwitchesLate(b) == mem[b].write_head_ = BufferSize

\* buffer->write_head_ == BufferSize - 1
Switches(b) == mem[b].write_head_ = BufferSize - 1

EnqueueCall(t) ==
  /\ pc[t] = "idle" /\ ~destroyed /\ sent[t] < MaxItems
  /\ buffer' = [buffer EXCEPT ![t] = tail[t]]
  /\ pc' = [pc EXCEPT ![t] = IF Switches(tail[t]) THEN "pop" ELSE "fill"]
  /\ UNCHANGED <<live, mem, pools, tail, popped, sent, consumerVars, endVars, overrun>>

\* pop(): the pool is empty, return new node_buffer.
PopNew(t) ==
  /\ pc[t] = "pop" /\ read_count_[t] = write_count_[t]
  /\ \E b \in Buffers \ live :
       /\ popped' = [popped EXCEPT ![t] = b]
       /\ live' = live \cup {b}
       /\ mem' = [mem EXCEPT ![b] = Fresh]
  /\ pc' = [pc EXCEPT ![t] = "link"]
  /\ UNCHANGED <<pools, tail, buffer, sent, consumerVars, endVars, overrun>>

\* pop(): read_idx is behind write_count_.
PopFound(t) ==
  /\ pc[t] = "pop" /\ read_count_[t] # write_count_[t]
  /\ pc' = [pc EXCEPT ![t] = "take"]
  /\ UNCHANGED <<live, mem, pools, tail, buffer, popped, sent, consumerVars, endVars, overrun>>

\* tmp = items_[read_idx].ptr_
PopTake(t) ==
  /\ pc[t] = "take"
  /\ popped' = [popped EXCEPT ![t] = items_[t][read_count_[t]]]
  /\ pc' = [pc EXCEPT ![t] = "advance"]
  /\ UNCHANGED <<live, mem, pools, tail, buffer, sent, consumerVars, endVars, overrun>>

\* Variant: read_count_ is never advanced.
ReadKept(t) == read_count_[t]

ReadNext(t) == After(read_count_[t])

\* read_count_.store(...)
PopAdvance(t) ==
  /\ pc[t] = "advance"
  /\ read_count_' = [read_count_ EXCEPT ![t] = ReadNext(t)]
  /\ pc' = [pc EXCEPT ![t] = "link"]
  /\ UNCHANGED <<live, mem, items_, write_count_, tail, buffer, popped, sent,
                 consumerVars, endVars, overrun>>

\* tails_[t] = ...; buffer->next_ = tails_[t]; assert(tails_[t])
Link(t) ==
  /\ pc[t] = "link"
  /\ tail' = [tail EXCEPT ![t] = popped[t]]
  /\ mem' = [mem EXCEPT ![buffer[t]].next_ = popped[t]]
  /\ pc' = [pc EXCEPT ![t] = IF popped[t] = nullptr THEN "abort" ELSE "fill"]
  /\ UNCHANGED <<live, pools, buffer, popped, sent, consumerVars, endVars, overrun>>

\* data_ = _data; elements_[write_head_++].count_.store(cur)
Publish(t, value) ==
  /\ pc[t] = "fill"
  /\ mem' = [mem EXCEPT ![buffer[t]].elements_[mem[buffer[t]].write_head_] = value,
                        ![buffer[t]].write_head_ = @ + 1]
  /\ sent' = [sent EXCEPT ![t] = @ + 1]
  /\ pc' = [pc EXCEPT ![t] = "idle"]
  /\ UNCHANGED <<live, pools, tail, buffer, popped, consumerVars, endVars, overrun>>

-----------------------------------------------------------------------------
(* dequeue, once the scans have settled on lane t *)

\* heads_[t]->read_head_ < BufferSize
InBuffer(t) == mem[head[t]].read_head_ < BufferSize

HeadCount(t) == mem[head[t]].elements_[mem[head[t]].read_head_]

\* assert(heads_[t]->read_head_ < BufferSize); data = elements_[read_head_++].data_
Take(t) ==
  /\ cpc[t] = "idle" /\ ~destroyed
  /\ IF InBuffer(t)
       THEN /\ HeadCount(t) # kEmpty
            /\ got' = [got EXCEPT ![t] = @ + 1]
            /\ mem' = [mem EXCEPT ![head[t]].read_head_ = @ + 1]
            /\ cpc' = [cpc EXCEPT ![t] = IF mem[head[t]].read_head_ + 1 = BufferSize
                                           THEN "unlink" ELSE "idle"]
       ELSE cpc' = [cpc EXCEPT ![t] = "abort"] /\ UNCHANGED <<mem, got>>
  /\ UNCHANGED <<live, pools, producerVars, head, old, endVars, overrun>>

\* tmp = heads_[t]; heads_[t] = tmp->next_; assert(heads_[t])
Unlink(t) ==
  /\ cpc[t] = "unlink"
  /\ old' = [old EXCEPT ![t] = head[t]]
  /\ head' = [head EXCEPT ![t] = mem[head[t]].next_]
  /\ cpc' = [cpc EXCEPT ![t] = IF mem[head[t]].next_ = nullptr THEN "abort" ELSE "push"]
  /\ UNCHANGED <<live, mem, pools, producerVars, got, endVars, overrun>>

\* push(): the pool is full, delete _ptr.
PushFull(t) ==
  /\ cpc[t] = "push" /\ write_count_[t] + 1 = read_count_[t]
  /\ live' = live \ {old[t]}
  /\ old' = [old EXCEPT ![t] = nullptr]
  /\ cpc' = [cpc EXCEPT ![t] = "idle"]
  /\ UNCHANGED <<mem, pools, producerVars, head, got, endVars, overrun>>

\* push(): there is room.
PushRoom(t) ==
  /\ cpc[t] = "push" /\ write_count_[t] + 1 # read_count_[t]
  /\ cpc' = [cpc EXCEPT ![t] = "reset"]
  /\ UNCHANGED <<live, mem, pools, producerVars, head, old, got, endVars, overrun>>

\* Variant: the buffer is recycled as it is.
Dirty(b) == mem[b]

Reset(b) == Fresh

\* _ptr->~node_buffer(); new (_ptr) node_buffer()
PushReset(t) ==
  /\ cpc[t] = "reset"
  /\ mem' = [mem EXCEPT ![old[t]] = Reset(old[t])]
  /\ cpc' = [cpc EXCEPT ![t] = "store"]
  /\ UNCHANGED <<live, pools, producerVars, head, old, got, endVars, overrun>>

\* items_[write_idx].ptr_ = _ptr
PushStore(t) ==
  /\ cpc[t] = "store"
  /\ items_' = [items_ EXCEPT ![t][write_count_[t]] = old[t]]
  /\ cpc' = [cpc EXCEPT ![t] = "advance"]
  /\ UNCHANGED <<live, mem, read_count_, write_count_, producerVars, head, old, got,
                 endVars, overrun>>

\* write_count_.store(...): if it meets read_count_, a full pool looks empty.
PushAdvance(t) ==
  /\ cpc[t] = "advance"
  /\ write_count_' = [write_count_ EXCEPT ![t] = After(@)]
  /\ overrun' = (overrun \/ After(write_count_[t]) = read_count_[t])
  /\ old' = [old EXCEPT ![t] = nullptr]
  /\ cpc' = [cpc EXCEPT ![t] = "idle"]
  /\ UNCHANGED <<live, mem, items_, read_count_, producerVars, head, got, endVars>>

-----------------------------------------------------------------------------
(* The destructor runs when the threads are done with the queue. *)

\* The buffers from b on, along next_.
Chain(b) == Reachable([c \in Buffers |-> mem[c].next_], nullptr, b)

\* Variant: drain stops at the last place.
PooledToTheEnd(t) == {k \in Places : read_count_[t] <= k /\ k < write_count_[t]}

\* The places of the pool that drain() visits.
Pooled(t) == {k \in Places :
                IF read_count_[t] <= write_count_[t]
                  THEN read_count_[t] <= k /\ k < write_count_[t]
                  ELSE read_count_[t] <= k \/ k < write_count_[t]}

PoolBuffers(t) == {items_[t][k] : k \in Pooled(t)}

\* Variant: the loop starts at the first node of the buffer.
UnreadFromStart(b) ==
  {mem[b].elements_[k] : k \in
     {k \in Nodes : \A j \in 0..k : mem[b].elements_[j] # kEmpty}}

\* The elements of buffer b the deconstructor is called on: the loop starts at
\* read_head_ and breaks at the first node that is not published.
Unread(b) ==
  {mem[b].elements_[k] : k \in
     {k \in Nodes : mem[b].read_head_ <= k /\
                    \A j \in mem[b].read_head_..k : mem[b].elements_[j] # kEmpty}}

Destroy ==
  /\ \A t \in Lanes : pc[t] = "idle" /\ cpc[t] = "idle"
  /\ ~destroyed /\ destroyed' = TRUE
  /\ deconstructed' = [t \in Lanes |-> UNION {Unread(b) : b \in Chain(head[t])}]
  /\ live' = live \ UNION {Chain(head[t]) \cup PoolBuffers(t) : t \in Lanes}
  /\ UNCHANGED <<mem, pools, producerVars, consumerVars, overrun>>

-----------------------------------------------------------------------------
Pop(t)  == PopNew(t) \/ PopFound(t) \/ PopTake(t) \/ PopAdvance(t)
Push(t) == PushFull(t) \/ PushRoom(t) \/ PushReset(t) \/ PushStore(t) \/ PushAdvance(t)

Producer(t) == EnqueueCall(t) \/ Pop(t) \/ Link(t) \/ Publish(t, sent[t])
Consumer(t) == Take(t) \/ Unlink(t) \/ Push(t)
Next == (\E t \in Lanes : Producer(t) \/ Consumer(t)) \/ Destroy

Spec == Init /\ [][Next]_vars

-----------------------------------------------------------------------------
(* Properties.  push lets a pool overrun when write_count_ is in its last    *)
(* place and read_count_ in the first (line 143 compares before it wraps):   *)
(* until that happens, the lane is what the queues need.                     *)

\* No pool has overrun.
BeforeOverrun == ~overrun

Contents ==
  [read_head_ : 0..BufferSize, next_ : Buffers \cup {nullptr},
   elements_ : [Nodes -> Nat \cup {kEmpty}], write_head_ : 0..BufferSize]

\* Every variable has its type, and the consumer is behind the producer.
TypeOK ==
  /\ live \in SUBSET Buffers
  /\ mem \in [Buffers -> Contents]
  /\ items_ \in [Lanes -> [Places -> Buffers \cup {nullptr}]]
  /\ read_count_ \in [Lanes -> Places] /\ write_count_ \in [Lanes -> Places]
  /\ tail \in [Lanes -> Buffers \cup {nullptr}] /\ buffer \in [Lanes -> Buffers]
  /\ popped \in [Lanes -> Buffers \cup {nullptr}]
  /\ pc \in [Lanes -> {"idle", "pop", "take", "advance", "link", "fill", "abort"}]
  /\ sent \in [Lanes -> 0..MaxItems]
  /\ head \in [Lanes -> Buffers \cup {nullptr}] /\ old \in [Lanes -> Buffers \cup {nullptr}]
  /\ cpc \in [Lanes -> {"idle", "unlink", "push", "reset", "store", "advance", "abort"}]
  /\ got \in [Lanes -> 0..MaxItems] /\ \A t \in Lanes : got[t] <= sent[t]
  /\ destroyed \in BOOLEAN /\ deconstructed \in [Lanes -> SUBSET Nat]
  /\ overrun \in BOOLEAN

\* Who holds the live buffers: lists, pools, producers between pop and Link, the
\* consumer between Unlink and the end of push.
ProducerHas(t) == IF pc[t] = "link" THEN {popped[t]} ELSE {}
ConsumerHas(t) == {old[t]} \ {nullptr}
Holdings(t)    == Chain(head[t]) \cup PoolBuffers(t) \cup ProducerHas(t) \cup ConsumerHas(t)

\* Every live buffer is in one place of one lane only, so that no thread resets,
\* recycles or deletes what another uses (lines 274-280, 324-335 and the pool,
\* 138-189).
OneOwner ==
  BeforeOverrun /\ ~destroyed =>
    /\ live = UNION {Holdings(t) : t \in Lanes}
    /\ \A t, u \in Lanes : t # u => Holdings(t) \cap Holdings(u) = {}
    /\ \A t \in Lanes :
         /\ Cardinality(Holdings(t)) = Cardinality(Chain(head[t])) + Cardinality(Pooled(t))
              + Cardinality(ProducerHas(t)) + Cardinality(ConsumerHas(t))
         /\ tail[t] \in Chain(head[t]) /\ (pc[t] # "idle" => buffer[t] \in Chain(head[t]))

\* What a scan finds at the head of a lane is the next element of the lane if
\* it is published, and kEmpty if not: the lane is an array of nodes.
HeadIsNext ==
  \A t \in Lanes : cpc[t] = "idle" /\ BeforeOverrun =>
    /\ head[t] # nullptr /\ InBuffer(t)
    /\ HeadCount(t) = IF got[t] < sent[t] THEN got[t] ELSE kEmpty

\* The destructor frees every buffer and hands every element that was not
\* dequeued to the deconstructor (lines 234-269).
DestroysAll ==
  destroyed /\ BeforeOverrun =>
    live = {} /\ \A t \in Lanes : deconstructed[t] = got[t]..(sent[t] - 1)

\* "The SPSC is a bounded ring buffer, and if it is full, the `Node` arrays are
\* de-allocated to prevent memory build up" (README.md): no buffer is ever
\* allocated and out of reach.
NothingLeaks ==
  ~destroyed =>
    live \subseteq UNION {Holdings(t) \cup (IF pc[t] = "advance" THEN {popped[t]} ELSE {})
                            : t \in Lanes}

\* The assertions of enqueue and dequeue (lines 279, 307 and 332) never fail.
AssertionsHold == \A t \in Lanes : pc[t] # "abort" /\ cpc[t] # "abort"
=============================================================================
