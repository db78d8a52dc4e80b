------------------------------ MODULE ExtraList ------------------------------
(***************************************************************************)
(* The list of extra_nodes of overflow_mpsc_queue and                      *)
(* spin_overflow_mpsc_queue, which have the same text here (lines are      *)
(* those of the first).  Threads beyond _num_threads have no lane; they    *)
(* share a linked list (Dmitry Vyukov's queue), entered by exchanging      *)
(* extra_tail_ and linked from the node before in a second step.  The      *)
(* consumer stands on the node it dequeued last.                           *)
(*                                                                         *)
(* The n-th node of thread t is <<t, n>>, in its lane or in the list.      *)
(* This module has the list's part of the steps; the queue modules, which  *)
(* extend it, have the rest.                                               *)
(***************************************************************************)
EXTENDS LinkedList

CONSTANTS
  NumThreads,  \* _num_threads: the threads with a lane are 0..NumThreads-1
  NumExtra,    \* how many threads there are beyond them
  MaxItems,    \* bound: how many elements a thread enqueues at most
  kEmpty,      \* the count_ of a node that is not published
  nullptr,
  dummy,       \* the extra_node made by the constructor
  unloaded     \* what extra_next is in a turn of dequeue that has not set it

ASSUME SizeAssumption == NumThreads \in Nat /\ NumExtra \in Nat /\ MaxItems \in Nat
VARIABLES
  \* Of the queue.
  count_,       \* count_[t][n]: ticket of node <<t, n>>, or kEmpty
  write_head_,  \* index of the next node of thread t
  read_head_,   \* index of the next node to read of each thread
  \* Shared between the threads.
  next_,        \* the next_ of an extra_node
  extra_tail_,
  \* Thread t.
  old,          \* what t found in extra_tail_, until it has linked its node
  \* The consumer.
  extra_head_, extra_next,
  \* The end of the queue.
  destroyed,      \* ~queue() has run
  deconstructed,  \* the nodes whose data_ it passed to the deconstructor
  \* History, read by no action.
  deleted       \* the extra_nodes that were deleted

endVars  == <<destroyed, deconstructed>>
listVars == <<next_, extra_tail_, old, extra_head_, extra_next, endVars, deleted>>

Bounded  == 0..(NumThreads - 1)
Extra    == NumThreads..(NumThreads + NumExtra - 1)
Threads  == Bounded \cup Extra
Slots    == 0..MaxItems   \* the last one is never written
LoopOver == NumThreads + NumExtra

\* Where the for loop over the lanes goes on.
At(k) == IF k < NumThreads THEN k ELSE LoopOver

ExtraNodes == {dummy} \cup (Extra \X (0..(MaxItems - 1)))

\* The constructor's node is no other thread's, and null and unset are no nodes.
ASSUME NullAssumption ==
  /\ dummy \notin Threads \X Slots
  /\ nullptr \notin ExtraNodes /\ unloaded \notin ExtraNodes \cup {nullptr}

\* The node thread t is adding.
NewNode(t) == <<t, write_head_[t]>>

CountOf(x) == count_[x[1]][x[2]]

ListInit ==
  /\ next_ = [x \in ExtraNodes |-> nullptr]
  /\ extra_tail_ = dummy /\ extra_head_ = dummy
  /\ old = [t \in Extra |-> nullptr]
  /\ extra_next = unloaded
  /\ destroyed = FALSE /\ deconstructed = {}
  /\ deleted = {}

-----------------------------------------------------------------------------
(* overflow_enqueue *)

\* Variant: extra_tail_ is only read.
TailKept(t) == extra_tail_

TailNow(t) == NewNode(t)

\* old = extra_tail_.exchange(ptr)
Swap(t) ==
  /\ old[t] = nullptr
  /\ old' = [old EXCEPT ![t] = extra_tail_]
  /\ extra_tail_' = TailNow(t)
  /\ UNCHANGED <<next_, extra_head_, extra_next, endVars, deleted>>

\* Variant: the link goes the wrong way.
LinkedBack(t) == [next_ EXCEPT ![NewNode(t)] = old[t]]

Linked(t) == [next_ EXCEPT ![old[t]] = NewNode(t)]

\* old->next_.store(ptr)
LinkOld(t) ==
  /\ old[t] # nullptr
  /\ next_' = Linked(t)
  /\ old' = [old EXCEPT ![t] = nullptr]
  /\ UNCHANGED <<extra_tail_, extra_head_, extra_next, endVars, deleted>>

-----------------------------------------------------------------------------
(* dequeue *)

\* A new turn: extra_next is still to be loaded.
NewTurn ==
  /\ extra_next' = unloaded
  /\ UNCHANGED <<next_, extra_tail_, old, extra_head_, endVars, deleted>>

\* extra_next = extra_head_->next_.load()
LoadNext ==
  /\ extra_next = unloaded
  /\ extra_next' = next_[extra_head_]
  /\ UNCHANGED <<next_, extra_tail_, old, extra_head_, endVars, deleted>>

\* Variant: the node just read is deleted.
ReclaimedNext == extra_next

Reclaimed == extra_head_

\* tmp = extra_head_; extra_head_ = extra_next; data = extra_next->data_; delete tmp
CutHead ==
  /\ extra_head_' = extra_next
  /\ deleted' = deleted \cup {Reclaimed}
  /\ read_head_' = [read_head_ EXCEPT ![extra_next[1]] = @ + 1]
  /\ UNCHANGED <<next_, extra_tail_, old, extra_next, endVars>>

-----------------------------------------------------------------------------
(* The destructor *)

\* The nodes from x on, along next_.
Chain(x) == Reachable(next_, nullptr, x)

\* The nodes of threads T that are published and not dequeued.
Left(T) == {x \in T \X Slots : read_head_[x[1]] <= x[2] /\ x[2] < write_head_[x[1]]}

\* Variant: the walk starts behind the node the consumer stands on.
WalkedFromNext == Chain(next_[extra_head_])

Walked == Chain(extra_head_)

\* What is left in the lanes, then every node of the list, goes to the
\* deconstructor.
DestroyList ==
  /\ ~destroyed /\ destroyed' = TRUE
  /\ deconstructed' = Left(Bounded) \cup Walked
  /\ deleted' = deleted \cup Walked
  /\ extra_head_' = nullptr
  /\ UNCHANGED <<next_, extra_tail_, old, extra_next>>

-----------------------------------------------------------------------------
(* Properties *)

ListTypes ==
  /\ next_ \in [ExtraNodes -> ExtraNodes \cup {nullptr}]
  /\ extra_tail_ \in ExtraNodes /\ extra_head_ \in ExtraNodes \cup {nullptr}
  /\ old \in [Extra -> ExtraNodes \cup {nullptr}]
  /\ extra_next \in ExtraNodes \cup {nullptr, unloaded}
  /\ destroyed \in BOOLEAN /\ deconstructed \in SUBSET ((Threads \X Slots) \cup {dummy})
  /\ deleted \in SUBSET ExtraNodes

\* The threads between exchange and next_ (lines 335 and 336).
Linking == {t \in Extra : old[t] # nullptr}

\* No node that can still be used has been deleted (line 422): not the ones the
\* consumer reaches, nor the one a thread is about to store the next_ of.
SafeReclaim ==
  /\ ~destroyed => Chain(extra_head_) \cap deleted = {}
  /\ \A t \in Linking : old[t] \notin deleted

\* The list is cut only where a thread is still to link its node: from
\* extra_head_ and from the nodes of those threads one reaches the elements that
\* are not dequeued, and no others (lines 330-339 and 417-422).
ListIntact ==
  ~destroyed =>
    Chain(extra_head_) \cup UNION {Chain(NewNode(t)) : t \in Linking}
      = {extra_head_} \cup Left(Extra) \cup {NewNode(t) : t \in Linking}

\* The destructor (lines 252-295) deletes every node of the list once and calls
\* the deconstructor on every element that was not dequeued, and on one more: that
\* of the node at the head, which never had one or has handed it out already.
DestroysAll ==
  destroyed =>
    /\ deleted = {dummy} \cup {x \in Extra \X Slots : x[2] < write_head_[x[1]]}
    /\ \E x \in deleted \ Left(Threads) : deconstructed = Left(Threads) \cup {x}
=============================================================================
