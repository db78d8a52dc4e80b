----------------------------- MODULE LinearQueue -----------------------------
(***************************************************************************)
(* What the queues of mpsc_zib promise: a linearizable FIFO queue with     *)
(* many producers and one consumer ("lock-less, wait-free and (yet to be   *)
(* proven formally) linearizable", README.md).                             *)
(*                                                                         *)
(* An element is named <<t, n>>: the n-th element thread t enqueues.  An   *)
(* operation has a call and a return.  With a single consumer, a history   *)
(* of a FIFO queue is linearizable exactly when                            *)
(*   - an element is dequeued at most once and only after its enqueue was  *)
(*     called,                                                             *)
(*   - an element is dequeued after every element whose enqueue had        *)
(*     returned before its own enqueue was called,                         *)
(*   - a dequeue reports "empty" only if, at some instant of the call, the *)
(*     elements of all the enqueues that had returned were dequeued.       *)
(* Enqueues return in order within a thread, so the elements that precede  *)
(* <<t, n>> are a vector: the number of returned enqueues of every thread. *)
(***************************************************************************)
EXTENDS Naturals

CONSTANTS Threads,   \* the producer threads
          MaxItems   \* bound: how many elements a thread enqueues at most

VARIABLES started,   \* started[t]: enqueues thread t has called
          done,      \* done[t]: enqueues of thread t that have returned
          taken,     \* taken[t]: elements of thread t that were dequeued
          before,    \* before[t][n]: what `done' was when <<t, n>> was called
          busy,      \* the consumer is inside dequeue
          atCall     \* what `done' was when that dequeue was called

vars == <<started, done, taken, before, busy, atCall>>

Zero == [t \in Threads |-> 0]

Init ==
  /\ started = Zero /\ done = Zero /\ taken = Zero
  /\ before = [t \in Threads |-> [n \in 0..MaxItems |-> Zero]]
  /\ busy = FALSE
  /\ atCall = Zero

EnqueueCall(t) ==
  /\ started[t] = done[t] /\ started[t] < MaxItems
  /\ before' = [before EXCEPT ![t][started[t]] = done]
  /\ started' = [started EXCEPT ![t] = @ + 1]
  /\ UNCHANGED <<done, taken, busy, atCall>>

EnqueueReturn(t) ==
  /\ done[t] < started[t]
  /\ done' = [done EXCEPT ![t] = @ + 1]
  /\ UNCHANGED <<started, taken, before, busy, atCall>>

DequeueCall ==
  /\ ~busy
  /\ busy' = TRUE
  /\ atCall' = done
  /\ UNCHANGED <<started, done, taken, before>>

\* dequeue returns the next element of thread t: everything that precedes it
\* has been dequeued.
DequeueItem(t) ==
  /\ busy /\ taken[t] < started[t]
  /\ \A u \in Threads : before[t][taken[t]][u] <= taken[u]
  /\ taken' = [taken EXCEPT ![t] = @ + 1]
  /\ busy' = FALSE
  /\ UNCHANGED <<started, done, before, atCall>>

\* dequeue returns nullopt.  `done' only grows and `taken' is constant during
\* the call, so the queue was empty at some instant of it iff at its start.
DequeueEmpty ==
  /\ busy
  /\ \A u \in Threads : atCall[u] <= taken[u]
  /\ busy' = FALSE
  /\ UNCHANGED <<started, done, taken, before, atCall>>

Next ==
  \/ \E t \in Threads : EnqueueCall(t) \/ EnqueueReturn(t) \/ DequeueItem(t)
  \/ DequeueCall
  \/ DequeueEmpty

Spec == Init /\ [][Next]_vars
=============================================================================
