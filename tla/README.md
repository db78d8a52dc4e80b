# A TLA+ verification of mpsc_zib

mpsc_zib is a set of unbounded multi-producer single-consumer queues in C++20
headers. Its README calls them "lock-less, wait-free and (yet to be proven
formally) linearizable". These modules say what that means, model the queues one
access to shared memory at a time, check them with TLC on small instances, and
prove with TLAPS, for any number of threads and elements, that `spin_mpsc_queue` and
`wait_mpsc_queue` are linearizable and what the two overflow queues promise
instead.

## The system

Source paths are relative to the repository's root.

| component | state | operations | hard because |
|---|---|---|---|
| lane: the list of `node_buffer`s of a producer (all four headers) | `heads_[t]`, `tails_[t]`, the buffers' `read_head_`, `write_head_`, `next_`, `elements_` | fill a node, switch to the next buffer; read a node, cut a buffer off | producer and consumer touch the same buffer; the next buffer has to be linked before the last node is published |
| `allocation_pool` (all four headers) | ring `items_`, `read_count_`, `write_count_` | `push` (consumer: reset and store a buffer, or delete it), `pop` (producer: take one, or `new`), `drain` (destructor) | a buffer passes between threads without a lock; a full ring and an empty one differ by a comparison |
| `spin_mpsc_queue` (`includes/zib/spin_mpsc_queue.hpp`) | `up_to_` | `enqueue`: load a ticket, publish, raise the counter if nobody has; `dequeue`: scan the heads until two scans end on the same lane, or return `nullopt` | tickets repeat; a scan is not a snapshot; producers publish behind it |
| `wait_mpsc_queue` (`includes/zib/wait_mpsc_queue.hpp`) | `up_to_`, `sleeping_`, `lowest_seen_` | `enqueue`: draw a unique ticket, publish, notify if the consumer sleeps; `dequeue`: scan, stop early at `lowest_seen_`, or announce and block on `up_to_` | tickets are published out of order; announcing, comparing and notifying race |
| `overflow_mpsc_queue` (`includes/zib/overflow_mpsc_queue.hpp`) | as the wait queue, and a list of `extra_node`s: `extra_head_`, `extra_tail_`, `next_` | `safe_enqueue`, `unsafe_enqueue`, `overflow_enqueue`, `enqueue`; `dequeue` looks at the list, then scans | the list is cut between the exchange of `extra_tail_` and the link; nodes are deleted while others append |
| `spin_overflow_mpsc_queue` (`includes/zib/spin_overflow_mpsc_queue.hpp`) | `up_to_` and the list | the same operations with the tickets and the `nullopt` of the spin queue | both of the above, with equal tickets in lanes and list |
| destructors | | hand every element that is left to the deconstructor, free the buffers, the pools, the list | must be right after any sequence of calls |
| reference queues (`benchmarks/multi_list.hpp`, `dmitry_mpsc.hpp`, `naive_queue.hpp`), benchmark driver, tests | | | used for comparison only |

Producers call `enqueue` with their own thread index, one consumer calls
`dequeue`; nothing else is shared. There are no callbacks, no timeouts and
nothing persistent. A producer may be delayed between any two instructions, or
for ever.

What makes each part correct:

* **lane and pool**: what a scan reads at the head of a lane is the next element
  of the lane if it is published and "empty" otherwise; a buffer is in one place
  of one lane at a time; a recycled buffer is as new; nothing leaks; no assertion
  fails; the destructor finds exactly what is left.
* **queues**: an element is dequeued after every element whose enqueue had
  returned before its own enqueue drew a ticket; `nullopt` means the queue was
  empty at some instant of the call; `dequeue` makes a bounded number of scans; an
  element whose enqueue has returned is dequeued even if other producers stop;
  a blocked consumer is woken.
* **list**: a node is deleted only when nobody will write to it; the list is cut
  only behind a thread that is still to link its node; elements of the list do not
  overtake elements enqueued before them; they do not disturb the order of the
  lanes; the destructor deletes every node.

## The modules

| module | models | lines of the code |
|---|---|---|
| `LinearQueue` | what a queue promises: linearizability with one consumer | (abstract) |
| `SpinQueue` | `enqueue` and `dequeue` of `spin_mpsc_queue` | 222-342 |
| `SpinQueueProofs` | theorems about `SpinQueue` | |
| `WaitQueue` | `enqueue` and `dequeue` of `wait_mpsc_queue` | 221-358 |
| `WaitQueueProofs` | theorems about `WaitQueue` | |
| `LinkedList` | what a loop along `next_` visits; used by `Lane` and `ExtraList` | overflow_mpsc_queue.hpp 288-294 |
| `LinkedListProofs` | theorems about it | |
| `Lane`, `MCLane` | the lanes and their pools in detail, construction to destruction | spin_mpsc_queue.hpp 105-342 |
| `LaneProofs` | theorems about `Lane` | |
| `WaitBuffers`, `MCWaitBuffers` | `wait_mpsc_queue` whole: `WaitQueue` and `Lane` composed | wait_mpsc_queue.hpp 138-358 |
| `WaitBuffersProofs` | theorems about `WaitBuffers` | |
| `ExtraList` | the list of `extra_node`s, construction to destruction | overflow_mpsc_queue.hpp 218-423 |
| `ExtraListProofs` | lemmas about every step of the list | |
| `OverflowQueue` | enqueues, `dequeue`, destructor of `overflow_mpsc_queue`: `WaitQueue` and `ExtraList` composed | 238-433 |
| `OverflowQueueProofs` | theorems about `OverflowQueue` | |
| `SpinOverflowQueue`, `MCSpinOverflowQueue` | the same of `spin_overflow_mpsc_queue`: `SpinQueue` and `ExtraList` composed | 239-426 |
| `SpinOverflowQueueProofs` | theorems about `SpinOverflowQueue` | |

**One action is one access to memory that another thread uses**, together with
the thread-local code around it: `LoadTicket`, `Publish`, `Recheck` and `Raise` of
`SpinQueue` are the load, the store, the load and the `fetch_add` of `enqueue`;
`ScanLane` is one turn of the `for` loop of `dequeue`; `ReturnMin` is what happens
once two scans agree. Between them any thread may run. Variables have the names
of the code. `pc` and `consumer` say where a thread is.

**Lanes are modelled twice.** `SpinQueue`, `WaitQueue` and the overflow queues see
the lane of thread t as an array of nodes `count_[t]`, in which `write_head_[t]` and
`read_head_[t]` count over the whole lane. `Lane` has the buffers, their addresses,
`new`, `delete`, the pools and the destructor, and its invariant `HeadIsNext` is
what the queue modules rely on. The four headers have the same text there, but for
one memory order; `Lane` is read off `spin_mpsc_queue.hpp`.

**`WaitBuffers` puts the two together** for `wait_mpsc_queue`. It has the variables
of `WaitQueue` and of `Lane` and instantiates both. `EnqueueCall`, `Pop` and `Link`
come before `DrawTicket`; `Publish` stores the ticket in a node; `ScanLane` loads the
head from the buffer; `ReturnMin` takes it, and `Unlink` and `Push` follow before the
next `dequeue`. The array `count_` is history there, and no guard reads it: that
the queue over buffers takes no step but those of `WaitQueue` (`Implements`) is a
property, so that what holds of `WaitQueue` holds of the header.

**The overflow queues are compositions too.** A step is one of `WaitQueue` (or
`SpinQueue`), instantiated for all threads, together with one of `ExtraList`, where
the code does both at once: `LinkExtra` publishes an element by storing `next_`,
`BeginDequeue`, `Rescan` and `Resume` start a turn in which the list is to be loaded
again. A thread beyond `_num_threads` draws its ticket as the others do and then
takes `Exchange` and `LinkExtra` instead of `Publish`. The steps that differ, the
loop over the lanes (which are fewer than the threads) and the return of an element
of the list, are written out.

**Elements have no payload.** The n-th element of thread t is `<<t, n>>`; its
place in the lane says which it is. What is compared is the ticket.

**History variables** record what a caller could know: `before[t][n]` is the
number of enqueues of each thread that had returned when `<<t, n>>` drew its
ticket, `atCall` the same when the running `dequeue` was called, `tried` the
lanes it gave up, `deleted` the `extra_node`s deleted, `overrun` that a pool has
gone wrong. No guard reads them.

**`LinearQueue`** has calls and returns, and lets `dequeue` return the next
element of thread t if everything that precedes it in real time is gone, or
"empty" if all that had returned when it was called is gone. With a single
consumer that is linearizability to a FIFO queue. Elements enqueued by
overlapping calls may come in either order.

**Names beginning a comment with "Variant"** are operators with a mistake put in
(a dropped comparison, a scan that starts at lane 1, a notification that is lost).
No specification uses them. Each replaces the definition after it to see the
property it is meant for fail. They are small, so that one of `WaitQueue` serves
`WaitBuffers` and `OverflowQueue` as well.

### Memory model

Steps interleave: the models are sequentially consistent. `acquire` and `release`
pairs publish the thread-local writes before them, which the grouping into actions
assumes. Not modelled are the weaker outcomes the language allows: in
`wait_mpsc_queue` the store to `sleeping_` and the load of `up_to_`, against the
`fetch_add` and the load of `sleeping_`; the relaxed load of `read_count_` in
`push` of the two waiting queues; and `load(memory_order_acq_rel)`, which is not a
valid order for a load.

## The checks

| run | instance | properties |
|---|---|---|
| `SpinQueue` | 2 producers, 2 elements each | `TypeOK`, `RealTimeOrder`, `EmptyMeansEmpty`, `BoundedScans`, `Linearizable`, `Delivered` |
| `WaitQueueTwo` | 2 producers, 2 elements each | `TypeOK`, `NoLostWakeup`, `Delivered`, `SleepsInOrder` |
| `WaitQueueThree` | 3 producers, 1 element each | `NothingBelowLowestSeen`, `Linearizable` |
| `Lane` | 1 lane, buffers of 2 nodes, pool of 3, 5 addresses, 12 elements | `TypeOK`, `OneOwner`, `HeadIsNext`, `DestroysAll` |
| `WaitBuffers` | 2 producers, 3 and 1 elements, buffers of 1 node, pools of 2, 6 addresses | `TypeOK`, `OneOwner`, `MinimumIsThere`, `DestroysAll`, `Implements` |
| `WaitBuffersLive` | 2 producers, 2 and 1 elements, buffers of 1 node, pools of 3, 6 addresses | `Delivered` |
| `OverflowQueue` | 1 lane, 2 threads without, 1 element each | `TypeOK`, `SafeReclaim`, `ListIntact`, `DestroysAll`, `ExtraInOrder`, `SeenIsDequeued`, `NoLostWakeup`, `DeliveredBounded`, `DeliveredExtra` |
| `SpinOverflowQueue` | 2 lanes, 2 threads without, any three of the four with 1 element each | `TypeOK`, `SafeReclaim`, `ListIntact`, `DestroysAll`, `ExtraInOrder`, `EmptyMeansEmpty`, `BoundedScans`, `DeliveredBounded`, `DeliveredExtra` |
| `WaitQueueBlocks` | 2 producers, 1 element each | `BlocksWhenEmpty` fails |
| `LaneLeak` | 1 lane, buffers of 1 node, pool of 2, 4 addresses, 7 elements | `NothingLeaks` fails |
| `LaneAsserts` | the same | `AssertionsHold` fails |
| `OverflowOrder` | 2 lanes, 1 thread without, 1 element each | `BoundedInOrder` fails |

What the properties say stands before each of them in its module. Briefly:

* `Linearizable` is `LQ!Spec`, the refinement of `LinearQueue` with
  `started <- Completed + 1 inside a call`, `done <- Completed`,
  `taken <- read_head_`, `busy <- the consumer is in dequeue`.
* `RealTimeOrder`, `EmptyMeansEmpty`, `ExtraInOrder`, `BoundedInOrder` compare the
  history with `read_head_`.
* `BoundedScans`: a dequeue never comes back to a minimum it gave up.
  With it `dequeue` makes at most `NumThreads + 2` scans.
* `NothingBelowLowestSeen`, `NoLostWakeup`, `SleepsInOrder`: what entitles the
  wait queue to its shortcuts and to block.
* `SeenIsDequeued`: the same for the overflow queue, where `lowest_seen_` may count
  a ticket that is not the one dequeued.
* `HeadIsNext`, `OneOwner`, `DestroysAll`: the lanes. In `WaitBuffers` they speak of
  all lanes and the memory they share.
* `Implements`, `MinimumIsThere`: the queue over buffers is the one over arrays, and
  what a scan compared is what dequeue takes.
* `SafeReclaim`, `ListIntact`: no thread will store through a deleted `extra_node`;
  every element of the list can be reached, from its head or from a node whose
  thread is still to link it, and nothing else can.
* `DestroysAll` of the list: every node is deleted, every element left goes to the
  deconstructor, and exactly one other does.
* `Delivered...`: an element whose enqueue has returned is dequeued.

**Bounds.** `MaxItems` bounds the enqueues of a thread. Two elements each let a
producer draw a second ticket after its own or another's raise and put an element
behind an unread head; three producers let a minimum of the wait queue be
superseded twice in one dequeue and leave gaps of two among its tickets.

Two threads without a lane, in `OverflowQueue` and `SpinOverflowQueue`, are needed for
a list that is cut with elements behind the cut, and for a node that is deleted while
another thread is still to link; two lanes and one thread without, for an `extra_node`
to come between two scans that disagree. `SpinOverflowQueue` has both: `ThreeCall` of
`MCSpinOverflowQueue` lets any three of the four threads call `enqueue`. The one that
does not is a thread without work, and the steps of the others and of the consumer are
all there.

In `Lane` the elements are enough for the pool to fill, wrap, empty and fill again with
each offset between its indices, and addresses are interchangeable (`SYMMETRY
Addresses`; no property of that run is temporal). In `WaitBuffers`, `Calls` gives each
producer its own bound: three elements in a lane of one-node buffers are the fewest
that push into a full pool while another lane allocates. Instead of the symmetry, the addresses are numbers
there and `LowestFirst` lets `new` return the lowest free one, which is no loss,
since addresses are only compared for equality and no step follows the address of a
buffer that is not live (`OneOwner`). `Buffers` bounds the addresses: `PopNew` waits when all are in use, and
`MaxItems` ends the run, and the destructor ends the program, which is why deadlock
is not checked where there is one. `SpinQueue` and `WaitQueue` never stop: the
consumer of an empty queue scans, sleeps or is about to be woken spuriously.

`CONSTRAINT BeforeOverrun` stops `Lane` and `WaitBuffers` where `push` has overrun a
pool (finding 1). What follows is not what the queue modules assume, and `LaneLeak`
and `LaneAsserts` show it without the constraint. In `WaitBuffersLive` the pools are
too large to overrun, so that liveness is checked with nothing cut off.

**Fairness** is `WF_vars(Consumer)`, nothing else: the program that owns the queue
calls `dequeue` again and again and the operating system runs its thread. In the
waiting queues `Consumer` is disabled while the thread is blocked, so only a
producer's `Notify` or a spurious wake-up lets it go on, and neither is promised.
Producers are never assumed to go on. `DeliveredExtra` alone has a premise about
them: an element of the list is cut off for as long as a thread in front of it
stays between its exchange and its link. Where the model has the destructor, an
element may be left to it: `Delivered...` then says "dequeued or destroyed".

## Findings

1. **The pool overruns** (`LaneLeak`, `LaneAsserts`; line 143 of
   `spin_mpsc_queue.hpp`, the same in the other headers). `push` compares
   `write_idx + 1` with `read_count_` before wrapping. With `read_count_` at 0 and
   `write_count_` in the last place the full pool is not recognised; the next
   `write_count_` is 0 too, and a full pool looks empty. Its buffers leak, against
   the README's "if it is full, the `Node` arrays are de-allocated". Going on from
   there, `pop` meets places that hold buffers already handed out, one buffer is
   used twice and `assert(heads_[i]->read_head_ < BufferSize)` fails. With the default sizes
   it needs 16 buffers of 4096 nodes read while the producer asks for none.
2. **The wait queue stops blocking** (`WaitQueueBlocks`; line 350 of
   `wait_mpsc_queue.hpp`). Once a ticket is dequeued before a lower one that was
   published late, `lowest_seen_` can no longer reach `up_to_`, and an empty queue
   is polled for ever, against "The wait queue will block when the queue is empty".
   `SleepsInOrder` is what holds instead.
3. **An element of the list confirms a lane** (`OverflowOrder`; line 363 of
   `overflow_mpsc_queue.hpp`, line 369 of `spin_overflow_mpsc_queue.hpp`). With the
   list's element as the lowest, `min_index = prev_index` makes the scan agree with
   the one before, and the head of that lane is returned unconfirmed, while an
   element of another lane that was enqueued earlier is still there. Elements of
   threads with lanes leave out of order; the README exempts the extra threads'
   elements only. In the waiting queue `lowest_seen_` then counts the ticket of the
   list's element, which is not the one dequeued; `NoLostWakeup` and the delivery
   properties hold all the same, and it never counts one too many before the consumer sleeps (`SeenIsDequeued`).

## The proofs

The constants are as general as the modules say: `NumThreads`, `NumExtra` and
`MaxItems` any natural numbers, 0 included (`SizeAssumption`), `kEmpty` anything
that is not a ticket (`EmptyAssumption`), and `nullptr`, `unloaded` and `dummy`
different from each other and from the nodes (`NullAssumption`). In `Lane` and
`WaitBuffers` the sizes of buffers and pools are any positive numbers and the addresses
any finite set (`AddressAssumption`; the loops over the list count its nodes).
`MaxItems` bounds nothing in these theorems: they hold for each value of it.

| theorem | states | spin | wait | overflow | spin_overflow |
|---|---|---|---|---|---|
| `Invariance` | `Spec => []IInv` | x | x | x | x |
| `TypeCorrect` | `Spec => []TypeOK` | x | x | x | x |
| `RealTimeOrdered` | `Spec => []RealTimeOrder` | x | | | |
| `EmptyIsEmpty` | `Spec => []EmptyMeansEmpty` | x | | | x |
| `ScansAreBounded` | `Spec => []BoundedScans` | x | | | x |
| `Refinement` | `Spec => Linearizable` | x | x | | |
| `LowestSeenIsSound` | `Spec => []NothingBelowLowestSeen` | | x | | |
| `WakeupsAreNotLost` | `Spec => []NoLostWakeup` | | x | x | |
| `SeenMeansDequeued` | `Spec => []SeenIsDequeued` | | | x | |
| `ListIsInOrder` | `Spec => []ExtraInOrder` | | | x | x |
| `NodesAreReclaimedSafely` | `Spec => []SafeReclaim` | | | x | x |
| `NoElementIsCutOff` | `Spec => []ListIntact` | | | x | x |
| `DestructorForgetsNothing` | `Spec => []DestroysAll` | | | x | x |

and of the lanes, until a pool overruns (`LaneProofs`):

| theorem | states |
|---|---|
| `Invariance` | `Spec => []IInv` |
| `TypeCorrect` | `Spec => [](BeforeOverrun => TypeOK)` |
| `HeadIsTheNextElement` | `Spec => []HeadIsNext` |
| `BuffersHaveOneOwner` | `Spec => []OneOwner` |
| `DestructorForgetsNothing` | `Spec => []DestroysAll` |
| `AssertionsHoldUntilOverrun` | `Spec => [](BeforeOverrun => AssertionsHold)` |

and of `wait_mpsc_queue` with its buffers, until a pool overruns (`WaitBuffersProofs`):

| theorem | states |
|---|---|
| `Invariance` | `Spec => []IInv` |
| `TypeCorrect` | `Spec => [](BeforeOverrun => TypeOK)` |
| `BuffersHaveOneOwner` | `Spec => []OneOwner` |
| `MinimumStaysThere` | `Spec => [](BeforeOverrun => MinimumIsThere)` |
| `DestructorForgetsNothing` | `Spec => []DestroysAll` |
| `AssertionsHoldUntilOverrun` | `Spec => [](BeforeOverrun => ...)`, with the assertion of the scan |
| `ImplementsWaitQueue` | `Spec /\ []BeforeOverrun => Implements` |
| `SafeAsWaitQueue` | `Spec => [](BeforeOverrun => NothingBelowLowestSeen /\ NoLostWakeup)` |
| `Linearizability` | `Spec /\ []BeforeOverrun => Linearizable` (of `WaitQueue`) |

The first are in the modules `SpinQueueProofs`, `WaitQueueProofs`, `OverflowQueueProofs`
and `SpinOverflowQueueProofs`. In each module, the property is not inductive and `IInv` is. A
proof has a lemma for each part of `IInv` and each side (`ProducerKeeps...`,
`ConsumerKeeps...`), with a case per action, and `NextKeepsIInv` puts them together.
Each `IInv` was first checked with TLC on the instances of the runs or smaller ones.

### spin_mpsc_queue

`IInv` adds three parts to the types:

* `Lanes`, about the producers. The nodes below `write_head_` are the published
  ones. A ticket is at most `up_to_` and, once its enqueue has returned, below it
  (`Tickets`): either that producer or another has raised the counter since. So a
  ticket drawn later is larger, and an element has a larger ticket than all that
  precede it in real time (`Order`).
* `Scan`, about the scan that is running. A published head stays until it is
  read. If lane `prev_index` had an element at its head when this scan began, all
  that precede it were published by then; those in lanes already scanned have
  been met, so the minimum is at most their ticket. When the scan ends on
  `prev_index` again, its ticket is that minimum, and by `Order` nothing precedes
  it (`MinIsNext`). The same for `atCall` if nothing was found.
* `GivenUp`. A scan that ends on another lane than `prev_index` ends on one with a
  lower ticket, or an equal one and a lower index. The lanes a dequeue gave up are
  behind it in that order, and their heads do not move, so none is the minimum
  again.

The refinement maps `LoadTicket` to the call of the abstract enqueue, the last step
of `enqueue` (`Recheck` or `Raise`) to its return, `BeginDequeue`, `ReturnMin` and
`ReturnEmpty` to the steps of the abstract dequeue, everything else to stuttering.

### wait_mpsc_queue

`Lanes` says here that tickets are below `up_to_` and that no two are equal
(`Unique`), and `Scan` is weaker, because a scan may end before it has seen all
lanes. What makes up for it is `NothingBelowLowestSeen`: an early end is on the
ticket `lowest_seen_`, and nothing below that is left. It is inductive only
because `ReturnMin` adds 1 to `lowest_seen_` when it takes that very ticket, and no
other thread can hold it.

For blocking, `Sleeping` ties `sleeping_` to the place of the consumer: it is set from
the announcement until the consumer goes on. With it `NoLostWakeup` is inductive.
The consumer falls asleep on `up_to_ = lowest_seen_`, and then no lane holds anything,
for its ticket would be between the two. A producer that publishes while the consumer
is asleep will load `sleeping_` as true, and its `notify_one` ends the sleep.

The refinement is that of the spin queue; `CheckUpTo`, `Announce`, `Wait` and the
wake-ups map to stuttering: the abstract dequeue simply takes longer.

### The list of extra_nodes

The destructor's loop is a recursive function in `LinkedList` (`Reachable`).
`LinkedListProofs` shows that it is the least set that has the first node and is
closed under `next_` (`ReachLeast`, `ReachClosed`). These are inductions over the
number of steps, done by least counterexample with the library's `WFMin`, since its
induction theorems take an operator as a parameter.

`ExtraListProofs` carries the argument for both queues. The nodes that were ever
exchanged into `extra_tail_` can be numbered f[0], f[1], ..., f[K] in that order, and
the consumer stands on one of them, f[h] (`ListOrder`):

* `Enumerates`: f[0] is the first dummy, f[K] is `extra_tail_`, each node is there
  once, those of one thread in the order of its calls;
* `Links`: `next_` of f[k] is f[k + 1], or null, and then exactly one thread, which is
  between exchange and store, holds f[k] in `old`;
* `HeadAt`: the nodes up to f[h] are dequeued, and those before it deleted.

`SwapKeepsList`, `LinkKeepsList`, `CutKeepsList` and `DestroyKeepsList` show each step
to keep it, with the same f or one node more; `OrderMakesSafe`,
`OrderMakesIntact` and `OrderMakesDestroyed` derive the properties from it. A node in
`old` has no successor yet, so the consumer has not passed it: that is why `delete`
is safe without any protocol between consumer and producers.

### overflow_mpsc_queue and spin_overflow_mpsc_queue

The steps of `enqueue` are those of `WaitQueue` and `SpinQueue` for all threads, so
their proofs are used again: `WP` and `SP` are instances of `WaitQueueProofs` and
`SpinQueueProofs`, whose lemmas about producers assume only the part of the types
that the producers are about. New in `IInv` are:

* `List`: there is a `ListOrder`, and the order of the list is one that `before`
  agrees with (`Precedes`: what had returned when a node's ticket was drawn comes
  before it). So all elements of the list that precede its next one are dequeued.
* `Scan`: what the minimum is if it is the ticket of the list. As long as a scan has
  `min_index = -2` and the list's ticket, the lanes it has passed hold
  nothing that precedes that element: it was published later, so what precedes
  it was there to be seen. That is why one scan is enough for the list
  (`ListIsInOrder`), where a lane needs two.
* `LanesNotBelow` and `Counted` (wait). With the list `lowest_seen_` can count a
  ticket that is still there, and `NothingBelowLowestSeen` fails; it holds of
  the lanes alone. What lets the consumer sleep is a count: `lowest_seen_` is at
  most the number of elements dequeued and `up_to_` is the number of tickets drawn.
  If they are equal, as many were dequeued as drawn, so all were (`SeenMeansDequeued`).
* `GivenUp` (spin). As in `SpinQueue`, except that a scan past lane `prev_index` may
  have `min_index = prev_index` with a smaller ticket, that of the list. The
  sequence of minima of a call is then still one that goes ahead in the order of
  tickets and lanes, after -2 and perhaps -1.
* `Nothing` (spin). A scan that has not found anything in the lanes passed has found
  them at `atCall`, and the list unreachable when the call began. `min_index = -1`
  can also come from the list (`min_index = prev_index = -1`), but then the scan
  before has found nothing.

`BoundedInOrder` is false (finding 3), so neither overflow queue refines
`LinearQueue`.

### The lanes

`HeadIsNext` speaks of one node. What it rests on is the whole of the lane: `IInv` says
that the buffers the producer has linked can be numbered f[0], ..., f[K], where an
address may come back once it has been recycled, and that (`LaneOrder`)

* `Chained`: those from f[h] on are the list between `heads_[t]` and `tails_[t]`;
* `Filled`: buffer j holds the elements from j * BufferSize on, as far as they are
  published, and its two heads are where producer and consumer have come to in it;
* `ProducerAt`, `ConsumerAt`: the next buffer is linked before the last node of the
  one before is published, so the consumer always finds one when it unlinks;
* `PoolAt`: the places between `read_count_` and `write_count_` hold different buffers,
  all as `node_buffer()` makes them;
* `Apart`: list, pool, and what producer and consumer hold on the way share nothing.

`Owned` adds that the lanes share nothing with each other. A lemma per action
(`LinkKeepsLane`, `UnlinkKeepsLane`, ...) shows it to keep the order of its lane, with
the same f, one buffer more or one less; `RingIs` is the arithmetic of the pool, and the
step that needs `BeforeOverrun` is `PushAdvance`: if `write_count_` came round to
`read_count_`, the pool would lose all it holds. `LaneFrame` shows the other lanes to
be as they were. The lemmas leave open what the elements are (v[n] is the n-th).
`BuffersHaveOneOwner` counts the parts of a lane with the library's theorems on
cardinalities. After an overrun nothing is proved: there the assertions do fail.

### wait_mpsc_queue over its buffers

`WaitBuffersProofs` instantiates `WaitQueueProofs` and `LaneProofs` (`WP`, `LP`) and
needs no new argument about either; `IInv` is their two invariants, with v[n] the
ticket `count_[t][n]` (`Elements`), and `Steps`, which says how the two programs of a
thread run into each other: a producer that has drawn its ticket has its buffer
(`lpc[t] = "fill"`), and has left the lane once it has published; while a dequeue
runs, none is unlinking or pushing. The last is what the scans rest on: `HeadsAgree`
shows that they load from the buffer what the array has there, and reads `ScanLane`
and `ReturnMin` as the steps of `WaitQueue` (`NextImplements`); every other step of
the queue is one already, or touches the lanes only (`LaneOnly`). For
the lanes, `Publish` appends a ticket (`PublishKeepsOrder`) and the others move one
lane or none. Linearizability follows by the refinement of `WaitQueue`
(`InitRefines`, `NextRefines`).

The two theorems about runs assume `[]BeforeOverrun`: after an overrun a scan may read
a buffer that is used twice, and the queue is not a `WaitQueue` any more. What is said
of states needs no such assumption on the rest of the run.

### Checked by TLC only

* All liveness (`Delivered`, `DeliveredBounded`, `DeliveredExtra`, `SleepsInOrder`), which
  rests on fairness and ENABLED, beyond what the proof system handles.

## Not modelled

* Weak memory, as above, and the alignment of the data.
* The composition of `Lane` with the three other queues: `HeadIsNext` is the
  interface, and `WaitBuffers` shows (and proves) for one of them that it is enough. Their text is
  the same in the places that matter, and no step of a lane reads a ticket.
* That an overflow queue without extra threads is the queue without overflow: its
  steps are then those of the instance, by the way the modules are written.
* The truncation of `kUnknown` to 16 bits in `enqueue` (65535 is a lane in a queue
  of 65536 threads), and tickets that reach 2^64 - 1.
* Exceptions (`new` failing terminates inside `noexcept`), payloads and their copies.
* The reference queues of the benchmark, its driver, the tests and the build. The
  tests are read as statements: a single thread sees FIFO order (a consequence of
  `RealTimeOrder`), and all elements of sixteen producers arrive (`Delivered`). The
  test of `spin_overflow_mpsc_queue` counts a `nullopt` as an element.

## Plan

In the order of importance; all are done.

1. `LinearQueue`, `SpinQueue` and its proofs: the algorithm all four queues vary.
2. `WaitQueue`: blocking, waking and `lowest_seen_`.
3. `Lane`: buffers, pool and destructor, the code all four headers share.
4. `OverflowQueue`, `SpinOverflowQueue`.
5. `ExtraList`: the list of `extra_node`s from constructor to destructor, shared by
   the two.
6. `WaitBuffers`: `Lane` composed with `WaitQueue` and shown to implement it.
7. Proofs of `WaitQueue`, `ExtraList`, `OverflowQueue`, `SpinOverflowQueue`.
8. Proofs of `Lane`: `HeadIsNext`, `OneOwner`, while no pool has overrun.
9. Proofs of `WaitBuffers` (`Implements`), with the lemmas of `LaneProofs` and
   `WaitQueueProofs`.
