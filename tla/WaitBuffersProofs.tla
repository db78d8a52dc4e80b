-------------------------- MODULE WaitBuffersProofs --------------------------
(***************************************************************************)
(* Proofs about WaitBuffers: wait_mpsc_queue over its buffers implements   *)
(* WaitQueue, whose lanes are arrays, until a pool overruns.  The          *)
(* inductive invariants of WaitQueue and of Lane are put together: the     *)
(* n-th element of lane t is the ticket count_[t][n].  What they need of   *)
(* each other is that an enqueue has its buffer before it draws its        *)
(* ticket, and that no dequeue begins while one unlinks or pushes.         *)
(***************************************************************************)
EXTENDS WaitBuffers, TLAPS

WP == INSTANCE WaitQueueProofs
LP == INSTANCE LaneProofs WITH
        Lanes <- Threads, pc <- lpc, sent <- write_head_, got <- read_head_

\* The elements of lane t.
Elements(t) == [n \in Nat |-> IF n < write_head_[t] THEN count_[t][n] ELSE 0]

\* The buffers of lane t, with these elements.
InOrder(t, v) == \E K, h, f : LP!LaneOrder(t, K, h, f, v)

\* Where the threads are in the lanes and in the queue.
Steps ==
  /\ \A t \in Threads :
       /\ pc[t] = "drawn" => lpc[t] = "fill"
       /\ pc[t] \in {"published", "notify"} => lpc[t] = "idle"
       /\ consumer # "idle" => cpc[t] = "idle"
  /\ destroyed =>
       consumer = "idle" /\ \A t \in Threads : pc[t] = "idle" /\ lpc[t] = "idle" /\ cpc[t] = "idle"

\* Until a pool overruns.
IInv ==
  BeforeOverrun =>
    /\ WP!IInv
    /\ LP!TypeOK /\ LP!Owned /\ \A t \in Threads : InOrder(t, Elements(t))
    /\ Steps /\ DestroysAll

-----------------------------------------------------------------------------
(* The two instances of each module say the same. *)

\* The constants are such as the modules ask for.
LEMMA ConstantsFit ==
  /\ NumThreads \in Nat /\ MaxItems \in Nat /\ kEmpty \notin Nat
  /\ BufferSize \in Nat \ {0} /\ AllocationSize \in Nat \ {0}
  /\ nullptr \notin Buffers /\ LP!IsFiniteSet(Buffers)
BY SizeAssumption, AddressAssumption DEF LP!IsFiniteSet, IsFiniteSet

\* The steps of WaitQueue,
LEMMA SameQueueSteps ==
  /\ W!Threads = Threads /\ WP!Threads = Threads
  /\ W!Init <=> WP!Init
  /\ \A t \in Threads : /\ W!DrawTicket(t) <=> WP!DrawTicket(t)
                        /\ W!Publish(t) <=> WP!Publish(t)
                        /\ W!LoadSleeping(t) <=> WP!LoadSleeping(t)
                        /\ W!Notify(t) <=> WP!Notify(t)
  /\ W!BeginDequeue <=> WP!BeginDequeue
  /\ W!ScanLane <=> WP!ScanLane
  /\ W!Rescan <=> WP!Rescan
  /\ W!CheckUpTo <=> WP!CheckUpTo
  /\ W!Announce <=> WP!Announce
  /\ W!Wait <=> WP!Wait
  /\ W!SpuriousWake <=> WP!SpuriousWake
  /\ W!Resume <=> WP!Resume
  /\ W!ReturnMin <=> WP!ReturnMin
  /\ W!vars = WP!vars
  /\ W!TypeOK <=> WP!TypeOK
<1> USE DEF W!vars, WP!vars, W!producerVars, WP!producerVars, W!consumerVars, WP!consumerVars,
            W!scanVars, WP!scanVars, W!Threads, WP!Threads, Threads, W!Slots, WP!Slots,
            W!Zero, WP!Zero, W!Completed, WP!Completed, W!NewScan, WP!NewScan,
            W!Earlier, WP!Earlier, W!HeadCount, WP!HeadCount, W!Inspect, WP!Inspect,
            W!ScanOver, WP!ScanOver, W!Confirmed, WP!Confirmed
<1>1. /\ W!Threads = Threads /\ WP!Threads = Threads
      /\ W!Init <=> WP!Init
  BY DEF W!Init, WP!Init
<1>2. \A t \in Threads : W!DrawTicket(t) <=> WP!DrawTicket(t)
  BY DEF W!DrawTicket, WP!DrawTicket
<1>3. \A t \in Threads : W!Publish(t) <=> WP!Publish(t)
  BY DEF W!Publish, WP!Publish
<1>4. \A t \in Threads : W!LoadSleeping(t) <=> WP!LoadSleeping(t)
  BY DEF W!LoadSleeping, WP!LoadSleeping
<1>5. \A t \in Threads : W!Notify(t) <=> WP!Notify(t)
  BY DEF W!Notify, WP!Notify, W!Notified, WP!Notified
<1>6. W!BeginDequeue <=> WP!BeginDequeue
  BY DEF W!BeginDequeue, WP!BeginDequeue
<1>7. W!ScanLane <=> WP!ScanLane
  BY DEF W!ScanLane, WP!ScanLane
<1>8. W!Rescan <=> WP!Rescan
  BY DEF W!Rescan, WP!Rescan
<1>9. W!CheckUpTo <=> WP!CheckUpTo
  BY DEF W!CheckUpTo, WP!CheckUpTo, W!UsedUp, WP!UsedUp
<1>10. W!Announce <=> WP!Announce
  BY DEF W!Announce, WP!Announce
<1>11. W!Wait <=> WP!Wait
  BY DEF W!Wait, WP!Wait, W!Blocks, WP!Blocks
<1>12. W!SpuriousWake <=> WP!SpuriousWake
  BY DEF W!SpuriousWake, WP!SpuriousWake
<1>13. W!Resume <=> WP!Resume
  BY DEF W!Resume, WP!Resume
<1>14. W!ReturnMin <=> WP!ReturnMin
  BY DEF W!ReturnMin, WP!ReturnMin, W!SeenNow, WP!SeenNow
<1>15. W!vars = WP!vars
  OBVIOUS
<1>16. W!TypeOK <=> WP!TypeOK
  BY DEF W!TypeOK, WP!TypeOK, W!ProducerTypes, WP!ProducerTypes, W!ConsumerTypes,
         WP!ConsumerTypes, W!HistoryTypes, WP!HistoryTypes
<1> QED
  BY <1>1, <1>2, <1>3, <1>4, <1>5, <1>6, <1>7, <1>8, <1>9, <1>10, <1>11, <1>12, <1>13, <1>14,
     <1>15, <1>16

\* and those of Lane.
LEMMA SameLaneSteps ==
  /\ L!Init <=> LP!Init
  /\ \A t \in Threads : /\ L!EnqueueCall(t) <=> LP!EnqueueCall(t)
                        /\ L!Pop(t) <=> LP!Pop(t)
                        /\ L!Link(t) <=> LP!Link(t)
                        /\ L!Publish(t, cur[t]) <=> LP!Publish(t, cur[t])
                        /\ L!Take(t) <=> LP!Take(t)
                        /\ L!Unlink(t) <=> LP!Unlink(t)
                        /\ L!Push(t) <=> LP!Push(t)
                        /\ L!InBuffer(t) <=> LP!InBuffer(t)
                        /\ L!HeadCount(t) = LP!HeadCount(t)
  /\ L!Destroy <=> LP!Destroy
  /\ L!TypeOK <=> LP!TypeOK
  /\ L!OneOwner <=> LP!OneOwner
<1> USE DEF L!pools, LP!pools, L!producerVars, LP!producerVars, L!consumerVars, LP!consumerVars,
            L!endVars, LP!endVars, L!Nodes, LP!Nodes, L!Places, LP!Places, L!Fresh, LP!Fresh,
            L!After, LP!After
<1>1. L!Init <=> LP!Init
  BY DEF L!Init, LP!Init, L!Each, LP!Each
<1>2. \A t \in Threads : L!EnqueueCall(t) <=> LP!EnqueueCall(t)
  BY DEF L!EnqueueCall, LP!EnqueueCall, L!Switches, LP!Switches
<1>3. \A t \in Threads : L!Pop(t) <=> LP!Pop(t)
  BY DEF L!Pop, LP!Pop, L!PopNew, LP!PopNew, L!PopFound, LP!PopFound, L!PopTake, LP!PopTake,
         L!PopAdvance, LP!PopAdvance, L!ReadNext, LP!ReadNext
<1>4. \A t \in Threads : L!Link(t) <=> LP!Link(t)
  BY DEF L!Link, LP!Link
<1>5. \A t \in Threads : L!Publish(t, cur[t]) <=> LP!Publish(t, cur[t])
  BY DEF L!Publish, LP!Publish
<1>6. \A t \in Threads : /\ L!InBuffer(t) <=> LP!InBuffer(t)
                         /\ L!HeadCount(t) = LP!HeadCount(t)
  BY DEF L!InBuffer, LP!InBuffer, L!HeadCount, LP!HeadCount
<1>7. \A t \in Threads : L!Take(t) <=> LP!Take(t)
  BY DEF L!Take, LP!Take, L!InBuffer, LP!InBuffer, L!HeadCount, LP!HeadCount
<1>8. \A t \in Threads : L!Unlink(t) <=> LP!Unlink(t)
  BY DEF L!Unlink, LP!Unlink
<1>9. \A t \in Threads : L!Push(t) <=> LP!Push(t)
  BY DEF L!Push, LP!Push, L!PushFull, LP!PushFull, L!PushRoom, LP!PushRoom, L!PushReset,
         LP!PushReset, L!Reset, LP!Reset, L!PushStore, LP!PushStore, L!PushAdvance, LP!PushAdvance
<1>10. \A b : L!Chain(b) = LP!Chain(b)
  BY DEF L!Chain, LP!Chain, L!Reachable, LP!Reachable, L!Cardinality, LP!Cardinality
<1>11. \A t : L!PoolBuffers(t) = LP!PoolBuffers(t) /\ L!Pooled(t) = LP!Pooled(t)
  BY DEF L!PoolBuffers, LP!PoolBuffers, L!Pooled, LP!Pooled
<1>12. L!Destroy <=> LP!Destroy
  BY <1>10, <1>11 DEF L!Destroy, LP!Destroy, L!Unread, LP!Unread
<1>13. L!TypeOK <=> LP!TypeOK
  BY DEF L!TypeOK, LP!TypeOK, L!Contents, LP!Contents
<1>14. L!OneOwner <=> LP!OneOwner
  <2>1. \A S : L!Cardinality(S) = LP!Cardinality(S)
    BY DEF L!Cardinality, LP!Cardinality
  <2>2. \A t : L!ProducerHas(t) = LP!ProducerHas(t) /\ L!ConsumerHas(t) = LP!ConsumerHas(t)
    BY DEF L!ProducerHas, LP!ProducerHas, L!ConsumerHas, LP!ConsumerHas
  <2>3. \A t : L!Holdings(t) = LP!Holdings(t)
    BY <1>10, <1>11, <2>2 DEF L!Holdings, LP!Holdings
  <2> QED
    BY <1>10, <1>11, <2>1, <2>2, <2>3 DEF L!OneOwner, LP!OneOwner, L!BeforeOverrun, LP!BeforeOverrun
<1> QED
  BY <1>1, <1>2, <1>3, <1>4, <1>5, <1>6, <1>7, <1>8, <1>9, <1>12, <1>13, <1>14

-----------------------------------------------------------------------------
(* The queue sees arrays. *)

\* What a scan finds in the buffer at the head of a lane is what the array has there.
LEMMA HeadsAgree ==
  ASSUME WP!TypeOK, WP!Lanes, LP!TypeOK, NEW t \in Threads, InOrder(t, Elements(t)),
         cpc[t] = "idle"
  PROVE  L!InBuffer(t) /\ L!HeadCount(t) = W!HeadCount(t)
<1>1. PICK K, h, f, v : LP!LaneOrder(t, K, h, f, v) /\ v = Elements(t)
  BY DEF InOrder
<1>2. /\ LP!InBuffer(t)
      /\ LP!HeadCount(t) = IF read_head_[t] < write_head_[t] THEN v[read_head_[t]] ELSE kEmpty
  BY <1>1, ConstantsFit, LP!HeadBuffer
<1>3. /\ WP!HeadCount(t) # kEmpty <=> read_head_[t] < write_head_[t]
      /\ read_head_[t] \in Nat
  BY ConstantsFit, SameQueueSteps, WP!HeadPublished DEF WP!TypeOK, WP!ConsumerTypes
<1>4. read_head_[t] < write_head_[t] => v[read_head_[t]] = count_[t][read_head_[t]]
  BY <1>1, <1>3 DEF Elements
<1> QED
  BY <1>2, <1>3, <1>4, SameLaneSteps DEF WP!HeadCount, W!HeadCount

\* Linking and recycling buffers is nothing to the queue.
LEMMA LaneOnly ==
  ASSUME NEW t \in Threads,
         EnqueueCall(t) \/ Pop(t) \/ Link(t) \/ Unlink(t) \/ Push(t)
  PROVE  UNCHANGED WP!vars
<1> USE DEF waitVars, WP!vars, WP!producerVars, WP!consumerVars, WP!scanVars,
            L!producerVars, L!consumerVars
<1>1. CASE EnqueueCall(t)
  BY <1>1 DEF EnqueueCall, L!EnqueueCall
<1>2. CASE Pop(t)
  BY <1>2 DEF Pop, L!Pop, L!PopNew, L!PopFound, L!PopTake, L!PopAdvance
<1>3. CASE Link(t)
  BY <1>3 DEF Link, L!Link
<1>4. CASE Unlink(t)
  BY <1>4 DEF Unlink, L!Unlink
<1>5. CASE Push(t)
  BY <1>5 DEF Push, L!Push, L!PushFull, L!PushRoom, L!PushReset, L!PushStore, L!PushAdvance
<1> QED
  BY <1>1, <1>2, <1>3, <1>4, <1>5

\* A turn of the loop over the lanes is one of the loop over the arrays.
LEMMA ScansAgree ==
  ASSUME IInv, ~overrun, ScanLane
  PROVE  WP!ScanLane
<1>1. /\ WP!TypeOK /\ WP!Lanes /\ LP!TypeOK /\ Steps
      /\ \A t \in Threads : InOrder(t, Elements(t))
  BY DEF IInv, BeforeOverrun, WP!IInv
<1>2. /\ consumer = "scan" /\ i < NumThreads
      /\ W!Inspect(L!HeadCount(i), i + 1)
      /\ UNCHANGED <<up_to_, sleeping_, count_, write_head_, pc, cur, read_head_,
                     lowest_seen_, consumer, before, atCall>>
  BY DEF ScanLane
<1>3. i \in Threads
  BY <1>1, <1>2, ConstantsFit DEF WP!TypeOK, WP!ConsumerTypes, Threads
<1>4. cpc[i] = "idle"
  BY <1>1, <1>2, <1>3 DEF Steps
<1>5. L!HeadCount(i) = W!HeadCount(i)
  BY <1>1, <1>3, <1>4, HeadsAgree
<1>6. W!ScanLane
  BY <1>2, <1>5 DEF W!ScanLane, W!producerVars
<1> QED
  BY <1>6, SameQueueSteps

\* Every step is one of WaitQueue, or is nothing to it.
LEMMA NextImplements ==
  ASSUME IInv, ~overrun, [Next]_vars
  PROVE  [WP!Next]_(WP!vars)
<1>1. CASE \E t \in Threads : Producer(t)
  <2>1. PICK t \in Threads : Producer(t)
    BY <1>1
  <2>2. CASE EnqueueCall(t) \/ Pop(t) \/ Link(t)
    BY <2>2, LaneOnly
  <2>3. CASE DrawTicket(t) \/ Publish(t) \/ LoadSleeping(t) \/ Notify(t)
    <3>1. WP!Producer(t)
      BY <2>3, SameQueueSteps DEF DrawTicket, Publish, LoadSleeping, Notify, WP!Producer
    <3> QED
      BY <3>1, SameQueueSteps DEF WP!Next
  <2> QED
    BY <2>1, <2>2, <2>3 DEF Producer
<1>2. CASE \E t \in Threads : Unlink(t) \/ Push(t)
  BY <1>2, LaneOnly
<1>3. CASE Destroy
  BY <1>3 DEF Destroy, L!Destroy, waitVars, WP!vars, WP!producerVars, WP!consumerVars, WP!scanVars,
              L!producerVars, L!consumerVars
<1>4. CASE ScanLane
  BY <1>4, ScansAgree DEF WP!Next, WP!Consumer
<1>5. CASE BeginDequeue \/ Rescan \/ ReturnMin \/ CheckUpTo \/ Announce \/ Wait \/ Resume
  BY <1>5, SameQueueSteps DEF BeginDequeue, Rescan, ReturnMin, CheckUpTo, Announce, Wait, Resume,
     WP!Next, WP!Consumer
<1>6. CASE SpuriousWake
  BY <1>6, SameQueueSteps DEF SpuriousWake, WP!Next
<1>7. CASE UNCHANGED vars
  BY <1>7 DEF vars, waitVars, WP!vars, WP!producerVars, WP!consumerVars, WP!scanVars
<1> QED
  BY <1>1, <1>2, <1>3, <1>4, <1>5, <1>6, <1>7 DEF Next, Consumer

-----------------------------------------------------------------------------
(* Where the threads are. *)

\* The variables that say it.
LEMMA PlacesOf ==
  ASSUME IInv, ~overrun
  PROVE  /\ pc \in [Threads -> {"idle", "drawn", "published", "notify"}]
         /\ lpc \in [Threads -> {"idle", "pop", "take", "advance", "link", "fill", "abort"}]
         /\ cpc \in [Threads -> {"idle", "unlink", "push", "reset", "store", "advance", "abort"}]
         /\ write_head_ \in [Threads -> Nat] /\ read_head_ \in [Threads -> Nat]
         /\ cur \in [Threads -> Nat] /\ Steps
<1>1. WP!TypeOK /\ LP!TypeOK /\ Steps
  BY DEF IInv, BeforeOverrun, WP!IInv
<1>2. write_head_ \in [Threads -> 0..MaxItems] /\ read_head_ \in [Threads -> 0..MaxItems]
  BY <1>1 DEF LP!TypeOK
<1>3. 0..MaxItems \in SUBSET Nat
  BY ConstantsFit
<1> QED
  BY <1>1, <1>2, <1>3, SameQueueSteps DEF WP!TypeOK, WP!ProducerTypes, LP!TypeOK

\* No call is made or goes on after the destructor.
LEMMA QueueIsOpen ==
  ASSUME IInv, ~overrun, (\E t \in Threads : Producer(t)) \/ Consumer \/ SpuriousWake
  PROVE  ~destroyed /\ ~destroyed'
<1>1. Steps /\ destroyed \in BOOLEAN
  BY DEF IInv, BeforeOverrun, LP!TypeOK
<1> USE DEF Steps, laneVars
<1>2. CASE \E t \in Threads : Producer(t)
  <2>1. PICK t \in Threads : Producer(t)
    BY <1>2
  <2>2. CASE EnqueueCall(t) \/ Pop(t) \/ Link(t)
    BY <1>1, <2>2 DEF EnqueueCall, L!EnqueueCall, Pop, L!Pop, L!PopNew, L!PopFound, L!PopTake,
       L!PopAdvance, Link, L!Link, L!endVars
  <2>3. CASE DrawTicket(t) \/ Publish(t)
    BY <1>1, <2>3 DEF DrawTicket, Publish, W!Publish, L!Publish, L!endVars
  <2>4. CASE LoadSleeping(t) \/ Notify(t)
    BY <1>1, <2>4 DEF LoadSleeping, W!LoadSleeping, Notify, W!Notify
  <2> QED
    BY <2>1, <2>2, <2>3, <2>4 DEF Producer
<1>3. CASE \E t \in Threads : Unlink(t) \/ Push(t)
  BY <1>1, <1>3 DEF Unlink, L!Unlink, Push, L!Push, L!PushFull, L!PushRoom, L!PushReset,
     L!PushStore, L!PushAdvance, L!endVars
<1>4. CASE BeginDequeue \/ ScanLane \/ Rescan \/ CheckUpTo
  BY <1>1, <1>4 DEF BeginDequeue, ScanLane, Rescan, CheckUpTo, W!Rescan, W!CheckUpTo, W!ScanOver
<1>5. CASE Announce \/ Wait \/ Resume \/ SpuriousWake
  BY <1>1, <1>5 DEF Announce, Wait, Resume, SpuriousWake, W!Announce, W!Wait, W!Resume,
     W!SpuriousWake
<1>6. CASE ReturnMin
  BY <1>1, <1>6 DEF ReturnMin, W!ReturnMin, W!ScanOver, L!Take, L!endVars
<1> QED
  BY <1>2, <1>3, <1>4, <1>5, <1>6 DEF Consumer

\* A step of a producer keeps the threads in their places,
LEMMA ProducerKeepsSteps ==
  ASSUME IInv, ~overrun, NEW t \in Threads, Producer(t)
  PROVE  Steps'
<1> USE PlacesOf DEF Steps
<1>1. ~destroyed'
  BY QueueIsOpen
<1>2. CASE EnqueueCall(t)
  BY <1>1, <1>2 DEF EnqueueCall, L!EnqueueCall, L!consumerVars, waitVars
<1>3. CASE Pop(t)
  BY <1>1, <1>3 DEF Pop, L!Pop, L!PopNew, L!PopFound, L!PopTake, L!PopAdvance, L!consumerVars,
     waitVars
<1>4. CASE Link(t)
  BY <1>1, <1>4 DEF Link, L!Link, L!consumerVars, waitVars
<1>5. CASE DrawTicket(t)
  BY <1>1, <1>5 DEF DrawTicket, W!DrawTicket, W!consumerVars, laneVars
<1>6. CASE Publish(t)
  BY <1>1, <1>6 DEF Publish, W!Publish, L!Publish, W!consumerVars, L!consumerVars
<1>7. CASE LoadSleeping(t)
  BY <1>1, <1>7 DEF LoadSleeping, W!LoadSleeping, W!consumerVars, laneVars
<1>8. CASE Notify(t)
  BY <1>1, <1>8 DEF Notify, W!Notify, W!Notified, laneVars
<1> QED
  BY <1>2, <1>3, <1>4, <1>5, <1>6, <1>7, <1>8 DEF Producer

\* as does one of the consumer: no dequeue begins before the last has recycled its buffer.
LEMMA ConsumerKeepsSteps ==
  ASSUME IInv, ~overrun, Consumer \/ SpuriousWake
  PROVE  Steps'
<1> USE PlacesOf DEF Steps
<1>1. ~destroyed'
  BY QueueIsOpen
<1>2. CASE \E t \in Threads : Unlink(t) \/ Push(t)
  <2>1. PICK t \in Threads : Unlink(t) \/ Push(t)
    BY <1>2
  <2>2. CASE Unlink(t)
    BY <1>1, <2>2 DEF Unlink, L!Unlink, L!producerVars, waitVars
  <2>3. CASE Push(t)
    BY <1>1, <2>3 DEF Push, L!Push, L!PushFull, L!PushRoom, L!PushReset, L!PushStore, L!PushAdvance,
       L!producerVars, waitVars
  <2> QED
    BY <2>1, <2>2, <2>3
<1>3. CASE BeginDequeue
  BY <1>1, <1>3 DEF BeginDequeue, W!BeginDequeue, W!producerVars, laneVars
<1>4. CASE ScanLane
  BY <1>1, <1>4 DEF ScanLane, laneVars
<1>5. CASE Rescan \/ CheckUpTo
  BY <1>1, <1>5 DEF Rescan, CheckUpTo, W!Rescan, W!CheckUpTo, W!ScanOver, W!producerVars, laneVars
<1>6. CASE Announce \/ Wait
  BY <1>1, <1>6 DEF Announce, Wait, W!Announce, W!Wait, W!producerVars, laneVars
<1>7. CASE Resume \/ SpuriousWake
  BY <1>1, <1>7 DEF Resume, SpuriousWake, W!Resume, W!SpuriousWake, W!producerVars, laneVars
<1>8. CASE ReturnMin
  BY <1>1, <1>8 DEF ReturnMin, W!ReturnMin, L!Take, W!producerVars, L!producerVars
<1> QED
  BY <1>2, <1>3, <1>4, <1>5, <1>6, <1>7, <1>8 DEF Consumer

-----------------------------------------------------------------------------
(* The buffers stay in order. *)

\* The elements of a lane are tickets,
LEMMA ElementsType ==
  ASSUME WP!TypeOK, WP!Lanes, NEW t \in Threads
  PROVE  /\ Elements(t) \in [Nat -> Nat]
         /\ \A n \in Nat : n < write_head_[t] => Elements(t)[n] = count_[t][n]
<1>1. ASSUME NEW n \in Nat, n < write_head_[t]
      PROVE  count_[t][n] \in Nat
  <2>1. write_head_[t] \in 0..MaxItems /\ count_[t] \in [0..MaxItems -> Nat \cup {kEmpty}]
    BY SameQueueSteps DEF WP!TypeOK, WP!ProducerTypes, WP!Slots
  <2>2. n \in 0..MaxItems
    BY <1>1, <2>1, ConstantsFit
  <2>3. count_[t][n] # kEmpty
    BY <1>1, <2>2, SameQueueSteps DEF WP!Lanes, WP!Published, WP!Slots
  <2> QED
    BY <2>1, <2>2, <2>3
<1> QED
  BY <1>1 DEF Elements

\* and stay what they are unless one is published there.
LEMMA ElementsStay ==
  ASSUME NEW t \in Threads, write_head_'[t] = write_head_[t], count_'[t] = count_[t]
  PROVE  Elements(t)' = Elements(t)
BY DEF Elements

\* A step of lane t other than Publish keeps the lanes in order,
LEMMA MoveKeepsLanes ==
  ASSUME IInv, ~overrun, ~overrun', ~destroyed, NEW t \in Threads,
         LP!EnqueueCall(t) \/ LP!Pop(t) \/ LP!Link(t) \/ LP!Consumer(t),
         UNCHANGED <<count_, write_head_>>
  PROVE  LP!TypeOK' /\ LP!Owned' /\ \A u \in Threads : InOrder(u, Elements(u))'
<1>1. /\ LP!TypeOK /\ LP!Owned
      /\ \A u \in Threads : InOrder(u, Elements(u))
  BY DEF IInv, BeforeOverrun
<1>2. PICK e, value : e = [u \in Threads |-> Elements(u)] /\ value = 0
  OBVIOUS
<1>3. \A u \in Threads : e[u] = Elements(u) /\ Elements(u)' = Elements(u)
  BY <1>2, ElementsStay
<1>4. \A u \in Threads : \E K, h, f : LP!LaneOrder(u, K, h, f, e[u])
  BY <1>1, <1>3 DEF InOrder
<1>5. /\ LP!TypeOK' /\ LP!Owned'
      /\ \A u \in Threads : \E K, h, f : LP!LaneOrder(u, K, h, f, e[u])'
  BY <1>1, <1>2, <1>4, ConstantsFit, LP!StepKeepsLanes
<1> QED
  BY <1>3, <1>5 DEF InOrder

\* as does Publish, which appends the ticket that was drawn.
LEMMA PublishKeepsOrder ==
  ASSUME IInv, ~overrun, ~overrun', ~destroyed, NEW t \in Threads, Publish(t), WP!IInv'
  PROVE  LP!TypeOK' /\ LP!Owned' /\ \A u \in Threads : InOrder(u, Elements(u))'
<1>1. /\ LP!TypeOK /\ LP!Owned /\ WP!TypeOK /\ WP!Lanes /\ WP!TypeOK' /\ WP!Lanes'
      /\ \A u \in Threads : InOrder(u, Elements(u))
  BY DEF IInv, BeforeOverrun, WP!IInv
<1>2. PICK e, d, value, s :
        /\ e = [u \in Threads |-> Elements(u)] /\ d = [u \in Threads |-> Elements(u)']
        /\ value = cur[t] /\ s = write_head_[t]
  OBVIOUS
<1>3. /\ s \in 0..MaxItems /\ s \in Nat /\ value \in Nat
      /\ write_head_' = [write_head_ EXCEPT ![t] = s + 1]
      /\ count_' = [count_ EXCEPT ![t][s] = value]
  BY <1>2, PlacesOf, <1>1 DEF Publish, W!Publish, LP!TypeOK
<1>4. count_ \in [Threads -> [0..MaxItems -> Nat \cup {kEmpty}]]
  BY <1>1, SameQueueSteps DEF WP!TypeOK, WP!ProducerTypes, WP!Slots
<1>5. \A u \in Threads \ {t} : d[u] = e[u]
  <2> TAKE u \in Threads \ {t}
  <2>1. write_head_'[u] = write_head_[u] /\ count_'[u] = count_[u]
    BY <1>3, <1>4, PlacesOf
  <2> QED
    BY <1>2, <2>1, ElementsStay
<1>6. d[t] \in [Nat -> Nat] /\ d[t][s] = value /\ \A n \in Nat : n < s => d[t][n] = e[t][n]
  <2>1. write_head_'[t] = s + 1 /\ count_'[t] = [count_[t] EXCEPT ![s] = value]
    BY <1>3, <1>4, PlacesOf
  <2>2. count_'[t][s] = value /\ \A n \in Nat : n < s => n \in 0..MaxItems /\ count_'[t][n] = count_[t][n]
    BY <1>3, <1>4, <2>1, ConstantsFit
  <2>3. d[t] = [n \in Nat |-> IF n < s + 1 THEN count_'[t][n] ELSE 0]
    BY <1>2, <2>1 DEF Elements
  <2>4. e[t] = Elements(t) /\ e[t] \in [Nat -> Nat] /\ \A n \in Nat : n < s => e[t][n] = count_[t][n]
    BY <1>1, <1>2, ElementsType
  <2>5. d[t][s] = value
    BY <1>3, <2>2, <2>3
  <2>6. \A n \in Nat : n < s => d[t][n] = e[t][n]
    <3> TAKE n \in Nat
    <3> HAVE n < s
    <3>1. n < s + 1 /\ count_'[t][n] = count_[t][n]
      BY <1>3, <2>2
    <3> QED
      BY <2>3, <2>4, <3>1
  <2>7. \A n \in Nat : d[t][n] \in Nat
    <3> TAKE n \in Nat
    <3>1. CASE n < s
      BY <2>4, <2>6, <3>1
    <3>2. CASE n = s
      BY <1>3, <2>5, <3>2
    <3>3. CASE ~(n < s + 1)
      BY <2>3, <3>3
    <3> QED
      BY <1>3, <3>1, <3>2, <3>3
  <2> QED
    BY <2>3, <2>5, <2>6, <2>7
<1>7. \A u \in Threads : \E K, h, f : LP!LaneOrder(u, K, h, f, e[u])
  BY <1>1, <1>2 DEF InOrder
<1>8. LP!Publish(t, value)
  BY <1>2, SameLaneSteps DEF Publish
<1>9. /\ LP!TypeOK' /\ LP!Owned'
      /\ \A u \in Threads : \E K, h, f : LP!LaneOrder(u, K, h, f, d[u])'
  <2>1. /\ d[t] \in [Nat -> Nat] /\ d[t][write_head_[t]] = value
        /\ \A n \in Nat : n < write_head_[t] => d[t][n] = e[t][n]
    BY <1>2, <1>6
  <2> QED
    BY <1>1, <1>3, <1>5, <1>7, <1>8, <2>1, ConstantsFit, LP!StepKeepsLanes
<1> QED
  BY <1>2, <1>9 DEF InOrder

\* The other steps leave the buffers alone.
LEMMA RestKeepsLanes ==
  ASSUME IInv, ~overrun, UNCHANGED <<laneVars, count_, write_head_, read_head_>>
  PROVE  LP!TypeOK' /\ LP!Owned' /\ \A u \in Threads : InOrder(u, Elements(u))'
<1>1. /\ LP!TypeOK /\ LP!Owned
      /\ \A u \in Threads : InOrder(u, Elements(u))
  BY DEF IInv, BeforeOverrun
<1>2. PICK e : e = [u \in Threads |-> Elements(u)]
  OBVIOUS
<1>3. \A u \in Threads : e[u] = Elements(u) /\ Elements(u)' = Elements(u)
  BY <1>2, ElementsStay
<1>4. \A u \in Threads : \E K, h, f : LP!LaneOrder(u, K, h, f, e[u])
  BY <1>1, <1>3 DEF InOrder
<1>5. UNCHANGED LP!vars
  BY DEF laneVars, LP!vars, LP!pools, LP!producerVars, LP!consumerVars, LP!endVars
<1>6. /\ LP!TypeOK' /\ LP!Owned'
      /\ \A u \in Threads : \E K, h, f : LP!LaneOrder(u, K, h, f, e[u])'
  BY <1>1, <1>4, <1>5, ConstantsFit, LP!StutterKeepsLanes
<1> QED
  BY <1>3, <1>6 DEF InOrder

-----------------------------------------------------------------------------
(* The invariant. *)

\* It holds at first: every lane has an empty buffer.
LEMMA InitHasIInv == Init => IInv
<1> SUFFICES ASSUME Init
             PROVE  IInv
  OBVIOUS
<1>1. WP!IInv
  BY ConstantsFit, SameQueueSteps, WP!InitIInv DEF Init
<1>2. LP!TypeOK /\ LP!Owned /\ ~destroyed
  BY ConstantsFit, SameLaneSteps, LP!InitialState DEF Init
<1>3. \A t \in Threads : InOrder(t, Elements(t))
  <2> TAKE t \in Threads
  <2>1. PICK v : v = Elements(t)
    OBVIOUS
  <2>2. v \in [Nat -> Nat]
    BY <1>1, <2>1, ElementsType DEF WP!IInv
  <2>3. \E K, h, f : LP!LaneOrder(t, K, h, f, v)
    BY <2>2, ConstantsFit, SameLaneSteps, LP!InitialLane DEF Init
  <2> QED
    BY <2>1, <2>3 DEF InOrder
<1>4. Steps
  BY <1>2 DEF Init, W!Init, L!Init, L!Each, W!Threads, Threads, Steps
<1> QED
  BY <1>1, <1>2, <1>3, <1>4 DEF IInv, DestroysAll

\* Every step of a call keeps it,
LEMMA CallKeepsIInv ==
  ASSUME IInv, ~overrun, ~overrun', (\E t \in Threads : Producer(t)) \/ Consumer \/ SpuriousWake
  PROVE  IInv'
<1>1. ~destroyed /\ ~destroyed'
  BY QueueIsOpen
<1>2. WP!IInv'
  <2>1. WP!IInv /\ [WP!Next]_(WP!vars)
    BY NextImplements DEF Next, IInv, BeforeOverrun
  <2> QED
    BY <2>1, ConstantsFit, WP!NextKeepsIInv
<1>3. Steps'
  BY ProducerKeepsSteps, ConsumerKeepsSteps
<1>4. LP!TypeOK' /\ LP!Owned' /\ \A u \in Threads : InOrder(u, Elements(u))'
  <2>1. ASSUME NEW t \in Threads, EnqueueCall(t) \/ Pop(t) \/ Link(t) \/ Unlink(t) \/ Push(t)
        PROVE  LP!TypeOK' /\ LP!Owned' /\ \A u \in Threads : InOrder(u, Elements(u))'
    <3>1. UNCHANGED <<count_, write_head_>>
      BY <2>1, LaneOnly DEF WP!vars, WP!producerVars
    <3>2. LP!EnqueueCall(t) \/ LP!Pop(t) \/ LP!Link(t) \/ LP!Consumer(t)
      BY <2>1, SameLaneSteps DEF EnqueueCall, Pop, Link, Unlink, Push, LP!Consumer
    <3> QED
      BY <1>1, <3>1, <3>2, MoveKeepsLanes
  <2>2. CASE \E t \in Threads : Publish(t)
    BY <1>1, <1>2, <2>2, PublishKeepsOrder
  <2>3. CASE ReturnMin
    <3>1. WP!TypeOK /\ UNCHANGED <<count_, write_head_>> /\ min_index # -1
      BY <2>3 DEF ReturnMin, W!ReturnMin, W!producerVars, IInv, BeforeOverrun, WP!IInv
    <3>2. min_index \in Threads
      BY <3>1, SameQueueSteps DEF WP!TypeOK, WP!ConsumerTypes
    <3>3. LP!Consumer(min_index)
      BY <2>3, <3>2, SameLaneSteps DEF ReturnMin, LP!Consumer
    <3> QED
      BY <1>1, <3>1, <3>2, <3>3, MoveKeepsLanes
  <2>4. ASSUME \E t \in Threads : DrawTicket(t) \/ LoadSleeping(t) \/ Notify(t)
        PROVE  UNCHANGED <<laneVars, count_, write_head_, read_head_>>
    BY <2>4 DEF DrawTicket, LoadSleeping, Notify, W!DrawTicket, W!LoadSleeping, W!Notify,
       W!consumerVars
  <2>5. ASSUME \/ BeginDequeue \/ ScanLane \/ Rescan \/ CheckUpTo \/ Announce
               \/ Wait \/ Resume \/ SpuriousWake
        PROVE  UNCHANGED <<laneVars, count_, write_head_, read_head_>>
    BY <2>5 DEF BeginDequeue, ScanLane, Rescan, CheckUpTo, Announce, Wait, Resume, SpuriousWake,
       W!BeginDequeue, W!Rescan, W!CheckUpTo, W!Announce, W!Wait, W!Resume, W!SpuriousWake,
       W!producerVars
  <2> QED
    BY <2>1, <2>2, <2>3, <2>4, <2>5, RestKeepsLanes DEF Producer, Consumer
<1> QED
  BY <1>1, <1>2, <1>3, <1>4 DEF IInv, DestroysAll

\* as does the destructor,
LEMMA DestroyKeepsIInv ==
  ASSUME IInv, Destroy, ~overrun
  PROVE  IInv'
<1>1. /\ WP!TypeOK /\ WP!Lanes /\ LP!TypeOK /\ LP!Owned
      /\ \A u \in Threads : InOrder(u, Elements(u))
  BY DEF IInv, BeforeOverrun, WP!IInv
<1>2. PICK e : e = [u \in Threads |-> Elements(u)]
  OBVIOUS
<1>3. /\ \A t \in Threads : /\ consumer' = "idle" /\ pc'[t] = "idle"
                            /\ lpc'[t] = "idle" /\ cpc'[t] = "idle"
      /\ consumer' = "idle"
      /\ UNCHANGED <<count_, write_head_, read_head_>>
  BY DEF Destroy, L!Destroy, waitVars, L!producerVars, L!consumerVars
<1>4. \A u \in Threads : e[u] = Elements(u) /\ e[u] \in [Nat -> Nat] /\ Elements(u)' = Elements(u)
  BY <1>1, <1>2, <1>3, ElementsType, ElementsStay
<1>5. e \in [Threads -> [Nat -> Nat]]
  BY <1>2, <1>4
<1>6. /\ \A u \in Threads : \E K, h, f : LP!LaneOrder(u, K, h, f, e[u])
      /\ LP!Destroy
  BY <1>1, <1>4, SameLaneSteps DEF InOrder, Destroy
<1>7. /\ live' = {}
      /\ \A t \in Threads :
           deconstructed'[t] = {e[t][n] : n \in read_head_[t]..(write_head_[t] - 1)}
      /\ LP!TypeOK' /\ LP!Owned'
      /\ \A t \in Threads : \E K, h, f : LP!LaneOrder(t, K, h, f, e[t])'
  BY <1>1, <1>5, <1>6, ConstantsFit, LP!DestroyEmpties
<1>8. \A t \in Threads : InOrder(t, Elements(t))'
  BY <1>4, <1>7 DEF InOrder
<1>9. \A t \in Threads :
        deconstructed'[t] = {count_'[t][n] : n \in read_head_'[t]..(write_head_'[t] - 1)}
  <2> TAKE t \in Threads
  <2>1. PICK S, c, x : S = read_head_[t]..(write_head_[t] - 1) /\ c = count_[t] /\ x = e[t]
    OBVIOUS
  <2>2. \A n \in S : n \in Nat /\ n < write_head_[t]
    BY <2>1, PlacesOf
  <2>3. \A n \in S : x[n] = c[n]
    BY <1>1, <1>4, <2>1, <2>2, ElementsType
  <2>4. deconstructed'[t] = {x[n] : n \in S}
    BY <1>7, <2>1
  <2>5. deconstructed'[t] = {c[n] : n \in S}
    BY <2>3, <2>4
  <2>6. c = count_'[t] /\ S = read_head_'[t]..(write_head_'[t] - 1)
    BY <1>3, <2>1
  <2> QED
    BY <2>5, <2>6
<1>10. WP!IInv'
  <2>1. WP!IInv /\ [WP!Next]_(WP!vars)
    BY NextImplements DEF Next, IInv, BeforeOverrun
  <2> QED
    BY <2>1, ConstantsFit, WP!NextKeepsIInv
<1>11. Steps'
  BY <1>3 DEF Steps
<1> QED
  BY <1>7, <1>8, <1>9, <1>10, <1>11 DEF IInv, DestroysAll

\* and a step that changes nothing.
LEMMA StutterKeepsIInv ==
  ASSUME IInv, UNCHANGED vars, ~overrun
  PROVE  IInv'
<1>1. WP!IInv /\ Steps /\ DestroysAll
  BY DEF IInv, BeforeOverrun
<1>2. UNCHANGED <<laneVars, count_, write_head_, read_head_>> /\ UNCHANGED WP!vars
  BY DEF vars, waitVars, WP!vars, WP!producerVars, WP!consumerVars, WP!scanVars
<1>3. WP!IInv'
  BY <1>1, <1>2, ConstantsFit, WP!NextKeepsIInv
<1>4. LP!TypeOK' /\ LP!Owned' /\ \A u \in Threads : InOrder(u, Elements(u))'
  BY <1>2, RestKeepsLanes
<1>5. Steps' /\ DestroysAll'
  BY <1>1 DEF Steps, DestroysAll, BeforeOverrun, vars, laneVars, waitVars
<1> QED
  BY <1>3, <1>4, <1>5 DEF IInv

\* A pool that has overrun stays so.
LEMMA OverrunStays ==
  ASSUME [Next]_vars, overrun
  PROVE  overrun'
<1>1. CASE UNCHANGED laneVars
  BY <1>1 DEF laneVars
<1>2. CASE \E t \in Threads : EnqueueCall(t) \/ Pop(t) \/ Link(t) \/ Publish(t)
  BY <1>2 DEF EnqueueCall, L!EnqueueCall, Pop, L!Pop, L!PopNew, L!PopFound, L!PopTake, L!PopAdvance,
     Link, L!Link, Publish, L!Publish
<1>3. CASE \E t \in Threads : Unlink(t) \/ Push(t)
  BY <1>3 DEF Unlink, L!Unlink, Push, L!Push, L!PushFull, L!PushRoom, L!PushReset, L!PushStore,
     L!PushAdvance
<1>4. CASE ReturnMin \/ Destroy
  BY <1>4 DEF ReturnMin, L!Take, Destroy, L!Destroy
<1> QED
  BY <1>1, <1>2, <1>3, <1>4 DEF Next, Producer, Consumer, DrawTicket, LoadSleeping, Notify,
     BeginDequeue, ScanLane, Rescan, CheckUpTo, Announce, Wait, Resume, SpuriousWake, vars

LEMMA NextKeepsIInv ==
  ASSUME IInv, [Next]_vars
  PROVE  IInv'
<1>1. CASE overrun'
  BY <1>1 DEF IInv, BeforeOverrun
<1>2. CASE ~overrun'
  <2>1. ~overrun
    BY <1>2, OverrunStays
  <2> QED
    BY <1>2, <2>1, CallKeepsIInv, DestroyKeepsIInv, StutterKeepsIInv DEF Next
<1> QED
  BY <1>1, <1>2

-----------------------------------------------------------------------------
(* What follows for every run of the queue. *)

\* The invariant, from the constructor on.
THEOREM Invariance == Spec => []IInv
BY InitHasIInv, NextKeepsIInv, PTL DEF Spec

\* Until a pool overruns, every variable has its type, and no lane is read past
\* what is published in it.
THEOREM TypeCorrect == Spec => [](BeforeOverrun => TypeOK)
<1>1. IInv => (BeforeOverrun => TypeOK)
  BY SameQueueSteps, SameLaneSteps DEF IInv, WP!IInv, TypeOK
<1> QED
  BY <1>1, Invariance, PTL

\* No two threads have the same buffer, wherever the lanes, the scans and the
\* pools of the queue are.
THEOREM BuffersHaveOneOwner == Spec => []OneOwner
<1>1. IInv => LP!OneOwner
  <2> SUFFICES ASSUME IInv, ~overrun, ~destroyed
               PROVE  LP!OneOwner
    BY DEF LP!OneOwner, LP!BeforeOverrun
  <2>1. /\ LP!TypeOK /\ LP!Owned
        /\ \A t \in Threads : InOrder(t, Elements(t))
    BY DEF IInv, BeforeOverrun
  <2>2. ASSUME NEW t \in Threads
        PROVE  /\ LP!Cardinality(LP!Holdings(t)) =
                    LP!Cardinality(LP!Chain(head[t])) + LP!Cardinality(LP!Pooled(t))
                      + LP!Cardinality(LP!ProducerHas(t)) + LP!Cardinality(LP!ConsumerHas(t))
               /\ tail[t] \in LP!Chain(head[t])
               /\ lpc[t] # "idle" => buffer[t] \in LP!Chain(head[t])
    <3>1. PICK K, h, f, v : LP!LaneOrder(t, K, h, f, v)
      BY <2>1 DEF InOrder
    <3> QED
      BY <2>1, <3>1, ConstantsFit, LP!LaneSize
  <2> QED
    BY <2>1, <2>2 DEF LP!OneOwner, LP!Owned
<1> QED
  BY <1>1, SameLaneSteps, Invariance, PTL DEF OneOwner

\* From the scan on that settles min_index to the return, its buffer holds the
\* ticket that was compared.
THEOREM MinimumStaysThere == Spec => [](BeforeOverrun => MinimumIsThere)
<1>1. IInv => (BeforeOverrun => MinimumIsThere)
  <2> SUFFICES ASSUME IInv, ~overrun, consumer = "scan", min_index # -1
               PROVE  L!HeadCount(min_index) = min_count
    BY DEF MinimumIsThere, BeforeOverrun
  <2>1. /\ WP!TypeOK /\ WP!Lanes /\ WP!Scan /\ LP!TypeOK /\ Steps
        /\ \A t \in Threads : InOrder(t, Elements(t))
    BY DEF IInv, BeforeOverrun, WP!IInv
  <2>2. min_index \in Threads
    BY <2>1, SameQueueSteps DEF WP!TypeOK, WP!ConsumerTypes
  <2>3. cpc[min_index] = "idle"
    BY <2>1, <2>2 DEF Steps
  <2>4. L!HeadCount(min_index) = W!HeadCount(min_index)
    BY <2>1, <2>2, <2>3, HeadsAgree
  <2>5. WP!HeadCount(min_index) = min_count
    BY <2>1 DEF WP!Scan
  <2> QED
    BY <2>4, <2>5 DEF WP!HeadCount, W!HeadCount
<1> QED
  BY <1>1, Invariance, PTL

\* The destructor frees every buffer and meets every element that was not dequeued.
THEOREM DestructorForgetsNothing == Spec => []DestroysAll
<1>1. IInv => DestroysAll
  BY DEF IInv, DestroysAll
<1> QED
  BY <1>1, Invariance, PTL

\* The assertions of enqueue and dequeue hold until a pool overruns, the one in the
\* loop over the lanes (line 306) whichever lane it has come to.
THEOREM AssertionsHoldUntilOverrun ==
  Spec => [](BeforeOverrun =>
               L!AssertionsHold /\ (consumer = "scan" => \A t \in Threads : L!InBuffer(t)))
<1>1. IInv => (BeforeOverrun =>
                 L!AssertionsHold /\ (consumer = "scan" => \A t \in Threads : L!InBuffer(t)))
  <2> SUFFICES ASSUME IInv, BeforeOverrun, NEW t \in Threads
               PROVE  lpc[t] # "abort" /\ cpc[t] # "abort" /\ (consumer = "scan" => L!InBuffer(t))
    BY DEF L!AssertionsHold
  <2>1. /\ WP!TypeOK /\ WP!Lanes /\ LP!TypeOK /\ Steps /\ InOrder(t, Elements(t))
    BY DEF IInv, WP!IInv
  <2>2. lpc[t] # "abort" /\ cpc[t] # "abort"
    BY <2>1 DEF InOrder, LP!LaneOrder, LP!ProducerAt, LP!ConsumerAt
  <2>3. consumer = "scan" => L!InBuffer(t)
    BY <2>1, HeadsAgree DEF Steps
  <2> QED
    BY <2>2, <2>3
<1> QED
  BY <1>1, Invariance, PTL

\* While no pool overruns, the queue with its buffers implements WaitQueue.
THEOREM ImplementsWaitQueue == Spec /\ []BeforeOverrun => Implements
<1>1. IInv /\ BeforeOverrun /\ [Next]_vars => [W!Next]_(W!vars)
  <2>1. ASSUME WP!Next
        PROVE  W!Next
    BY <2>1, SameQueueSteps DEF WP!Next, W!Next, WP!Producer, W!Producer, WP!Consumer, W!Consumer
  <2>2. ASSUME UNCHANGED WP!vars
        PROVE  UNCHANGED W!vars
    BY <2>2 DEF WP!vars, WP!producerVars, WP!consumerVars, WP!scanVars,
       W!vars, W!producerVars, W!consumerVars, W!scanVars
  <2> QED
    BY <2>1, <2>2, NextImplements DEF BeforeOverrun
<1>2. Init => W!Init
  BY DEF Init
<1> QED
  BY <1>1, <1>2, Invariance, PTL DEF Spec, Implements

\* No ticket below lowest_seen_ is left in its buffers, and no consumer sleeps on
\* them unnoticed.
THEOREM SafeAsWaitQueue ==
  Spec => [](BeforeOverrun => W!NothingBelowLowestSeen /\ W!NoLostWakeup)
<1>1. IInv => (BeforeOverrun => W!NothingBelowLowestSeen /\ W!NoLostWakeup)
  BY SameQueueSteps DEF IInv, WP!IInv, WP!NothingBelowLowestSeen, W!NothingBelowLowestSeen,
     WP!NoLostWakeup, W!NoLostWakeup
<1> QED
  BY <1>1, Invariance, PTL

\* And it is linearizable.
THEOREM Linearizability == Spec /\ []BeforeOverrun => WP!Linearizable
<1>1. Init => WP!LQ!Init
  BY ConstantsFit, SameQueueSteps, WP!InitRefines DEF Init
<1>2. IInv /\ BeforeOverrun /\ [Next]_vars => [WP!LQ!Next]_(WP!LQ!vars)
  BY ConstantsFit, NextImplements, WP!NextRefines DEF IInv, BeforeOverrun
<1> QED
  BY <1>1, <1>2, Invariance, PTL DEF Spec, WP!Linearizable, WP!LQ!Spec
=============================================================================
