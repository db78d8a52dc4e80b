----------------------------- MODULE LaneProofs -----------------------------
(***************************************************************************)
(* Proofs about Lane, for any number of lanes, addresses and elements, and *)
(* for buffers and pools of any size.  The buffers that a lane's producer  *)
(* has linked are numbered f[0], f[1], ..., f[K] in that order, where an   *)
(* address may come back; those from f[h] on are in the list now.  The     *)
(* invariant says what each of them holds, and which other buffers belong  *)
(* to the lane.  The lemmas about the steps of a lane leave open what its  *)
(* elements are: v[n] is the value of the n-th.                            *)
(***************************************************************************)
EXTENDS Lane, LinkedListProofs

\* The number of the first element of buffer j of a lane.
Base == [j \in Nat |-> j * BufferSize]

\* How much of a buffer is passed when n elements from its first on are.
Clamp(n) == IF n < 0 THEN 0 ELSE IF n < BufferSize THEN n ELSE BufferSize

\* The buffers with the numbers from h to K.
Run(h, K, f) == {f[j] : j \in h..K}

\* The list of the lane.
Chained(t, K, h, f) ==
  /\ K \in Nat /\ h \in 0..K /\ f \in [Nat -> Buffers]
  /\ head[t] = f[h] /\ tail[t] = f[K]
  /\ \A j, k \in h..K : f[j] = f[k] => j = k
  /\ \A j \in h..(K - 1) : mem[f[j]].next_ = f[j + 1]
  /\ mem[f[K]].next_ = nullptr

\* What is in its buffers.
Filled(t, K, h, f, v) ==
  /\ v \in [Nat -> Nat]
  /\ \A j \in h..K :
       /\ mem[f[j]].read_head_ = Clamp(got[t] - Base[j])
       /\ mem[f[j]].write_head_ = Clamp(sent[t] - Base[j])
       /\ \A k \in Nodes :
            mem[f[j]].elements_[k] = IF Base[j] + k < sent[t] THEN v[Base[j] + k] ELSE kEmpty

\* Where the producer is: it links the next buffer before it fills the last node.
ProducerAt(t, K, h, f) ==
  /\ pc[t] # "abort"
  /\ pc[t] # "idle" => sent[t] < MaxItems
  /\ pc[t] = "idle" => Base[K] <= sent[t] /\ sent[t] < Base[K] + BufferSize
  /\ pc[t] \in {"pop", "take", "advance", "link"} =>
       buffer[t] = f[K] /\ sent[t] = Base[K] + BufferSize - 1
  /\ pc[t] = "fill" =>
       \/ buffer[t] = f[K] /\ Base[K] <= sent[t] /\ sent[t] < Base[K] + BufferSize - 1
       \/ h < K /\ buffer[t] = f[K - 1] /\ sent[t] = Base[K] - 1

\* Where the consumer is.
ConsumerAt(t, h) ==
  /\ cpc[t] # "abort" /\ got[t] <= sent[t]
  /\ cpc[t] = "idle" => Base[h] <= got[t] /\ got[t] < Base[h] + BufferSize
  /\ cpc[t] = "unlink" => got[t] = Base[h] + BufferSize
  /\ cpc[t] \in {"push", "reset", "store", "advance"} => got[t] = Base[h] /\ old[t] \in Buffers
  /\ cpc[t] \in {"idle", "unlink"} => old[t] = nullptr

\* The buffers on their way from the consumer to the producer are as new.
PoolAt(t) ==
  /\ \A k \in Pooled(t) : items_[t][k] \in Buffers /\ mem[items_[t][k]] = Fresh
  /\ \A j, k \in Pooled(t) : items_[t][j] = items_[t][k] => j = k
  /\ pc[t] \in {"take", "advance"} => read_count_[t] # write_count_[t]
  /\ pc[t] = "advance" => popped[t] = items_[t][read_count_[t]]
  /\ pc[t] = "link" => popped[t] \in Buffers /\ mem[popped[t]] = Fresh
  /\ cpc[t] \in {"store", "advance"} => mem[old[t]] = Fresh
  /\ cpc[t] = "advance" => items_[t][write_count_[t]] = old[t]

\* No buffer of the lane is in two places.
Apart(t, K, h, f) ==
  /\ Run(h, K, f) \cap PoolBuffers(t) = {}
  /\ pc[t] = "link" => popped[t] \notin Run(h, K, f) /\ popped[t] \notin PoolBuffers(t)
  /\ old[t] # nullptr =>
       /\ old[t] \notin Run(h, K, f) /\ old[t] \notin PoolBuffers(t)
       /\ pc[t] = "link" => old[t] # popped[t]

LaneOrder(t, K, h, f, v) ==
  /\ Chained(t, K, h, f) /\ Filled(t, K, h, f, v)
  /\ ProducerAt(t, K, h, f) /\ ConsumerAt(t, h)
  /\ PoolAt(t) /\ Apart(t, K, h, f)

\* The lanes share no buffer, and what none has is free.
Owned ==
  ~destroyed =>
    /\ live = UNION {Holdings(t) : t \in Lanes}
    /\ \A t, u \in Lanes : t # u => Holdings(t) \cap Holdings(u) = {}

\* The n-th element is n.
Numbered == [n \in Nat |-> n]

\* Until a pool overruns.
IInv ==
  BeforeOverrun =>
    /\ TypeOK /\ Owned
    /\ \A t \in Lanes : \E K, h, f : LaneOrder(t, K, h, f, Numbered)
    /\ destroyed => \A t \in Lanes : pc[t] = "idle" /\ cpc[t] = "idle"
    /\ DestroysAll

-----------------------------------------------------------------------------
(* Numbers, places of the ring, and the list. *)

\* What the constants say.
LEMMA LaneConstants ==
  /\ BufferSize \in Nat /\ 0 < BufferSize /\ AllocationSize \in Nat /\ 0 < AllocationSize
  /\ MaxItems \in Nat /\ nullptr \notin Buffers /\ kEmpty \notin Nat /\ IsFiniteSet(Buffers)
  /\ \A k \in Nodes : k \in Nat /\ k < BufferSize
  /\ \A k \in Nat : k < BufferSize => k \in Nodes
  /\ \A k \in Places : k \in Nat /\ k < AllocationSize
BY SizeAssumption, AddressAssumption DEF Nodes, Places

\* Each buffer begins where the one before it ends.
LEMMA BaseIs ==
  /\ Base[0] = 0
  /\ \A j \in Nat : Base[j] \in Nat /\ Base[j + 1] = Base[j] + BufferSize
  /\ \A j \in Nat \ {0} : Base[j - 1] \in Nat /\ Base[j] = Base[j - 1] + BufferSize
  /\ \A j, k \in Nat : j < k => Base[j] + BufferSize <= Base[k]
<1>1. \A j \in Nat : Base[j] = j * BufferSize
  BY DEF Base
<1>2. \A j \in Nat : j * BufferSize \in Nat /\ (j + 1) * BufferSize = j * BufferSize + BufferSize
  BY LaneConstants
<1>3. 0 * BufferSize = 0
  BY LaneConstants
<1>4. ASSUME NEW j \in Nat, NEW k \in Nat, j < k
      PROVE  Base[j] + BufferSize <= Base[k]
  <2>1. PICK d \in Nat : k = (j + 1) + d
    <3>1. k - (j + 1) \in Nat /\ k = (j + 1) + (k - (j + 1))
      BY <1>4
    <3> QED
      BY <3>1
  <2>2. k * BufferSize = (j + 1) * BufferSize + d * BufferSize
    BY <2>1, LaneConstants
  <2>3. d * BufferSize \in Nat /\ j * BufferSize \in Nat
    BY LaneConstants
  <2> QED
    BY <1>1, <1>2, <2>2, <2>3, LaneConstants
<1>5. ASSUME NEW j \in Nat \ {0}
      PROVE  Base[j - 1] \in Nat /\ Base[j] = Base[j - 1] + BufferSize
  <2>1. j - 1 \in Nat /\ (j - 1) + 1 = j
    OBVIOUS
  <2> QED
    BY <1>1, <1>2, <2>1
<1> QED
  BY <1>1, <1>2, <1>3, <1>4, <1>5

\* Clamp is between 0 and BufferSize, and the identity there.
LEMMA ClampIs ==
  ASSUME NEW n \in Int
  PROVE  /\ Clamp(n) \in 0..BufferSize
         /\ n <= 0 => Clamp(n) = 0
         /\ n \in 0..BufferSize => Clamp(n) = n
         /\ BufferSize <= n => Clamp(n) = BufferSize
BY LaneConstants DEF Clamp

\* The place after a place is a place.
LEMMA AfterIsPlace ==
  ASSUME NEW k \in Places
  PROVE  After(k) \in Places
BY LaneConstants DEF After, Places

\* The places that drain visits from r to w.
Ring(r, w) ==
  {k \in Places : IF r <= w THEN r <= k /\ k < w ELSE r <= k \/ k < w}

\* They begin with r, unless there is none, and end before w.
LEMMA RingIs ==
  ASSUME NEW r \in Places, NEW w \in Places
  PROVE  /\ w \notin Ring(r, w)
         /\ r = w => Ring(r, w) = {}
         /\ r # w => r \in Ring(r, w) /\ Ring(After(r), w) = Ring(r, w) \ {r}
         /\ After(w) # r => Ring(r, After(w)) = Ring(r, w) \cup {w}
<1> USE LaneConstants DEF Ring
<1>1. w \notin Ring(r, w) /\ (r = w => Ring(r, w) = {})
  OBVIOUS
<1>2. ASSUME r # w
      PROVE  r \in Ring(r, w) /\ Ring(After(r), w) = Ring(r, w) \ {r}
  <2>1. r \in Ring(r, w)
    BY <1>2
  <2>2. \A k \in Places : k \in Ring(After(r), w) <=> k \in Ring(r, w) \ {r}
    BY <1>2 DEF After, Places
  <2> QED
    BY <2>1, <2>2
<1>3. ASSUME After(w) # r
      PROVE  Ring(r, After(w)) = Ring(r, w) \cup {w}
  <2>1. \A k \in Places : k \in Ring(r, After(w)) <=> k \in Ring(r, w) \cup {w}
    BY <1>3 DEF After, Places
  <2> QED
    BY <2>1
<1> QED
  BY <1>1, <1>2, <1>3

\* From the first buffer on, next_ leads to those of the list and no others.
LEMMA ListIsRun ==
  ASSUME NEW m \in [Buffers -> Contents],
         NEW K \in Nat, NEW h \in 0..K, NEW f \in [Nat -> Buffers],
         \A j \in h..(K - 1) : m[f[j]].next_ = f[j + 1],
         m[f[K]].next_ = nullptr
  PROVE  Reachable([c \in Buffers |-> m[c].next_], nullptr, f[h]) = Run(h, K, f)
<1> DEFINE next == [c \in Buffers |-> m[c].next_]
           A    == Run(h, K, f)
<1>1. /\ K \in Nat /\ h \in 0..K /\ f \in [Nat -> Buffers]
      /\ \A j \in h..(K - 1) : m[f[j]].next_ = f[j + 1]
      /\ m[f[K]].next_ = nullptr
  OBVIOUS
<1>2. /\ DOMAIN next = Buffers /\ IsFiniteSet(DOMAIN next)
      /\ \A j \in h..K : f[j] \in Buffers /\ f[j] # nullptr /\ next[f[j]] = m[f[j]].next_
  BY <1>1, LaneConstants
<1>3. f[h] \in A /\ A \subseteq Buffers
  BY <1>1 DEF Run
<1>4. \A y \in A : next[y] \in A \/ next[y] = nullptr
  <2> SUFFICES ASSUME NEW j \in h..K
               PROVE  next[f[j]] \in A \/ next[f[j]] = nullptr
    BY DEF Run
  <2>1. CASE j = K
    BY <1>1, <1>2, <2>1
  <2>2. CASE j # K
    <3>1. j \in h..(K - 1) /\ j + 1 \in h..K
      BY <1>1, <2>2
    <3>2. next[f[j]] = f[j + 1]
      BY <1>1, <1>2, <3>1
    <3> QED
      BY <3>1, <3>2 DEF Run
  <2> QED
    BY <2>1, <2>2
<1> HIDE DEF next
<1>5. Reachable(next, nullptr, f[h]) \subseteq A
  BY <1>2, <1>3, <1>4, ReachLeast
<1>6. A \subseteq Reachable(next, nullptr, f[h])
  <2> DEFINE R == Reachable(next, nullptr, f[h])
             T == {j \in Nat : j \in h..K /\ f[j] \notin R}
  <2>1. f[h] \in R /\ \A y \in R : next[y] # nullptr => next[y] \in R
    <3>1. f[h] \in Buffers /\ f[h] # nullptr
      BY <1>1, <1>2
    <3>2. \A y \in Buffers : next[y] \in Buffers \/ next[y] = nullptr
      BY DEF Contents, next
    <3> QED
      BY <1>2, <3>1, <3>2, ReachClosed
  <2>2. ASSUME T # {}
        PROVE  FALSE
    <3> HIDE DEF R
    <3>1. PICK n \in T : \A k \in T : n <= k
      BY <2>2, LeastNatural
    <3>2. n # h /\ n \in h..K
      BY <2>1, <3>1
    <3>3. n - 1 \in h..(K - 1) /\ n - 1 \in h..K /\ n - 1 \in Nat /\ (n - 1) + 1 = n
      BY <1>1, <3>2
    <3>4. f[n - 1] \in R
      BY <3>1, <3>3
    <3>5. next[f[n - 1]] = f[n] /\ f[n] # nullptr
      BY <1>1, <1>2, <3>2, <3>3
    <3>6. f[n] \in R
      BY <2>1, <3>4, <3>5
    <3> QED
      BY <3>1, <3>6
  <2> QED
    BY <1>1, <2>2 DEF Run
<1> QED
  BY <1>5, <1>6 DEF next

\* The buffers of the list are those that the destructor's loop visits.
LEMMA ChainIs ==
  ASSUME mem \in [Buffers -> Contents],
         NEW t \in Lanes, NEW K, NEW h, NEW f, Chained(t, K, h, f)
  PROVE  Chain(head[t]) = Run(h, K, f)
<1>1. /\ K \in Nat /\ h \in 0..K /\ f \in [Nat -> Buffers] /\ head[t] = f[h]
      /\ \A j \in h..(K - 1) : mem[f[j]].next_ = f[j + 1]
      /\ mem[f[K]].next_ = nullptr
  BY DEF Chained
<1>2. PICK m : m = mem
  OBVIOUS
<1>3. Reachable([c \in Buffers |-> m[c].next_], nullptr, f[h]) = Run(h, K, f)
  BY <1>1, <1>2, ListIsRun
<1> QED
  BY <1>1, <1>2, <1>3 DEF Chain

\* The same after a step.
LEMMA ChainIsNow ==
  ASSUME mem' \in [Buffers -> Contents],
         NEW t \in Lanes, NEW K, NEW h, NEW f, Chained(t, K, h, f)'
  PROVE  Chain(head[t])' = Run(h, K, f)
<1>1. /\ K \in Nat /\ h \in 0..K /\ f \in [Nat -> Buffers] /\ head'[t] = f[h]
      /\ \A j \in h..(K - 1) : mem'[f[j]].next_ = f[j + 1]
      /\ mem'[f[K]].next_ = nullptr
  BY DEF Chained
<1>2. PICK m : m = mem'
  OBVIOUS
<1>3. Reachable([c \in Buffers |-> m[c].next_], nullptr, f[h]) = Run(h, K, f)
  BY <1>1, <1>2, ListIsRun
<1> QED
  BY <1>1, <1>2, <1>3 DEF Chain

-----------------------------------------------------------------------------
(* What the lanes leave alone. *)

\* The parts of lane t.
PartsIs(t, h, K, f) ==
  Run(h, K, f) \cup PoolBuffers(t) \cup ProducerHas(t) \cup ConsumerHas(t)

\* What the lane holds is in the list, in the pool, or with one of its threads.
LEMMA HoldingsAre ==
  ASSUME mem \in [Buffers -> Contents],
         NEW t \in Lanes, NEW K, NEW h, NEW f, Chained(t, K, h, f)
  PROVE  Holdings(t) = PartsIs(t, h, K, f)
BY ChainIs DEF Holdings, PartsIs

\* A lane is as it was after a step that changes neither its own variables nor the
\* buffers it holds.
LEMMA LaneFrame ==
  ASSUME mem \in [Buffers -> Contents], mem' \in [Buffers -> Contents],
         NEW t \in Lanes, NEW K, NEW h, NEW f, NEW v, LaneOrder(t, K, h, f, v),
         items_'[t] = items_[t], read_count_'[t] = read_count_[t],
         write_count_'[t] = write_count_[t],
         tail'[t] = tail[t], pc'[t] = pc[t], buffer'[t] = buffer[t], popped'[t] = popped[t],
         sent'[t] = sent[t], head'[t] = head[t], cpc'[t] = cpc[t], old'[t] = old[t],
         got'[t] = got[t],
         \A b \in Holdings(t) : mem'[b] = mem[b]
  PROVE  LaneOrder(t, K, h, f, v)' /\ Holdings(t)' = Holdings(t)
<1>1. /\ Chained(t, K, h, f) /\ Filled(t, K, h, f, v)
      /\ ProducerAt(t, K, h, f) /\ ConsumerAt(t, h) /\ PoolAt(t) /\ Apart(t, K, h, f)
  BY DEF LaneOrder
<1>2. /\ \A j \in h..K : mem'[f[j]] = mem[f[j]]
      /\ \A k \in Pooled(t) : mem'[items_[t][k]] = mem[items_[t][k]]
      /\ pc[t] = "link" => mem'[popped[t]] = mem[popped[t]]
      /\ old[t] # nullptr => mem'[old[t]] = mem[old[t]]
  BY <1>1, HoldingsAre DEF PartsIs, Run, PoolBuffers, ProducerHas, ConsumerHas
<1>3. Pooled(t)' = Pooled(t) /\ PoolBuffers(t)' = PoolBuffers(t)
  BY DEF Pooled, PoolBuffers
<1>4. Chained(t, K, h, f)'
  BY <1>1, <1>2 DEF Chained
<1>5. Filled(t, K, h, f, v)'
  BY <1>1, <1>2 DEF Filled
<1>6. ProducerAt(t, K, h, f)' /\ ConsumerAt(t, h)'
  BY <1>1 DEF ProducerAt, ConsumerAt
<1>7. PoolAt(t)'
  <2>1. cpc[t] \in {"store", "advance"} => old[t] # nullptr
    BY <1>1, LaneConstants DEF ConsumerAt
  <2> QED
    BY <1>1, <1>2, <1>3, <2>1 DEF PoolAt
<1>8. Apart(t, K, h, f)'
  BY <1>1, <1>3 DEF Apart
<1>9. Holdings(t)' = Holdings(t)
  <2>1. Chain(head[t]) = Run(h, K, f)
    BY <1>1, ChainIs
  <2>2. Chain(head[t])' = Run(h, K, f)
    BY <1>4, ChainIsNow
  <2>3. ProducerHas(t)' = ProducerHas(t) /\ ConsumerHas(t)' = ConsumerHas(t)
    BY DEF ProducerHas, ConsumerHas
  <2> QED
    BY <1>3, <2>1, <2>2, <2>3 DEF Holdings
<1> QED
  BY <1>4, <1>5, <1>6, <1>7, <1>8, <1>9 DEF LaneOrder

-----------------------------------------------------------------------------
(* The steps of enqueue, in the lane they are made in. *)

\* The list, its contents and the pool are as they were after a step that changes
\* none of what they are made of.
LEMMA QuietStep ==
  ASSUME NEW t \in Lanes, NEW K, NEW h, NEW f, NEW v, LaneOrder(t, K, h, f, v), mem' = mem,
         items_'[t] = items_[t], read_count_'[t] = read_count_[t],
         write_count_'[t] = write_count_[t],
         tail'[t] = tail[t], sent'[t] = sent[t], head'[t] = head[t], got'[t] = got[t]
  PROVE  /\ Chained(t, K, h, f)' /\ Filled(t, K, h, f, v)'
         /\ Pooled(t)' = Pooled(t) /\ PoolBuffers(t)' = PoolBuffers(t)
         /\ Chain(head[t])' = Chain(head[t])
         /\ \A k \in Pooled(t)' :
              items_'[t][k] \in Buffers /\ mem'[items_'[t][k]] = Fresh
         /\ \A j, k \in Pooled(t)' : items_'[t][j] = items_'[t][k] => j = k
<1>1. Pooled(t)' = Pooled(t)
  BY DEF Pooled
<1>2. PoolBuffers(t)' = PoolBuffers(t)
  BY <1>1 DEF PoolBuffers
<1>3. Chained(t, K, h, f)'
  BY DEF LaneOrder, Chained
<1>4. Filled(t, K, h, f, v)'
  BY DEF LaneOrder, Filled
<1>5. Chain(head[t])' = Chain(head[t])
  BY DEF Chain
<1> QED
  BY <1>1, <1>2, <1>3, <1>4, <1>5 DEF LaneOrder, PoolAt

\* How far the producer is in the last buffer.
LEMMA LastBuffer ==
  ASSUME TypeOK, NEW t \in Lanes, NEW K, NEW h, NEW f, NEW v, LaneOrder(t, K, h, f, v)
  PROVE  /\ K \in Nat /\ h \in Nat /\ h <= K /\ h \in h..K /\ K \in h..K
         /\ f \in [Nat -> Buffers] /\ \A j \in h..K : f[j] \in Buffers
         /\ sent[t] \in Nat /\ got[t] \in Nat
         /\ \A j \in h..K : j \in Nat /\ Base[j] \in Nat
         /\ Base[K] <= sent[t] + 1 /\ sent[t] <= Base[K] + BufferSize
<1>1. /\ K \in Nat /\ h \in 0..K /\ f \in [Nat -> Buffers] /\ sent[t] \in Nat /\ got[t] \in Nat
  BY LaneConstants DEF LaneOrder, Chained, TypeOK
<1>2. Base[K] \in Nat
  BY <1>1, BaseIs
<1>3. Base[K] <= sent[t] + 1 /\ sent[t] <= Base[K] + BufferSize
  BY <1>1, <1>2, LaneConstants DEF LaneOrder, ProducerAt, TypeOK
<1> QED
  BY <1>1, <1>3, BaseIs

\* enqueue tests whether the buffer has one node left to fill.
LEMMA EnqueueCallKeepsLane ==
  ASSUME TypeOK, NEW t \in Lanes, NEW K, NEW h, NEW f, NEW v, LaneOrder(t, K, h, f, v),
         EnqueueCall(t)
  PROVE  LaneOrder(t, K, h, f, v)' /\ Holdings(t)' = Holdings(t)
<1>1. /\ pc[t] = "idle" /\ sent[t] < MaxItems /\ mem' = mem
      /\ buffer'[t] = tail[t] /\ pc'[t] = IF Switches(tail[t]) THEN "pop" ELSE "fill"
      /\ UNCHANGED <<pools, tail, popped, sent, consumerVars>>
  BY DEF EnqueueCall, TypeOK
<1>2. UNCHANGED <<items_, read_count_, write_count_, head, cpc, old, got>>
  BY <1>1 DEF pools, consumerVars
<1>3. /\ Chained(t, K, h, f)' /\ Filled(t, K, h, f, v)'
      /\ Pooled(t)' = Pooled(t) /\ PoolBuffers(t)' = PoolBuffers(t)
      /\ Chain(head[t])' = Chain(head[t])
  BY <1>1, <1>2, QuietStep
<1>4. PoolAt(t)' /\ ConsumerAt(t, h)' /\ Apart(t, K, h, f)'
  BY <1>1, <1>2, <1>3, QuietStep DEF LaneOrder, PoolAt, ConsumerAt, Apart
<1>5. ProducerAt(t, K, h, f)'
  <2>1. Base[K] <= sent[t] /\ sent[t] < Base[K] + BufferSize
    BY <1>1 DEF LaneOrder, ProducerAt
  <2>2. mem[f[K]].write_head_ = sent[t] - Base[K]
    <3>1. sent[t] - Base[K] \in 0..BufferSize
      BY <2>1, LastBuffer, LaneConstants
    <3> QED
      BY <3>1, LastBuffer, ClampIs DEF LaneOrder, Filled
  <2>3. tail[t] = f[K]
    BY DEF LaneOrder, Chained
  <2>4. CASE Switches(tail[t])
    BY <1>1, <2>1, <2>2, <2>3, <2>4, LastBuffer, LaneConstants DEF ProducerAt, Switches
  <2>5. CASE ~Switches(tail[t])
    <3>1. sent[t] < Base[K] + BufferSize - 1
      BY <2>1, <2>2, <2>3, <2>5, LastBuffer, LaneConstants DEF Switches
    <3> QED
      BY <1>1, <2>1, <2>3, <2>5, <3>1 DEF ProducerAt
  <2> QED
    BY <2>4, <2>5
<1>6. Holdings(t)' = Holdings(t)
  BY <1>1, <1>2, <1>3 DEF Holdings, ProducerHas, ConsumerHas
<1> QED
  BY <1>3, <1>4, <1>5, <1>6 DEF LaneOrder

\* pop has looked at the counts, or at the place: nothing moves yet.
LEMMA PopLooksKeepsLane ==
  ASSUME TypeOK, NEW t \in Lanes, NEW K, NEW h, NEW f, NEW v, LaneOrder(t, K, h, f, v),
         PopFound(t) \/ PopTake(t)
  PROVE  LaneOrder(t, K, h, f, v)' /\ Holdings(t)' = Holdings(t)
<1>1. /\ mem' = mem /\ UNCHANGED <<pools, tail, buffer, sent, consumerVars>>
      /\ \/ pc[t] = "pop" /\ pc'[t] = "take" /\ read_count_[t] # write_count_[t]
         \/ /\ pc[t] = "take" /\ pc'[t] = "advance"
            /\ popped'[t] = items_[t][read_count_[t]]
  BY DEF PopFound, PopTake, TypeOK
<1>2. UNCHANGED <<items_, read_count_, write_count_, head, cpc, old, got>>
  BY <1>1 DEF pools, consumerVars
<1>3. /\ Chained(t, K, h, f)' /\ Filled(t, K, h, f, v)'
      /\ Pooled(t)' = Pooled(t) /\ PoolBuffers(t)' = PoolBuffers(t)
      /\ Chain(head[t])' = Chain(head[t])
  BY <1>1, <1>2, QuietStep
<1>4. ConsumerAt(t, h)' /\ Apart(t, K, h, f)'
  BY <1>1, <1>2, <1>3 DEF LaneOrder, ConsumerAt, Apart
<1>5. PoolAt(t)'
  BY <1>1, <1>2, <1>3, QuietStep DEF LaneOrder, PoolAt
<1>6. ProducerAt(t, K, h, f)'
  BY <1>1 DEF LaneOrder, ProducerAt
<1>7. Holdings(t)' = Holdings(t)
  BY <1>1, <1>2, <1>3 DEF Holdings, ProducerHas, ConsumerHas
<1> QED
  BY <1>3, <1>4, <1>5, <1>6, <1>7 DEF LaneOrder

\* A fresh buffer is what node_buffer() makes.
LEMMA FreshIs ==
  /\ Fresh \in Contents
  /\ Fresh.read_head_ = 0 /\ Fresh.write_head_ = 0 /\ Fresh.next_ = nullptr
  /\ \A k \in Nodes : Fresh.elements_[k] = kEmpty
BY LaneConstants DEF Fresh, Contents

\* What it does to a buffer to be linked
LEMMA LinkedBuffer ==
  ASSUME NEW c \in Contents, NEW p \in Buffers \cup {nullptr},
         NEW d, d = [c EXCEPT !.next_ = p]
  PROVE  /\ d \in Contents /\ d.next_ = p
         /\ d.read_head_ = c.read_head_ /\ d.write_head_ = c.write_head_
         /\ d.elements_ = c.elements_
BY DEF Contents

\* or read.
LEMMA ReadBuffer ==
  ASSUME NEW c \in Contents, NEW n \in 0..BufferSize, NEW d, d = [c EXCEPT !.read_head_ = n]
  PROVE  /\ d \in Contents /\ d.read_head_ = n
         /\ d.next_ = c.next_ /\ d.write_head_ = c.write_head_
         /\ d.elements_ = c.elements_
BY DEF Contents

\* new returns a buffer that no lane holds.
LEMMA PopNewKeepsLane ==
  ASSUME TypeOK, NEW t \in Lanes, NEW K, NEW h, NEW f, NEW v, LaneOrder(t, K, h, f, v),
         Holdings(t) \subseteq live, PopNew(t)
  PROVE  \E b \in Buffers \ live :
           /\ LaneOrder(t, K, h, f, v)'
           /\ Holdings(t)' = Holdings(t) \cup {b} /\ live' = live \cup {b}
           /\ \A c \in Buffers \ {b} : mem'[c] = mem[c]
<1>1. PICK b \in Buffers \ live :
        /\ popped' = [popped EXCEPT ![t] = b] /\ live' = live \cup {b}
        /\ mem' = [mem EXCEPT ![b] = Fresh]
  BY DEF PopNew
<1>2. /\ pc[t] = "pop" /\ pc'[t] = "link" /\ popped'[t] = b /\ mem'[b] = Fresh
      /\ \A c \in Buffers \ {b} : mem'[c] = mem[c]
      /\ UNCHANGED <<items_, read_count_, write_count_, tail, buffer, sent, head, cpc, old, got>>
  BY <1>1 DEF PopNew, TypeOK, pools, consumerVars
<1>3. /\ \A j \in h..K : mem'[f[j]] = mem[f[j]] /\ f[j] # b
      /\ \A k \in Pooled(t) : mem'[items_[t][k]] = mem[items_[t][k]] /\ items_[t][k] # b
      /\ old[t] # nullptr => mem'[old[t]] = mem[old[t]] /\ old[t] # b
  <2>1. \A c \in Holdings(t) : c \in live /\ c # b
    OBVIOUS
  <2>2. Holdings(t) = PartsIs(t, h, K, f)
    BY HoldingsAre DEF LaneOrder, TypeOK
  <2>3. /\ \A j \in h..K : f[j] \in Holdings(t)
        /\ \A k \in Pooled(t) : items_[t][k] \in Holdings(t)
        /\ old[t] # nullptr => old[t] \in Holdings(t)
    BY <2>2 DEF PartsIs, Run, PoolBuffers, ConsumerHas
  <2> QED
    BY <1>2, <2>1, <2>3 DEF TypeOK
<1>4. Pooled(t)' = Pooled(t) /\ PoolBuffers(t)' = PoolBuffers(t)
  BY <1>2 DEF Pooled, PoolBuffers
<1>5. Chained(t, K, h, f)'
  BY <1>2, <1>3, LastBuffer DEF LaneOrder, Chained
<1>6. Filled(t, K, h, f, v)'
  BY <1>2, <1>3 DEF LaneOrder, Filled
<1>7. ProducerAt(t, K, h, f)' /\ ConsumerAt(t, h)'
  BY <1>2 DEF LaneOrder, ProducerAt, ConsumerAt
<1>8. PoolAt(t)'
  <2>1. cpc[t] \in {"store", "advance"} => old[t] # nullptr
    BY LaneConstants DEF LaneOrder, ConsumerAt
  <2> QED
    BY <1>1, <1>2, <1>3, <1>4, <2>1 DEF LaneOrder, PoolAt
<1>9. Apart(t, K, h, f)'
  <2>1. b \notin Run(h, K, f) /\ b \notin PoolBuffers(t)
    BY <1>3 DEF Run, PoolBuffers
  <2> QED
    BY <1>2, <1>3, <1>4, <2>1 DEF LaneOrder, Apart
<1>10. Holdings(t)' = Holdings(t) \cup {b}
  <2>1. Chain(head[t])' = Chain(head[t])
    <3>1. mem \in [Buffers -> Contents] /\ mem' \in [Buffers -> Contents]
      BY <1>1, FreshIs DEF TypeOK
    <3> QED
      BY <1>5, <3>1, ChainIs, ChainIsNow DEF LaneOrder
  <2> QED
    BY <1>2, <1>4, <2>1 DEF Holdings, ProducerHas, ConsumerHas
<1> QED
  BY <1>1, <1>2, <1>5, <1>6, <1>7, <1>8, <1>9, <1>10 DEF LaneOrder

\* pop takes the buffer out of its place.
LEMMA PopAdvanceKeepsLane ==
  ASSUME TypeOK, NEW t \in Lanes, NEW K, NEW h, NEW f, NEW v, LaneOrder(t, K, h, f, v),
         PopAdvance(t)
  PROVE  LaneOrder(t, K, h, f, v)' /\ Holdings(t)' = Holdings(t)
<1> DEFINE r == read_count_[t]
           w == write_count_[t]
<1>1. /\ pc[t] = "advance" /\ pc'[t] = "link" /\ mem' = mem
      /\ r \in Places /\ w \in Places
      /\ read_count_'[t] = After(r)
      /\ UNCHANGED <<items_, write_count_, tail, buffer, popped, sent, head, cpc, old, got>>
  BY DEF PopAdvance, TypeOK, ReadNext, consumerVars
<1>2. r # w /\ popped[t] = items_[t][r]
  BY <1>1 DEF LaneOrder, PoolAt
<1>3. /\ Pooled(t) = Ring(r, w) /\ r \in Pooled(t)
      /\ Pooled(t)' = Pooled(t) \ {r}
  <2>1. Pooled(t) = Ring(r, w) /\ Pooled(t)' = Ring(After(r), w)
    BY <1>1 DEF Pooled, Ring
  <2> QED
    BY <1>1, <1>2, <2>1, RingIs
<1>4. PoolBuffers(t)' = PoolBuffers(t) \ {popped[t]} /\ popped[t] \in PoolBuffers(t)
  <2>1. \A k \in Pooled(t) : items_[t][k] = popped[t] => k = r
    BY <1>2, <1>3 DEF LaneOrder, PoolAt
  <2> QED
    BY <1>1, <1>2, <1>3, <2>1 DEF PoolBuffers
<1>5. Chained(t, K, h, f)'
  BY <1>1 DEF LaneOrder, Chained
<1>6. Filled(t, K, h, f, v)'
  BY <1>1 DEF LaneOrder, Filled
<1>7. ProducerAt(t, K, h, f)' /\ ConsumerAt(t, h)'
  BY <1>1 DEF LaneOrder, ProducerAt, ConsumerAt
<1>8. PoolAt(t)'
  BY <1>1, <1>2, <1>3 DEF LaneOrder, PoolAt
<1>9. Apart(t, K, h, f)'
  BY <1>1, <1>4 DEF LaneOrder, Apart
<1>10. Holdings(t)' = Holdings(t)
  <2>1. Chain(head[t])' = Chain(head[t])
    BY <1>1 DEF Chain
  <2>2. ProducerHas(t) = {} /\ ProducerHas(t)' = {popped[t]} /\ ConsumerHas(t)' = ConsumerHas(t)
    BY <1>1 DEF ProducerHas, ConsumerHas
  <2> QED
    BY <1>4, <2>1, <2>2 DEF Holdings
<1> QED
  BY <1>5, <1>6, <1>7, <1>8, <1>9, <1>10 DEF LaneOrder

\* The next buffer is linked: it is number K + 1.
LEMMA LinkKeepsLane ==
  ASSUME TypeOK, NEW t \in Lanes, NEW K, NEW h, NEW f, NEW v, LaneOrder(t, K, h, f, v), Link(t)
  PROVE  \E g : /\ LaneOrder(t, K + 1, h, g, v)' /\ Holdings(t)' = Holdings(t)
                /\ mem' \in [Buffers -> Contents]
                /\ \A c \in Buffers \ Holdings(t) : mem'[c] = mem[c]
<1>0. PICK p : p = popped[t]
  OBVIOUS
<1>1. /\ pc[t] = "link" /\ p \in Buffers /\ mem[p] = Fresh
      /\ buffer[t] = f[K] /\ sent[t] = Base[K] + BufferSize - 1
      /\ p \notin Run(h, K, f) /\ p \notin PoolBuffers(t) /\ (old[t] # nullptr => old[t] # p)
  BY <1>0 DEF Link, LaneOrder, PoolAt, ProducerAt, Apart
<1>2. /\ pc'[t] = "fill" /\ tail'[t] = p
      /\ mem' = [mem EXCEPT ![f[K]].next_ = p]
      /\ UNCHANGED <<items_, read_count_, write_count_, buffer, sent, head, cpc, old, got>>
  BY <1>0, <1>1, LaneConstants DEF Link, TypeOK, pools, consumerVars
<1>3. /\ K \in Nat /\ h \in Nat /\ h <= K /\ K \in h..K /\ f \in [Nat -> Buffers]
      /\ \A j \in h..K : j \in Nat /\ f[j] \in Buffers
  BY LastBuffer
<1>4. /\ mem' \in [Buffers -> Contents]
      /\ \A c \in Buffers \ {f[K]} : mem'[c] = mem[c]
      /\ mem'[f[K]].next_ = p
      /\ mem'[f[K]].read_head_ = mem[f[K]].read_head_
      /\ mem'[f[K]].write_head_ = mem[f[K]].write_head_
      /\ mem'[f[K]].elements_ = mem[f[K]].elements_
  <2>1. PICK d : d = [mem[f[K]] EXCEPT !.next_ = p]
    OBVIOUS
  <2>2. mem[f[K]] \in Contents
    BY <1>3 DEF TypeOK
  <2>3. /\ d \in Contents /\ d.next_ = p
        /\ d.read_head_ = mem[f[K]].read_head_ /\ d.write_head_ = mem[f[K]].write_head_
        /\ d.elements_ = mem[f[K]].elements_
    BY <1>1, <2>1, <2>2, LinkedBuffer
  <2>4. mem' = [mem EXCEPT ![f[K]] = d]
    BY <1>2, <2>1
  <2> QED
    BY <1>3, <2>3, <2>4 DEF TypeOK
<1>5. /\ \A j \in h..(K - 1) : f[j] # f[K]
      /\ p # f[K] /\ \A k \in Pooled(t) : items_[t][k] # f[K]
      /\ old[t] # nullptr => old[t] # f[K]
  <2>1. f[K] \in Run(h, K, f)
    BY <1>3 DEF Run
  <2>2. \A j \in h..(K - 1) : j \in h..K /\ j # K
    BY <1>3
  <2> QED
    BY <1>1, <1>3, <2>1, <2>2 DEF LaneOrder, Chained, Apart, PoolBuffers
<1>6. PICK g : g = [f EXCEPT ![K + 1] = p]
  OBVIOUS
<1>7. /\ g \in [Nat -> Buffers] /\ g[K + 1] = p /\ \A j \in h..K : g[j] = f[j]
      /\ Run(h, K + 1, g) = Run(h, K, f) \cup {p}
  <2>1. g \in [Nat -> Buffers] /\ g[K + 1] = p /\ \A j \in h..K : g[j] = f[j]
    BY <1>1, <1>3, <1>6
  <2>2. \A j : j \in h..(K + 1) <=> j \in h..K \/ j = K + 1
    BY <1>3
  <2> QED
    BY <2>1, <2>2 DEF Run
<1>8. Chained(t, K + 1, h, g)'
  <2>1. K + 1 \in Nat /\ h \in 0..(K + 1) /\ head'[t] = g[h] /\ tail'[t] = g[K + 1]
    <3>1. h \in h..K
      BY <1>3
    <3> QED
      BY <1>2, <1>3, <1>7, <3>1 DEF LaneOrder, Chained
  <2>2. \A j, k \in h..(K + 1) : g[j] = g[k] => j = k
    <3>1. \A j \in h..(K + 1) : j \in h..K \/ j = K + 1
      BY <1>3
    <3>2. \A j \in h..K : g[j] # p
      BY <1>1, <1>7 DEF Run
    <3> QED
      BY <1>7, <3>1, <3>2 DEF LaneOrder, Chained
  <2>3. \A j \in h..K : mem'[g[j]].next_ = g[j + 1]
    <3> TAKE j \in h..K
    <3>1. CASE j = K
      BY <1>3, <1>4, <1>7, <3>1
    <3>2. CASE j # K
      <4>1. j \in h..(K - 1) /\ j + 1 \in h..K
        BY <1>3, <3>2
      <4>2. mem'[f[j]] = mem[f[j]]
        BY <1>3, <1>4, <1>5, <4>1
      <4> QED
        BY <1>7, <4>1, <4>2 DEF LaneOrder, Chained
    <3> QED
      BY <3>1, <3>2
  <2>4. mem'[g[K + 1]].next_ = nullptr
    BY <1>1, <1>4, <1>5, <1>7, FreshIs
  <2>5. (K + 1) - 1 = K
    BY <1>3
  <2> QED
    BY <1>7, <2>1, <2>2, <2>3, <2>4, <2>5 DEF Chained
<1>9. Filled(t, K + 1, h, g, v)'
  <2>1. v \in [Nat -> Nat]
    BY DEF LaneOrder, Filled
  <2>2. ASSUME NEW j \in h..K
        PROVE  /\ mem'[g[j]].read_head_ = mem[f[j]].read_head_
               /\ mem'[g[j]].write_head_ = mem[f[j]].write_head_
               /\ mem'[g[j]].elements_ = mem[f[j]].elements_
    <3>1. CASE j = K
      BY <1>4, <1>7, <3>1
    <3>2. CASE j # K
      <4>1. f[j] \in Buffers \ {f[K]}
        BY <1>3, <1>5, <3>2
      <4> QED
        BY <1>4, <1>7, <4>1
    <3> QED
      BY <3>1, <3>2
  <2>3. /\ mem'[g[K + 1]].read_head_ = 0 /\ mem'[g[K + 1]].write_head_ = 0
        /\ \A k \in Nodes : mem'[g[K + 1]].elements_[k] = kEmpty
    BY <1>1, <1>4, <1>5, <1>7, FreshIs
  <2>4. /\ Base[K + 1] = Base[K] + BufferSize /\ Base[K] \in Nat /\ Base[K + 1] \in Nat
        /\ sent[t] \in Nat /\ got[t] \in Nat /\ got[t] <= sent[t]
    BY <1>3, BaseIs, LastBuffer, LaneConstants DEF LaneOrder, ConsumerAt
  <2>5. /\ Clamp(got[t] - Base[K + 1]) = 0 /\ Clamp(sent[t] - Base[K + 1]) = 0
        /\ \A k \in Nodes : ~(Base[K + 1] + k < sent[t])
    <3>1. /\ got[t] - Base[K + 1] \in Int /\ got[t] - Base[K + 1] <= 0
          /\ sent[t] - Base[K + 1] \in Int /\ sent[t] - Base[K + 1] <= 0
      BY <1>1, <2>4, LaneConstants
    <3>2. \A k \in Nodes : ~(Base[K + 1] + k < sent[t])
      BY <1>1, <2>4, LaneConstants
    <3> QED
      BY <3>1, <3>2, ClampIs
  <2>6. \A j \in h..(K + 1) : j \in h..K \/ j = K + 1
    BY <1>3
  <2>7. ASSUME NEW j \in h..(K + 1)
        PROVE  /\ mem'[g[j]].read_head_ = Clamp(got[t] - Base[j])
               /\ mem'[g[j]].write_head_ = Clamp(sent[t] - Base[j])
               /\ \A k \in Nodes : mem'[g[j]].elements_[k] =
                    IF Base[j] + k < sent[t] THEN v[Base[j] + k] ELSE kEmpty
    <3>1. CASE j \in h..K
      BY <2>2, <3>1 DEF LaneOrder, Filled
    <3>2. CASE j = K + 1
      BY <2>3, <2>5, <3>2
    <3> QED
      BY <2>6, <3>1, <3>2
  <2> QED
    BY <1>2, <2>1, <2>7 DEF Filled, Clamp
<1>10. ProducerAt(t, K + 1, h, g)' /\ ConsumerAt(t, h)'
  <2>1. Base[K + 1] = Base[K] + BufferSize /\ Base[K] \in Nat /\ h < K + 1 /\ (K + 1) - 1 = K
    BY <1>3, BaseIs
  <2>2. buffer'[t] = g[K] /\ sent'[t] = Base[K + 1] - 1
    BY <1>1, <1>2, <1>3, <1>7, <2>1, LaneConstants
  <2>3. sent'[t] < MaxItems
    BY <1>1, <1>2 DEF LaneOrder, ProducerAt
  <2> QED
    BY <1>2, <2>1, <2>2, <2>3 DEF LaneOrder, ProducerAt, ConsumerAt
<1>11. Pooled(t)' = Pooled(t) /\ PoolBuffers(t)' = PoolBuffers(t)
  BY <1>2 DEF Pooled, PoolBuffers
<1>12. PoolAt(t)'
  <2>1. cpc[t] \in {"store", "advance"} => old[t] \in Buffers /\ old[t] # nullptr
    BY LaneConstants DEF LaneOrder, ConsumerAt
  <2>2. \A k \in Pooled(t) : mem'[items_[t][k]] = mem[items_[t][k]]
    BY <1>4, <1>5 DEF LaneOrder, PoolAt
  <2>3. cpc[t] \in {"store", "advance"} => mem'[old[t]] = mem[old[t]]
    BY <1>4, <1>5, <2>1
  <2> QED
    BY <1>1, <1>2, <1>11, <2>2, <2>3 DEF LaneOrder, PoolAt
<1>13. Apart(t, K + 1, h, g)'
  BY <1>1, <1>2, <1>7, <1>11 DEF LaneOrder, Apart
<1>14. Holdings(t)' = Holdings(t)
  <2>1. Chain(head[t]) = Run(h, K, f) /\ Chain(head[t])' = Run(h, K + 1, g)
    BY <1>4, <1>8, ChainIs, ChainIsNow DEF LaneOrder, TypeOK
  <2>2. ProducerHas(t) = {p} /\ ProducerHas(t)' = {} /\ ConsumerHas(t)' = ConsumerHas(t)
    BY <1>0, <1>1, <1>2 DEF ProducerHas, ConsumerHas
  <2> QED
    BY <1>7, <1>11, <2>1, <2>2 DEF Holdings
<1>15. f[K] \in Holdings(t)
  BY <1>3, ChainIs DEF LaneOrder, TypeOK, Holdings, Run
<1> QED
  BY <1>4, <1>8, <1>9, <1>10, <1>12, <1>13, <1>14, <1>15 DEF LaneOrder

\* The buffer that is filled has the number of the last or, once the next is
\* linked, of the last but one, and the place for element number sent[t].
LEMMA FilledBuffer ==
  ASSUME TypeOK, NEW t \in Lanes, NEW K, NEW h, NEW f, NEW v, LaneOrder(t, K, h, f, v),
         pc[t] = "fill"
  PROVE  \E j \in h..K :
           /\ buffer[t] = f[j] /\ mem[f[j]].write_head_ = sent[t] - Base[j]
           /\ Base[j] <= sent[t] /\ sent[t] < Base[j] + BufferSize
           /\ Base[K] <= sent[t] + 1 /\ sent[t] + 1 < Base[K] + BufferSize
<1>1. CASE buffer[t] = f[K] /\ Base[K] <= sent[t] /\ sent[t] < Base[K] + BufferSize - 1
  <2>1. sent[t] - Base[K] \in 0..BufferSize
    BY <1>1, LastBuffer, LaneConstants
  <2>2. mem[f[K]].write_head_ = sent[t] - Base[K]
    BY <2>1, LastBuffer, ClampIs DEF LaneOrder, Filled
  <2> QED
    BY <1>1, <2>2, LastBuffer, LaneConstants
<1>2. CASE h < K /\ buffer[t] = f[K - 1] /\ sent[t] = Base[K] - 1
  <2>1. K - 1 \in h..K /\ K \in Nat \ {0}
    BY <1>2, LastBuffer
  <2>2. Base[K - 1] \in Nat /\ Base[K] = Base[K - 1] + BufferSize
    BY <2>1, BaseIs
  <2>3. sent[t] - Base[K - 1] \in 0..BufferSize
    BY <1>2, <2>2, LaneConstants
  <2>4. mem[f[K - 1]].write_head_ = sent[t] - Base[K - 1]
    BY <2>1, <2>3, ClampIs DEF LaneOrder, Filled
  <2> QED
    BY <1>2, <2>1, <2>2, <2>4, LaneConstants
<1> QED
  BY <1>1, <1>2 DEF LaneOrder, ProducerAt

\* The element is in its place, and is published with the value of count_.
LEMMA PublishKeepsLane ==
  ASSUME TypeOK, NEW t \in Lanes, NEW K, NEW h, NEW f, NEW v, LaneOrder(t, K, h, f, v),
         NEW value \in Nat, Publish(t, value),
         NEW w \in [Nat -> Nat], w[sent[t]] = value, \A n \in Nat : n < sent[t] => w[n] = v[n]
  PROVE  /\ LaneOrder(t, K, h, f, w)' /\ Holdings(t)' = Holdings(t)
         /\ mem' \in [Buffers -> Contents]
         /\ \A c \in Buffers \ Holdings(t) : mem'[c] = mem[c]
<1>0. pc[t] = "fill"
  BY DEF Publish
<1>1. PICK j \in h..K :
        /\ buffer[t] = f[j] /\ mem[f[j]].write_head_ = sent[t] - Base[j]
        /\ Base[j] <= sent[t] /\ sent[t] < Base[j] + BufferSize
        /\ Base[K] <= sent[t] + 1 /\ sent[t] + 1 < Base[K] + BufferSize
  BY <1>0, FilledBuffer
<1>2. PICK s, n : s = sent[t] /\ n = s - Base[j]
  OBVIOUS
<1>3. /\ K \in Nat /\ f \in [Nat -> Buffers] /\ f[j] \in Buffers /\ s \in Nat /\ got[t] \in Nat
      /\ j \in Nat /\ Base[j] \in Nat /\ \A i \in h..K : i \in Nat /\ Base[i] \in Nat /\ f[i] \in Buffers
      /\ n \in Nodes /\ n \in Nat /\ n + 1 \in 0..BufferSize /\ s = Base[j] + n
  <2>1. n \in Nat /\ n < BufferSize
    BY <1>1, <1>2, LastBuffer, LaneConstants
  <2> QED
    BY <1>1, <1>2, <2>1, LastBuffer, LaneConstants
<1>4. /\ sent'[t] = s + 1 /\ pc'[t] = "idle" /\ s < MaxItems
      /\ UNCHANGED <<items_, read_count_, write_count_, tail, buffer, popped, head, cpc, old, got>>
  BY <1>0, <1>2 DEF Publish, TypeOK, pools, consumerVars, LaneOrder, ProducerAt
<1>5. /\ mem' \in [Buffers -> Contents]
      /\ \A c \in Buffers \ {f[j]} : mem'[c] = mem[c]
      /\ mem'[f[j]].next_ = mem[f[j]].next_
      /\ mem'[f[j]].read_head_ = mem[f[j]].read_head_
      /\ mem'[f[j]].write_head_ = n + 1
      /\ mem'[f[j]].elements_ = [mem[f[j]].elements_ EXCEPT ![n] = value]
      /\ mem[f[j]].elements_ \in [Nodes -> Nat \cup {kEmpty}]
  <2>1. PICK d : d = [[mem[f[j]] EXCEPT !.elements_[n] = value] EXCEPT !.write_head_ = n + 1]
    OBVIOUS
  <2>2. mem[f[j]] \in Contents /\ mem[f[j]].write_head_ = n
    BY <1>1, <1>2, <1>3 DEF TypeOK
  <2>3. /\ d \in Contents /\ d.write_head_ = n + 1
        /\ d.next_ = mem[f[j]].next_ /\ d.read_head_ = mem[f[j]].read_head_
        /\ d.elements_ = [mem[f[j]].elements_ EXCEPT ![n] = value]
    BY <1>3, <2>1, <2>2 DEF Contents
  <2>4. mem' = [mem EXCEPT ![f[j]] = d]
    BY <1>1, <1>3, <2>1, <2>2 DEF Publish, TypeOK
  <2>5. mem[f[j]].elements_ \in [Nodes -> Nat \cup {kEmpty}]
    BY <2>2 DEF Contents
  <2> QED
    BY <1>3, <2>3, <2>4, <2>5 DEF TypeOK
<1>6. \A i \in h..K : i # j => f[i] # f[j] /\ mem'[f[i]] = mem[f[i]]
  BY <1>1, <1>3, <1>5 DEF LaneOrder, Chained
<1>7. Chained(t, K, h, f)'
  <2>1. \A i \in h..K : mem'[f[i]].next_ = mem[f[i]].next_
    BY <1>5, <1>6
  <2>2. K \in h..K /\ \A i \in h..(K - 1) : i \in h..K
    BY LastBuffer
  <2> QED
    BY <1>4, <2>1, <2>2 DEF LaneOrder, Chained
<1>8. Filled(t, K, h, f, w)'
  <2> SUFFICES ASSUME NEW i \in h..K
               PROVE  /\ mem'[f[i]].read_head_ = Clamp(got[t] - Base[i])
                      /\ mem'[f[i]].write_head_ = Clamp((s + 1) - Base[i])
                      /\ \A k \in Nodes : mem'[f[i]].elements_[k] =
                           IF Base[i] + k < s + 1 THEN w[Base[i] + k] ELSE kEmpty
    BY <1>4 DEF Filled, Clamp
  <2>1. /\ mem[f[i]].read_head_ = Clamp(got[t] - Base[i])
        /\ mem[f[i]].write_head_ = Clamp(s - Base[i])
        /\ \A k \in Nodes : mem[f[i]].elements_[k] =
             IF Base[i] + k < s THEN v[Base[i] + k] ELSE kEmpty
    BY <1>2 DEF LaneOrder, Filled
  <2>2. mem'[f[i]].read_head_ = Clamp(got[t] - Base[i])
    BY <1>5, <1>6, <2>1
  <2>3. CASE i = j
    <3>1. Clamp((s + 1) - Base[j]) = n + 1
      <4>1. (s + 1) - Base[j] = n + 1
        BY <1>3
      <4> QED
        BY <1>3, <4>1, ClampIs
    <3>2. ASSUME NEW k \in Nodes
          PROVE  mem'[f[j]].elements_[k] = IF Base[j] + k < s + 1 THEN w[Base[j] + k] ELSE kEmpty
      <4>1. CASE k = n
        BY <1>2, <1>3, <1>5, <4>1
      <4>2. CASE k # n
        <5>1. mem'[f[j]].elements_[k] = mem[f[j]].elements_[k]
          BY <1>3, <1>5, <4>2
        <5>2. Base[j] + k < s + 1 <=> Base[j] + k < s
          BY <1>3, <4>2, LaneConstants
        <5>3. Base[j] + k \in Nat
          BY <1>3, LaneConstants
        <5> QED
          BY <1>2, <2>1, <2>3, <5>1, <5>2, <5>3
      <4> QED
        BY <4>1, <4>2
    <3> QED
      BY <1>5, <2>2, <2>3, <3>1, <3>2
  <2>4. CASE i # j
    <3>1. /\ i \in Nat /\ Base[i] \in Nat
          /\ i < j => Base[i] + BufferSize <= Base[j]
          /\ j < i => Base[j] + BufferSize <= Base[i]
      BY <1>3, BaseIs
    <3>2. \/ Base[i] + BufferSize <= s
          \/ s + 1 <= Base[i]
      BY <1>1, <1>2, <1>3, <2>4, <3>1, LaneConstants
    <3>3. Clamp((s + 1) - Base[i]) = Clamp(s - Base[i])
      <4>1. s - Base[i] \in Int /\ (s + 1) - Base[i] \in Int
        BY <1>3, <3>1
      <4>2. CASE Base[i] + BufferSize <= s
        <5>1. BufferSize <= s - Base[i] /\ BufferSize <= (s + 1) - Base[i]
          BY <1>3, <3>1, <4>2, LaneConstants
        <5> QED
          BY <4>1, <5>1, ClampIs
      <4>3. CASE s + 1 <= Base[i]
        <5>1. s - Base[i] <= 0 /\ (s + 1) - Base[i] <= 0
          BY <1>3, <3>1, <4>3
        <5> QED
          BY <4>1, <5>1, ClampIs
      <4> QED
        BY <3>2, <4>2, <4>3
    <3>4. ASSUME NEW k \in Nodes
          PROVE  mem[f[i]].elements_[k] = IF Base[i] + k < s + 1 THEN w[Base[i] + k] ELSE kEmpty
      <4>1. Base[i] + k \in Nat /\ (Base[i] + k < s + 1 <=> Base[i] + k < s)
        BY <1>3, <3>1, <3>2, LaneConstants
      <4> QED
        BY <1>2, <2>1, <4>1
    <3> QED
      BY <1>6, <2>1, <2>2, <2>4, <3>3, <3>4
  <2> QED
    BY <2>3, <2>4
<1>9. ProducerAt(t, K, h, f)' /\ ConsumerAt(t, h)'
  <2>1. got[t] <= s + 1
    BY <1>2, <1>3 DEF LaneOrder, ConsumerAt
  <2> QED
    BY <1>1, <1>2, <1>4, <2>1 DEF LaneOrder, ProducerAt, ConsumerAt
<1>10. Pooled(t)' = Pooled(t) /\ PoolBuffers(t)' = PoolBuffers(t)
  BY <1>4 DEF Pooled, PoolBuffers
<1>11. f[j] \in Run(h, K, f) /\ f[j] \in Holdings(t)
  BY <1>3, ChainIs DEF LaneOrder, TypeOK, Holdings, Run
<1>12. PoolAt(t)'
  <2>1. cpc[t] \in {"store", "advance"} => old[t] \in Buffers /\ old[t] # nullptr
    BY LaneConstants DEF LaneOrder, ConsumerAt
  <2>2. \A k \in Pooled(t) : mem'[items_[t][k]] = mem[items_[t][k]]
    <3>1. \A k \in Pooled(t) : items_[t][k] \in Buffers /\ items_[t][k] # f[j]
      BY <1>11 DEF LaneOrder, PoolAt, Apart, PoolBuffers
    <3> QED
      BY <1>5, <3>1
  <2>3. cpc[t] \in {"store", "advance"} => mem'[old[t]] = mem[old[t]]
    BY <1>5, <1>11, <2>1 DEF LaneOrder, Apart
  <2> QED
    BY <1>4, <1>10, <2>2, <2>3 DEF LaneOrder, PoolAt
<1>13. Apart(t, K, h, f)'
  BY <1>0, <1>4, <1>10 DEF LaneOrder, Apart
<1>14. Holdings(t)' = Holdings(t)
  <2>1. Chain(head[t]) = Run(h, K, f) /\ Chain(head[t])' = Run(h, K, f)
    BY <1>5, <1>7, ChainIs, ChainIsNow DEF LaneOrder, TypeOK
  <2>2. ProducerHas(t) = {} /\ ProducerHas(t)' = {} /\ ConsumerHas(t)' = ConsumerHas(t)
    BY <1>0, <1>4 DEF ProducerHas, ConsumerHas
  <2> QED
    BY <1>10, <2>1, <2>2 DEF Holdings
<1> QED
  BY <1>5, <1>7, <1>8, <1>9, <1>11, <1>12, <1>13, <1>14 DEF LaneOrder

-----------------------------------------------------------------------------
(* The steps of dequeue, in the lane they are made in. *)

\* The head of the lane is in its first buffer.
LEMMA HeadBuffer ==
  ASSUME TypeOK, NEW t \in Lanes, NEW K, NEW h, NEW f, NEW v, LaneOrder(t, K, h, f, v),
         cpc[t] = "idle"
  PROVE  /\ head[t] = f[h] /\ f[h] \in Buffers
         /\ got[t] - Base[h] \in Nodes /\ mem[f[h]].read_head_ = got[t] - Base[h]
         /\ InBuffer(t)
         /\ HeadCount(t) = IF got[t] < sent[t] THEN v[got[t]] ELSE kEmpty
<1>1. /\ head[t] = f[h] /\ h \in h..K /\ f[h] \in Buffers /\ Base[h] \in Nat /\ got[t] \in Nat
      /\ Base[h] <= got[t] /\ got[t] < Base[h] + BufferSize
  BY LastBuffer DEF LaneOrder, Chained, ConsumerAt
<1>2. PICK n : n = got[t] - Base[h]
  OBVIOUS
<1>3. n \in Nodes /\ n \in 0..BufferSize /\ n < BufferSize /\ Base[h] + n = got[t]
  BY <1>1, <1>2, LaneConstants DEF Nodes
<1>4. mem[f[h]].read_head_ = n
  BY <1>1, <1>2, <1>3, ClampIs DEF LaneOrder, Filled
<1>5. mem[f[h]].elements_[n] = IF got[t] < sent[t] THEN v[got[t]] ELSE kEmpty
  BY <1>1, <1>3 DEF LaneOrder, Filled
<1> QED
  BY <1>1, <1>2, <1>3, <1>4, <1>5 DEF InBuffer, HeadCount

\* The element at the head is taken.
LEMMA TakeKeepsLane ==
  ASSUME TypeOK, NEW t \in Lanes, NEW K, NEW h, NEW f, NEW v, LaneOrder(t, K, h, f, v), Take(t)
  PROVE  /\ LaneOrder(t, K, h, f, v)' /\ Holdings(t)' = Holdings(t)
         /\ mem' \in [Buffers -> Contents]
         /\ \A c \in Buffers \ Holdings(t) : mem'[c] = mem[c]
<1>1. PICK g, n : g = got[t] /\ n = g - Base[h]
  OBVIOUS
<1>2. /\ cpc[t] = "idle" /\ HeadCount(t) # kEmpty /\ g < sent[t]
      /\ head[t] = f[h] /\ f[h] \in Buffers /\ n \in Nodes /\ mem[f[h]].read_head_ = n
  <2>1. cpc[t] = "idle"
    BY DEF Take
  <2> QED
    BY <1>1, <2>1, HeadBuffer DEF Take
<1>3. /\ K \in Nat /\ h \in h..K /\ K \in h..K /\ h \in Nat /\ f \in [Nat -> Buffers]
      /\ g \in Nat /\ Base[h] \in Nat /\ n \in Nat /\ n < BufferSize /\ g = Base[h] + n
      /\ n + 1 \in 0..BufferSize /\ sent[t] \in Nat
      /\ \A i \in h..K : i \in Nat /\ Base[i] \in Nat /\ f[i] \in Buffers
  BY <1>1, <1>2, LastBuffer, LaneConstants
<1>4. /\ got'[t] = g + 1
      /\ cpc'[t] = IF n + 1 = BufferSize THEN "unlink" ELSE "idle"
      /\ mem' = [mem EXCEPT ![f[h]].read_head_ = n + 1]
      /\ UNCHANGED <<items_, read_count_, write_count_, tail, pc, buffer, popped, sent, head, old>>
  <2>1. InBuffer(t)
    BY <1>2, HeadBuffer
  <2>2. mem' = [mem EXCEPT ![head[t]].read_head_ = @ + 1]
    BY <2>1 DEF Take
  <2>3. mem' = [mem EXCEPT ![f[h]].read_head_ = n + 1]
    BY <1>2, <2>2 DEF TypeOK
  <2> QED
    BY <1>1, <1>2, <2>1, <2>3 DEF Take, TypeOK, pools, producerVars
<1>5. /\ mem' \in [Buffers -> Contents]
      /\ \A c \in Buffers \ {f[h]} : mem'[c] = mem[c]
      /\ mem'[f[h]].next_ = mem[f[h]].next_
      /\ mem'[f[h]].read_head_ = n + 1
      /\ mem'[f[h]].write_head_ = mem[f[h]].write_head_
      /\ mem'[f[h]].elements_ = mem[f[h]].elements_
  <2>1. PICK d, c : d = [mem[f[h]] EXCEPT !.read_head_ = n + 1] /\ c = mem[f[h]]
    OBVIOUS
  <2>2. c \in Contents
    BY <1>2, <2>1 DEF TypeOK
  <2>3. /\ d \in Contents /\ d.read_head_ = n + 1
        /\ d.next_ = c.next_ /\ d.write_head_ = c.write_head_ /\ d.elements_ = c.elements_
    BY <1>3, <2>1, <2>2, ReadBuffer
  <2>4. mem' = [mem EXCEPT ![f[h]] = d]
    BY <1>4, <2>1
  <2> QED
    BY <1>2, <2>1, <2>3, <2>4 DEF TypeOK
<1>6. \A i \in h..K : i # h => f[i] # f[h] /\ mem'[f[i]] = mem[f[i]]
  BY <1>3, <1>5 DEF LaneOrder, Chained
<1>7. Chained(t, K, h, f)'
  <2>1. \A i \in h..K : mem'[f[i]].next_ = mem[f[i]].next_
    BY <1>5, <1>6
  <2>2. \A i \in h..(K - 1) : i \in h..K
    BY <1>3
  <2> QED
    BY <1>3, <1>4, <2>1, <2>2 DEF LaneOrder, Chained
<1>8. Filled(t, K, h, f, v)'
  <2>1. \A i \in h..K : /\ mem'[f[i]].write_head_ = mem[f[i]].write_head_
                        /\ mem'[f[i]].elements_ = mem[f[i]].elements_
    BY <1>5, <1>6
  <2>2. ASSUME NEW i \in h..K
        PROVE  mem'[f[i]].read_head_ = Clamp((g + 1) - Base[i])
    <3>1. CASE i = h
      <4>1. (g + 1) - Base[h] = n + 1
        BY <1>3
      <4> QED
        BY <1>3, <1>5, <3>1, <4>1, ClampIs
    <3>2. CASE i # h
      <4>1. i \in Nat /\ Base[i] \in Nat /\ Base[h] + BufferSize <= Base[i]
        BY <1>3, <3>2, BaseIs
      <4>2. /\ g - Base[i] \in Int /\ (g + 1) - Base[i] \in Int
            /\ g - Base[i] <= 0 /\ (g + 1) - Base[i] <= 0
        BY <1>3, <4>1, LaneConstants
      <4>3. mem[f[i]].read_head_ = Clamp(g - Base[i])
        BY <1>1 DEF LaneOrder, Filled
      <4> QED
        BY <1>6, <3>2, <4>2, <4>3, ClampIs
    <3> QED
      BY <3>1, <3>2
  <2> QED
    BY <1>4, <2>1, <2>2 DEF LaneOrder, Filled, Clamp
<1>9. ProducerAt(t, K, h, f)' /\ ConsumerAt(t, h)'
  <2>1. got'[t] <= sent[t]
    BY <1>2, <1>3, <1>4
  <2>2. old[t] = nullptr
    BY <1>2 DEF LaneOrder, ConsumerAt
  <2>3. ConsumerAt(t, h)'
    BY <1>3, <1>4, <2>1, <2>2, LaneConstants DEF ConsumerAt
  <2> QED
    BY <1>4, <2>3 DEF LaneOrder, ProducerAt
<1>10. Pooled(t)' = Pooled(t) /\ PoolBuffers(t)' = PoolBuffers(t)
  BY <1>4 DEF Pooled, PoolBuffers
<1>11. f[h] \in Run(h, K, f) /\ f[h] \in Holdings(t)
  BY <1>3, ChainIs DEF LaneOrder, TypeOK, Holdings, Run
<1>12. PoolAt(t)'
  <2>1. \A k \in Pooled(t) : mem'[items_[t][k]] = mem[items_[t][k]]
    <3>1. \A k \in Pooled(t) : items_[t][k] \in Buffers /\ items_[t][k] # f[h]
      BY <1>11 DEF LaneOrder, PoolAt, Apart, PoolBuffers
    <3> QED
      BY <1>5, <3>1
  <2>2. pc[t] = "link" => mem'[popped[t]] = mem[popped[t]]
    BY <1>5, <1>11 DEF LaneOrder, PoolAt, Apart
  <2> QED
    BY <1>2, <1>4, <1>10, <2>1, <2>2 DEF LaneOrder, PoolAt
<1>13. Apart(t, K, h, f)'
  BY <1>4, <1>10 DEF LaneOrder, Apart
<1>14. Holdings(t)' = Holdings(t)
  <2>1. Chain(head[t]) = Run(h, K, f) /\ Chain(head[t])' = Run(h, K, f)
    BY <1>5, <1>7, ChainIs, ChainIsNow DEF LaneOrder, TypeOK
  <2>2. ProducerHas(t)' = ProducerHas(t) /\ ConsumerHas(t)' = ConsumerHas(t)
    BY <1>4 DEF ProducerHas, ConsumerHas
  <2> QED
    BY <1>10, <2>1, <2>2 DEF Holdings
<1> QED
  BY <1>5, <1>7, <1>8, <1>9, <1>11, <1>12, <1>13, <1>14 DEF LaneOrder

\* The first buffer is unlinked: the next one is number h + 1, and there is one,
\* since the producer links it before it fills the last node.
LEMMA UnlinkKeepsLane ==
  ASSUME TypeOK, NEW t \in Lanes, NEW K, NEW h, NEW f, NEW v, LaneOrder(t, K, h, f, v), Unlink(t)
  PROVE  LaneOrder(t, K, h + 1, f, v)' /\ Holdings(t)' = Holdings(t)
<1>1. /\ K \in Nat /\ h \in Nat /\ h \in h..K /\ f \in [Nat -> Buffers]
      /\ Base[h] \in Nat /\ Base[h + 1] = Base[h] + BufferSize
      /\ sent[t] \in Nat /\ got[t] \in Nat
  BY LastBuffer, BaseIs
<1>2. /\ cpc[t] = "unlink" /\ got[t] = Base[h] + BufferSize /\ got[t] <= sent[t]
      /\ old[t] = nullptr /\ head[t] = f[h]
  BY DEF Unlink, LaneOrder, ConsumerAt, Chained
<1>3. h < K
  <2>1. h = K => sent[t] < Base[h] + BufferSize
    BY <1>1, LaneConstants DEF LaneOrder, ProducerAt, TypeOK
  <2> QED
    BY <1>1, <1>2, <2>1, LaneConstants
<1>4. /\ h + 1 \in h..K /\ h + 1 \in 0..K /\ mem[f[h]].next_ = f[h + 1] /\ f[h + 1] # nullptr
      /\ \A i \in (h + 1)..K : i \in h..K /\ i # h
      /\ \A i \in (h + 1)..(K - 1) : i \in h..(K - 1)
  <2>1. h \in h..(K - 1) /\ h + 1 \in Nat
    BY <1>1, <1>3
  <2> QED
    BY <1>1, <1>3, <2>1, LaneConstants DEF LaneOrder, Chained
<1>5. /\ old'[t] = f[h] /\ head'[t] = f[h + 1] /\ cpc'[t] = "push" /\ mem' = mem
      /\ UNCHANGED <<items_, read_count_, write_count_, tail, pc, buffer, popped, sent, got>>
  BY <1>2, <1>4 DEF Unlink, TypeOK, pools, producerVars
<1>6. f[h] \in Run(h, K, f) /\ Run(h, K, f) = Run(h + 1, K, f) \cup {f[h]}
      /\ f[h] \notin Run(h + 1, K, f) /\ f[h] \in Buffers
  <2>1. \A i \in h..K : i = h \/ i \in (h + 1)..K
    BY <1>1
  <2>2. \A i \in (h + 1)..K : f[i] # f[h]
    BY <1>1, <1>4 DEF LaneOrder, Chained
  <2> QED
    BY <1>1, <1>4, <2>1, <2>2 DEF Run
<1>7. Chained(t, K, h + 1, f)'
  BY <1>4, <1>5 DEF LaneOrder, Chained
<1>8. Filled(t, K, h + 1, f, v)'
  BY <1>4, <1>5 DEF LaneOrder, Filled
<1>9. ProducerAt(t, K, h + 1, f)'
  <2>1. h + 1 = K => ~(sent[t] = Base[K] - 1)
    BY <1>1, <1>2, LaneConstants
  <2>2. h < K => h + 1 < K \/ h + 1 = K
    BY <1>1
  <2> QED
    BY <1>5, <2>1, <2>2 DEF LaneOrder, ProducerAt
<1>10. ConsumerAt(t, h + 1)'
  BY <1>1, <1>2, <1>5, <1>6 DEF ConsumerAt
<1>11. Pooled(t)' = Pooled(t) /\ PoolBuffers(t)' = PoolBuffers(t)
  BY <1>5 DEF Pooled, PoolBuffers
<1>12. PoolAt(t)'
  BY <1>5, <1>11 DEF LaneOrder, PoolAt
<1>13. Apart(t, K, h + 1, f)'
  BY <1>5, <1>6, <1>11 DEF LaneOrder, Apart
<1>14. Holdings(t)' = Holdings(t)
  <2>1. Chain(head[t]) = Run(h, K, f) /\ Chain(head[t])' = Run(h + 1, K, f)
    BY <1>5, <1>7, ChainIs, ChainIsNow DEF LaneOrder, TypeOK
  <2>2. ProducerHas(t)' = ProducerHas(t)
    BY <1>5 DEF ProducerHas
  <2>3. ConsumerHas(t) = {} /\ ConsumerHas(t)' = {f[h]}
    BY <1>2, <1>5, <1>6, LaneConstants DEF ConsumerHas
  <2> QED
    BY <1>6, <1>11, <2>1, <2>2, <2>3 DEF Holdings
<1> QED
  BY <1>7, <1>8, <1>9, <1>10, <1>12, <1>13, <1>14 DEF LaneOrder

\* push deletes the buffer if the pool is full,
LEMMA PushFullKeepsLane ==
  ASSUME TypeOK, NEW t \in Lanes, NEW K, NEW h, NEW f, NEW v, LaneOrder(t, K, h, f, v),
         PushFull(t)
  PROVE  /\ LaneOrder(t, K, h, f, v)' /\ Holdings(t)' = Holdings(t) \ {old[t]}
         /\ old[t] \in Holdings(t) /\ live' = live \ {old[t]}
<1>1. /\ cpc[t] = "push" /\ got[t] = Base[h] /\ old[t] \in Buffers /\ old[t] # nullptr
  BY LaneConstants DEF PushFull, LaneOrder, ConsumerAt
<1>2. /\ cpc'[t] = "idle" /\ old'[t] = nullptr /\ live' = live \ {old[t]} /\ mem' = mem
      /\ UNCHANGED <<items_, read_count_, write_count_, tail, pc, buffer, popped, sent, head, got>>
  BY DEF PushFull, TypeOK, pools, producerVars
<1>3. /\ Chained(t, K, h, f)' /\ Filled(t, K, h, f, v)'
      /\ Pooled(t)' = Pooled(t) /\ PoolBuffers(t)' = PoolBuffers(t)
      /\ Chain(head[t])' = Chain(head[t])
  BY <1>2, QuietStep
<1>4. ProducerAt(t, K, h, f)'
  BY <1>2 DEF LaneOrder, ProducerAt
<1>5. ConsumerAt(t, h)'
  <2>1. h \in h..K /\ Base[h] \in Nat
    BY LastBuffer
  <2> QED
    BY <1>1, <1>2, <2>1, LaneConstants DEF LaneOrder, ConsumerAt
<1>6. PoolAt(t)'
  BY <1>2, <1>3 DEF LaneOrder, PoolAt
<1>7. Apart(t, K, h, f)'
  BY <1>2, <1>3 DEF LaneOrder, Apart
<1>8. Holdings(t)' = Holdings(t) \ {old[t]} /\ old[t] \in Holdings(t)
  <2>1. Chain(head[t]) = Run(h, K, f)
    BY ChainIs DEF LaneOrder, TypeOK
  <2>2. old[t] \notin Chain(head[t]) /\ old[t] \notin PoolBuffers(t) /\ old[t] \notin ProducerHas(t)
    BY <1>1, <2>1 DEF LaneOrder, Apart, ProducerHas
  <2>3. ConsumerHas(t) = {old[t]} /\ ConsumerHas(t)' = {} /\ ProducerHas(t)' = ProducerHas(t)
    BY <1>1, <1>2 DEF ConsumerHas, ProducerHas
  <2> QED
    BY <1>3, <2>2, <2>3 DEF Holdings
<1> QED
  BY <1>2, <1>3, <1>4, <1>5, <1>6, <1>7, <1>8 DEF LaneOrder

\* goes on if it is not,
LEMMA PushRoomKeepsLane ==
  ASSUME TypeOK, NEW t \in Lanes, NEW K, NEW h, NEW f, NEW v, LaneOrder(t, K, h, f, v),
         PushRoom(t)
  PROVE  LaneOrder(t, K, h, f, v)' /\ Holdings(t)' = Holdings(t)
<1>1. /\ cpc[t] = "push" /\ cpc'[t] = "reset" /\ mem' = mem
      /\ UNCHANGED <<items_, read_count_, write_count_, tail, pc, buffer, popped, sent, head, old, got>>
  BY DEF PushRoom, TypeOK, pools, producerVars
<1>2. /\ Chained(t, K, h, f)' /\ Filled(t, K, h, f, v)'
      /\ Pooled(t)' = Pooled(t) /\ PoolBuffers(t)' = PoolBuffers(t)
      /\ Chain(head[t])' = Chain(head[t])
  BY <1>1, QuietStep
<1>3. ProducerAt(t, K, h, f)' /\ ConsumerAt(t, h)'
  BY <1>1 DEF LaneOrder, ProducerAt, ConsumerAt
<1>4. PoolAt(t)' /\ Apart(t, K, h, f)'
  BY <1>1, <1>2 DEF LaneOrder, PoolAt, Apart
<1>5. Holdings(t)' = Holdings(t)
  BY <1>1, <1>2 DEF Holdings, ConsumerHas, ProducerHas
<1> QED
  BY <1>2, <1>3, <1>4, <1>5 DEF LaneOrder

\* makes the buffer as new,
LEMMA PushResetKeepsLane ==
  ASSUME TypeOK, NEW t \in Lanes, NEW K, NEW h, NEW f, NEW v, LaneOrder(t, K, h, f, v),
         PushReset(t)
  PROVE  /\ LaneOrder(t, K, h, f, v)' /\ Holdings(t)' = Holdings(t)
         /\ mem' \in [Buffers -> Contents]
         /\ \A c \in Buffers \ Holdings(t) : mem'[c] = mem[c]
<1>1. /\ cpc[t] = "reset" /\ got[t] = Base[h] /\ old[t] \in Buffers /\ old[t] # nullptr
      /\ old[t] \notin Run(h, K, f) /\ old[t] \notin PoolBuffers(t)
      /\ pc[t] = "link" => old[t] # popped[t]
  BY LaneConstants DEF PushReset, LaneOrder, ConsumerAt, Apart
<1>2. /\ cpc'[t] = "store" /\ mem' = [mem EXCEPT ![old[t]] = Fresh]
      /\ UNCHANGED <<items_, read_count_, write_count_, tail, pc, buffer, popped, sent, head, old, got>>
  BY DEF PushReset, Reset, TypeOK, pools, producerVars
<1>3. /\ mem' \in [Buffers -> Contents] /\ mem'[old[t]] = Fresh
      /\ \A c \in Buffers \ {old[t]} : mem'[c] = mem[c]
  BY <1>1, <1>2, FreshIs DEF TypeOK
<1>4. /\ \A j \in h..K : mem'[f[j]] = mem[f[j]]
      /\ \A k \in Pooled(t) : mem'[items_[t][k]] = mem[items_[t][k]]
      /\ pc[t] = "link" => mem'[popped[t]] = mem[popped[t]]
  <2>1. \A j \in h..K : f[j] \in Buffers /\ f[j] # old[t]
    BY <1>1, LastBuffer DEF Run
  <2>2. \A k \in Pooled(t) : items_[t][k] \in Buffers /\ items_[t][k] # old[t]
    BY <1>1 DEF LaneOrder, PoolAt, PoolBuffers
  <2>3. pc[t] = "link" => popped[t] \in Buffers
    BY DEF LaneOrder, PoolAt
  <2> QED
    BY <1>1, <1>3, <2>1, <2>2, <2>3
<1>5. Chained(t, K, h, f)'
  BY <1>2, <1>4, LastBuffer DEF LaneOrder, Chained
<1>6. Filled(t, K, h, f, v)'
  BY <1>2, <1>4 DEF LaneOrder, Filled
<1>7. ProducerAt(t, K, h, f)' /\ ConsumerAt(t, h)'
  BY <1>1, <1>2 DEF LaneOrder, ProducerAt, ConsumerAt
<1>8. Pooled(t)' = Pooled(t) /\ PoolBuffers(t)' = PoolBuffers(t)
  BY <1>2 DEF Pooled, PoolBuffers
<1>9. PoolAt(t)'
  BY <1>2, <1>3, <1>4, <1>8 DEF LaneOrder, PoolAt
<1>10. Apart(t, K, h, f)'
  BY <1>2, <1>8 DEF LaneOrder, Apart
<1>11. Holdings(t)' = Holdings(t) /\ old[t] \in Holdings(t)
  <2>1. Chain(head[t])' = Chain(head[t])
    BY <1>3, <1>5, ChainIs, ChainIsNow DEF LaneOrder, TypeOK
  <2>2. ConsumerHas(t)' = ConsumerHas(t) /\ ProducerHas(t)' = ProducerHas(t)
        /\ old[t] \in ConsumerHas(t)
    BY <1>1, <1>2 DEF ConsumerHas, ProducerHas
  <2> QED
    BY <1>8, <2>1, <2>2 DEF Holdings
<1> QED
  BY <1>3, <1>5, <1>6, <1>7, <1>9, <1>10, <1>11 DEF LaneOrder

\* stores it into the place at write_count_, which is not one of those to be popped,
LEMMA PushStoreKeepsLane ==
  ASSUME TypeOK, NEW t \in Lanes, NEW K, NEW h, NEW f, NEW v, LaneOrder(t, K, h, f, v),
         PushStore(t)
  PROVE  LaneOrder(t, K, h, f, v)' /\ Holdings(t)' = Holdings(t)
<1> DEFINE r == read_count_[t]
           w == write_count_[t]
<1>1. /\ cpc[t] = "store" /\ cpc'[t] = "advance" /\ mem' = mem /\ r \in Places /\ w \in Places
      /\ items_'[t][w] = old[t] /\ \A k \in Places \ {w} : items_'[t][k] = items_[t][k]
      /\ UNCHANGED <<read_count_, write_count_, tail, pc, buffer, popped, sent, head, old, got>>
  BY DEF PushStore, TypeOK, producerVars
<1>2. /\ Pooled(t)' = Pooled(t) /\ \A k \in Pooled(t) : items_'[t][k] = items_[t][k]
  <2>1. Pooled(t) = Ring(r, w) /\ Pooled(t)' = Ring(r, w)
    BY <1>1 DEF Pooled, Ring
  <2>2. w \notin Pooled(t) /\ Pooled(t) \subseteq Places
    BY <1>1, <2>1, RingIs DEF Ring
  <2> QED
    BY <1>1, <2>1, <2>2
<1>3. PoolBuffers(t)' = PoolBuffers(t)
  BY <1>2 DEF PoolBuffers
<1>4. pc[t] = "advance" => items_'[t][r] = items_[t][r]
  BY <1>1 DEF LaneOrder, PoolAt
<1>5. Chained(t, K, h, f)' /\ Filled(t, K, h, f, v)'
  BY <1>1 DEF LaneOrder, Chained, Filled
<1>6. ProducerAt(t, K, h, f)' /\ ConsumerAt(t, h)'
  BY <1>1 DEF LaneOrder, ProducerAt, ConsumerAt
<1>7. PoolAt(t)'
  BY <1>1, <1>2, <1>4 DEF LaneOrder, PoolAt
<1>8. Apart(t, K, h, f)'
  BY <1>1, <1>3 DEF LaneOrder, Apart
<1>9. Holdings(t)' = Holdings(t)
  <2>1. Chain(head[t])' = Chain(head[t])
    BY <1>1 DEF Chain
  <2> QED
    BY <1>1, <1>3, <2>1 DEF Holdings, ConsumerHas, ProducerHas
<1> QED
  BY <1>5, <1>6, <1>7, <1>8, <1>9 DEF LaneOrder

\* and makes that place one of them, unless the pool overruns.
LEMMA PushAdvanceKeepsLane ==
  ASSUME TypeOK, NEW t \in Lanes, NEW K, NEW h, NEW f, NEW v, LaneOrder(t, K, h, f, v),
         PushAdvance(t), ~overrun'
  PROVE  LaneOrder(t, K, h, f, v)' /\ Holdings(t)' = Holdings(t)
<1> DEFINE r == read_count_[t]
           w == write_count_[t]
<1>1. /\ cpc[t] = "advance" /\ cpc'[t] = "idle" /\ mem' = mem /\ r \in Places /\ w \in Places
      /\ write_count_'[t] = After(w) /\ After(w) # r /\ old'[t] = nullptr
      /\ UNCHANGED <<items_, read_count_, tail, pc, buffer, popped, sent, head, got>>
  BY DEF PushAdvance, TypeOK, producerVars
<1>2. /\ old[t] \in Buffers /\ old[t] # nullptr /\ mem[old[t]] = Fresh /\ items_[t][w] = old[t]
      /\ got[t] = Base[h]
      /\ old[t] \notin Run(h, K, f) /\ old[t] \notin PoolBuffers(t)
      /\ pc[t] = "link" => old[t] # popped[t]
  BY <1>1, LaneConstants DEF LaneOrder, PoolAt, ConsumerAt, Apart
<1>3. Pooled(t)' = Pooled(t) \cup {w} /\ w \notin Pooled(t)
  <2>1. Pooled(t) = Ring(r, w) /\ Pooled(t)' = Ring(r, After(w))
    BY <1>1 DEF Pooled, Ring
  <2> QED
    BY <1>1, <2>1, RingIs
<1>4. PoolBuffers(t)' = PoolBuffers(t) \cup {old[t]}
  BY <1>1, <1>2, <1>3 DEF PoolBuffers
<1>5. Chained(t, K, h, f)' /\ Filled(t, K, h, f, v)'
  BY <1>1 DEF LaneOrder, Chained, Filled
<1>6. ProducerAt(t, K, h, f)'
  BY <1>1 DEF LaneOrder, ProducerAt
<1>7. ConsumerAt(t, h)'
  <2>1. h \in h..K /\ Base[h] \in Nat
    BY LastBuffer
  <2> QED
    BY <1>1, <1>2, <2>1, LaneConstants DEF LaneOrder, ConsumerAt
<1>8. PoolAt(t)'
  <2>1. \A k \in Pooled(t) : items_[t][k] # old[t]
    BY <1>2 DEF PoolBuffers
  <2>2. \A j, k \in Pooled(t)' : items_[t][j] = items_[t][k] => j = k
    BY <1>2, <1>3, <2>1 DEF LaneOrder, PoolAt
  <2>3. \A k \in Pooled(t)' : items_[t][k] \in Buffers /\ mem[items_[t][k]] = Fresh
    BY <1>2, <1>3 DEF LaneOrder, PoolAt
  <2> QED
    BY <1>1, <2>2, <2>3 DEF LaneOrder, PoolAt
<1>9. Apart(t, K, h, f)'
  BY <1>1, <1>2, <1>4 DEF LaneOrder, Apart
<1>10. Holdings(t)' = Holdings(t)
  <2>1. Chain(head[t])' = Chain(head[t])
    BY <1>1 DEF Chain
  <2>2. ConsumerHas(t) = {old[t]} /\ ConsumerHas(t)' = {} /\ ProducerHas(t)' = ProducerHas(t)
    BY <1>1, <1>2 DEF ConsumerHas, ProducerHas
  <2> QED
    BY <1>4, <2>1, <2>2 DEF Holdings
<1> QED
  BY <1>5, <1>6, <1>7, <1>8, <1>9, <1>10 DEF LaneOrder

-----------------------------------------------------------------------------
(* What a step of one lane is to all of them. *)

\* A step of lane t keeps it in order, whose elements are now v, and changes no
\* other buffer than those it holds or gets from new.
LaneMoves(t, v) ==
  /\ \E K, h, f : LaneOrder(t, K, h, f, v)'
  /\ mem' \in [Buffers -> Contents]
  /\ \A c \in Buffers \ (Holdings(t) \cup Holdings(t)') : mem'[c] = mem[c]
  /\ Holdings(t)' \cap live \subseteq Holdings(t) /\ Holdings(t)' \subseteq Buffers
  /\ live' = (live \ Holdings(t)) \cup Holdings(t)'

\* Nothing of lane u is changed but the contents of buffers.
LaneRests(u) ==
  /\ items_'[u] = items_[u] /\ read_count_'[u] = read_count_[u]
  /\ write_count_'[u] = write_count_[u]
  /\ tail'[u] = tail[u] /\ pc'[u] = pc[u] /\ buffer'[u] = buffer[u]
  /\ popped'[u] = popped[u] /\ sent'[u] = sent[u]
  /\ head'[u] = head[u] /\ cpc'[u] = cpc[u] /\ old'[u] = old[u] /\ got'[u] = got[u]

\* Every step but Publish moves its lane.
LEMMA StepMovesLane ==
  ASSUME TypeOK, NEW t \in Lanes, NEW K, NEW h, NEW f, NEW v, LaneOrder(t, K, h, f, v),
         Holdings(t) \subseteq live,
         EnqueueCall(t) \/ Pop(t) \/ Link(t) \/ Consumer(t), ~overrun'
  PROVE  LaneMoves(t, v)
<1>1. mem \in [Buffers -> Contents] /\ Holdings(t) \subseteq Buffers
  BY DEF TypeOK
<1>2. ASSUME LaneOrder(t, K, h, f, v)' /\ Holdings(t)' = Holdings(t), live' = live, mem' = mem
      PROVE  LaneMoves(t, v)
  BY <1>1, <1>2 DEF LaneMoves
<1>3. CASE EnqueueCall(t)
  <2>1. live' = live /\ mem' = mem
    BY <1>3 DEF EnqueueCall
  <2> QED
    BY <1>2, <1>3, <2>1, EnqueueCallKeepsLane
<1>4. CASE PopNew(t)
  <2>1. PICK b \in Buffers \ live :
          /\ LaneOrder(t, K, h, f, v)'
          /\ Holdings(t)' = Holdings(t) \cup {b} /\ live' = live \cup {b}
          /\ \A c \in Buffers \ {b} : mem'[c] = mem[c]
    BY <1>4, PopNewKeepsLane
  <2>2. mem' \in [Buffers -> Contents]
    BY <1>1, <1>4, FreshIs DEF PopNew
  <2> QED
    BY <1>1, <2>1, <2>2 DEF LaneMoves
<1>5. CASE PopFound(t) \/ PopTake(t)
  <2>1. live' = live /\ mem' = mem
    BY <1>5 DEF PopFound, PopTake
  <2> QED
    BY <1>2, <1>5, <2>1, PopLooksKeepsLane
<1>6. CASE PopAdvance(t)
  <2>1. live' = live /\ mem' = mem
    BY <1>6 DEF PopAdvance
  <2> QED
    BY <1>2, <1>6, <2>1, PopAdvanceKeepsLane
<1>7. CASE Link(t)
  <2>1. PICK g : /\ LaneOrder(t, K + 1, h, g, v)' /\ Holdings(t)' = Holdings(t)
                 /\ mem' \in [Buffers -> Contents]
                 /\ \A c \in Buffers \ Holdings(t) : mem'[c] = mem[c]
    BY <1>7, LinkKeepsLane
  <2>2. live' = live
    BY <1>7 DEF Link
  <2> QED
    BY <1>1, <2>1, <2>2 DEF LaneMoves
<1>8. CASE Take(t)
  <2>1. live' = live
    BY <1>8 DEF Take
  <2> QED
    BY <1>1, <1>8, <2>1, TakeKeepsLane DEF LaneMoves
<1>9. CASE Unlink(t)
  <2>1. live' = live /\ mem' = mem
    BY <1>9 DEF Unlink
  <2>2. LaneOrder(t, K, h + 1, f, v)' /\ Holdings(t)' = Holdings(t)
    BY <1>9, UnlinkKeepsLane
  <2> QED
    BY <1>1, <2>1, <2>2 DEF LaneMoves
<1>10. CASE PushFull(t)
  <2>1. mem' = mem
    BY <1>10 DEF PushFull
  <2> QED
    BY <1>1, <1>10, <2>1, PushFullKeepsLane DEF LaneMoves
<1>11. CASE PushRoom(t)
  <2>1. live' = live /\ mem' = mem
    BY <1>11 DEF PushRoom
  <2> QED
    BY <1>2, <1>11, <2>1, PushRoomKeepsLane
<1>12. CASE PushReset(t)
  <2>1. live' = live
    BY <1>12 DEF PushReset
  <2> QED
    BY <1>1, <1>12, <2>1, PushResetKeepsLane DEF LaneMoves
<1>13. CASE PushStore(t)
  <2>1. live' = live /\ mem' = mem
    BY <1>13 DEF PushStore
  <2> QED
    BY <1>2, <1>13, <2>1, PushStoreKeepsLane
<1>14. CASE PushAdvance(t)
  <2>1. live' = live /\ mem' = mem
    BY <1>14 DEF PushAdvance
  <2> QED
    BY <1>2, <1>14, <2>1, PushAdvanceKeepsLane
<1> QED
  BY <1>3, <1>4, <1>5, <1>6, <1>7, <1>8, <1>9, <1>10, <1>11, <1>12, <1>13, <1>14
  DEF Pop, Consumer, Push

\* So does Publish, which appends an element.
LEMMA PublishMovesLane ==
  ASSUME TypeOK, NEW t \in Lanes, NEW K, NEW h, NEW f, NEW v, LaneOrder(t, K, h, f, v),
         Holdings(t) \subseteq live, NEW value \in Nat, Publish(t, value),
         NEW w \in [Nat -> Nat], w[sent[t]] = value, \A n \in Nat : n < sent[t] => w[n] = v[n]
  PROVE  LaneMoves(t, w)
<1>1. /\ LaneOrder(t, K, h, f, w)' /\ Holdings(t)' = Holdings(t)
      /\ mem' \in [Buffers -> Contents]
      /\ \A c \in Buffers \ Holdings(t) : mem'[c] = mem[c]
  BY PublishKeepsLane
<1>2. live' = live /\ Holdings(t) \subseteq Buffers
  BY DEF Publish, TypeOK
<1> QED
  BY <1>1, <1>2 DEF LaneMoves

\* A step of one lane lets the others rest.
LEMMA StepRestsOthers ==
  ASSUME TypeOK, NEW t \in Lanes, NEW u \in Lanes, u # t, NEW value,
         EnqueueCall(t) \/ Pop(t) \/ Link(t) \/ Publish(t, value) \/ Consumer(t)
  PROVE  LaneRests(u)
<1> USE DEF TypeOK, LaneRests, pools, producerVars, consumerVars
<1>1. CASE EnqueueCall(t) \/ PopNew(t) \/ PopFound(t)
  BY <1>1 DEF EnqueueCall, PopNew, PopFound
<1>2. CASE PopTake(t) \/ PopAdvance(t)
  BY <1>2 DEF PopTake, PopAdvance
<1>3. CASE Link(t) \/ Publish(t, value)
  BY <1>3 DEF Link, Publish
<1>4. CASE Take(t) \/ Unlink(t)
  BY <1>4 DEF Take, Unlink
<1>5. CASE PushFull(t) \/ PushRoom(t) \/ PushReset(t)
  BY <1>5 DEF PushFull, PushRoom, PushReset
<1>6. CASE PushStore(t) \/ PushAdvance(t)
  BY <1>6 DEF PushStore, PushAdvance
<1> QED
  BY <1>1, <1>2, <1>3, <1>4, <1>5, <1>6 DEF Pop, Consumer, Push

\* The lanes that rest are in order and share nothing with the one that moves.
LEMMA OthersKeepOrder ==
  ASSUME mem \in [Buffers -> Contents], live \in SUBSET Buffers, Owned, ~destroyed,
         NEW t \in Lanes, NEW w, LaneMoves(t, w), \A u \in Lanes \ {t} : LaneRests(u),
         NEW u \in Lanes \ {t}, NEW K, NEW h, NEW f, NEW v, LaneOrder(u, K, h, f, v)
  PROVE  LaneOrder(u, K, h, f, v)' /\ Holdings(u)' = Holdings(u)
<1>1. Holdings(u) \subseteq live /\ Holdings(t) \cap Holdings(u) = {}
  BY DEF Owned
<1>2. Holdings(t)' \cap Holdings(u) = {}
  BY <1>1 DEF LaneMoves
<1>3. \A b \in Holdings(u) : mem'[b] = mem[b]
  BY <1>1, <1>2 DEF LaneMoves
<1>4. mem' \in [Buffers -> Contents]
  BY DEF LaneMoves
<1>5. LaneRests(u)
  OBVIOUS
<1> QED
  BY <1>3, <1>4, <1>5, LaneFrame DEF LaneRests

\* Who owns what, after the step.
LEMMA LanesKeepOwned ==
  ASSUME Owned, ~destroyed, live \in SUBSET Buffers,
         NEW t \in Lanes, NEW w, LaneMoves(t, w),
         \A u \in Lanes \ {t} : Holdings(u)' = Holdings(u)
  PROVE  Owned' /\ live' \in SUBSET Buffers
<1>1. /\ live = UNION {Holdings(u) : u \in Lanes}
      /\ \A u, x \in Lanes : u # x => Holdings(u) \cap Holdings(x) = {}
  BY DEF Owned
<1>2. /\ Holdings(t)' \cap live \subseteq Holdings(t) /\ Holdings(t)' \subseteq Buffers
      /\ live' = (live \ Holdings(t)) \cup Holdings(t)'
  BY DEF LaneMoves
<1>3. \A u \in Lanes \ {t} : Holdings(t)' \cap Holdings(u)' = {}
  BY <1>1, <1>2
<1>4. \A u, x \in Lanes : u # x => Holdings(u)' \cap Holdings(x)' = {}
  BY <1>1, <1>3
<1>5. \A b : b \in live' <=> b \in UNION {Holdings(u)' : u \in Lanes}
  BY <1>1, <1>2
<1> QED
  BY <1>2, <1>4, <1>5 DEF Owned

\* The steps of a lane keep the types.
LEMMA StepKeepsTypes ==
  ASSUME TypeOK, NEW t \in Lanes, NEW K, NEW h, NEW f, NEW v, LaneOrder(t, K, h, f, v),
         NEW value,
         EnqueueCall(t) \/ Pop(t) \/ Link(t) \/ Publish(t, value) \/ Consumer(t),
         mem' \in [Buffers -> Contents], live' \in SUBSET Buffers
  PROVE  TypeOK'
<1> USE DEF TypeOK
<1>1. /\ tail[t] \in Buffers /\ head[t] \in Buffers
      /\ pc[t] = "fill" => sent[t] + 1 \in 0..MaxItems
      /\ read_count_[t] \in Places /\ write_count_[t] \in Places
      /\ After(read_count_[t]) \in Places /\ After(write_count_[t]) \in Places
  <2>1. tail[t] \in Buffers /\ head[t] \in Buffers
    BY LastBuffer DEF LaneOrder, Chained
  <2>2. pc[t] = "fill" => sent[t] + 1 \in 0..MaxItems
    BY LaneConstants DEF LaneOrder, ProducerAt
  <2> QED
    BY <2>1, <2>2, AfterIsPlace
<1>2. CASE EnqueueCall(t)
  <2>1. buffer' \in [Lanes -> Buffers] /\ pc' \in [Lanes -> {"idle", "pop", "take", "advance", "link", "fill", "abort"}]
    BY <1>1, <1>2 DEF EnqueueCall
  <2> QED
    BY <1>2, <2>1 DEF EnqueueCall, pools, consumerVars, endVars
<1>3. CASE PopNew(t)
  BY <1>3 DEF PopNew, pools, consumerVars, endVars
<1>4. CASE PopFound(t)
  BY <1>4 DEF PopFound, pools, consumerVars, endVars
<1>5. CASE PopTake(t)
  <2>1. popped' \in [Lanes -> Buffers \cup {nullptr}]
    BY <1>1, <1>5 DEF PopTake
  <2> QED
    BY <1>5, <2>1 DEF PopTake, pools, consumerVars, endVars
<1>6. CASE PopAdvance(t)
  <2>1. read_count_' \in [Lanes -> Places]
    BY <1>1, <1>6 DEF PopAdvance, ReadNext
  <2> QED
    BY <1>6, <2>1 DEF PopAdvance, consumerVars, endVars
<1>7. CASE Link(t)
  BY <1>7 DEF Link, pools, consumerVars, endVars
<1>8. CASE Publish(t, value)
  <2>1. sent' \in [Lanes -> 0..MaxItems] /\ \A u \in Lanes : got[u] <= sent'[u]
    <3>1. sent'[t] = sent[t] + 1 /\ sent[t] + 1 \in 0..MaxItems /\ got[t] <= sent[t]
      BY <1>1, <1>8 DEF Publish
    <3>2. got[t] <= sent'[t]
      BY <3>1, LaneConstants
    <3> QED
      BY <1>8, <3>1, <3>2 DEF Publish
  <2> QED
    BY <1>8, <2>1 DEF Publish, pools, consumerVars, endVars
<1>9. CASE Take(t)
  <2>1. cpc[t] = "idle" /\ InBuffer(t) /\ got[t] < sent[t]
    BY <1>9, HeadBuffer DEF Take
  <2>2. got' \in [Lanes -> 0..MaxItems] /\ \A u \in Lanes : got'[u] <= sent[u]
    <3>1. got'[t] = got[t] + 1 /\ got' = [got EXCEPT ![t] = got[t] + 1]
      BY <1>9, <2>1 DEF Take
    <3>2. got[t] + 1 \in 0..MaxItems /\ got[t] + 1 <= sent[t]
      BY <2>1, LaneConstants
    <3> QED
      BY <3>1, <3>2
  <2> QED
    BY <1>9, <2>1, <2>2 DEF Take, pools, producerVars, endVars
<1>10. CASE Unlink(t)
  <2>1. mem[head[t]].next_ \in Buffers \cup {nullptr}
    BY <1>1 DEF Contents
  <2>2. head' \in [Lanes -> Buffers \cup {nullptr}] /\ old' \in [Lanes -> Buffers \cup {nullptr}]
    BY <1>1, <1>10, <2>1 DEF Unlink
  <2> QED
    BY <1>10, <2>2 DEF Unlink, pools, producerVars, endVars
<1>11. CASE PushFull(t)
  BY <1>11 DEF PushFull, pools, producerVars, endVars
<1>12. CASE PushRoom(t)
  BY <1>12 DEF PushRoom, pools, producerVars, endVars
<1>13. CASE PushReset(t)
  BY <1>13 DEF PushReset, pools, producerVars, endVars
<1>14. CASE PushStore(t)
  <2>1. items_' \in [Lanes -> [Places -> Buffers \cup {nullptr}]]
    BY <1>1, <1>14 DEF PushStore
  <2> QED
    BY <1>14, <2>1 DEF PushStore, producerVars, endVars
<1>15. CASE PushAdvance(t)
  <2>1. write_count_' \in [Lanes -> Places]
    BY <1>1, <1>15 DEF PushAdvance
  <2>2. overrun' \in BOOLEAN
    BY <1>15 DEF PushAdvance
  <2> QED
    BY <1>15, <2>1, <2>2 DEF PushAdvance, producerVars, endVars
<1> QED
  BY <1>2, <1>3, <1>4, <1>5, <1>6, <1>7, <1>8, <1>9, <1>10, <1>11, <1>12, <1>13, <1>14, <1>15
  DEF Pop, Consumer, Push

\* A step of lane t keeps them all, if e[u] are the elements of lane u before it and
\* d[u] those after it.
LEMMA StepKeepsLanes ==
  ASSUME TypeOK, Owned, ~destroyed, ~overrun', NEW t \in Lanes, NEW e, NEW d,
         \A u \in Lanes : \E K, h, f : LaneOrder(u, K, h, f, e[u]),
         \A u \in Lanes \ {t} : d[u] = e[u],
         NEW value \in Nat,
         \/ (EnqueueCall(t) \/ Pop(t) \/ Link(t) \/ Consumer(t)) /\ d[t] = e[t]
         \/ /\ Publish(t, value) /\ d[t] \in [Nat -> Nat] /\ d[t][sent[t]] = value
            /\ \A n \in Nat : n < sent[t] => d[t][n] = e[t][n]
  PROVE  TypeOK' /\ Owned' /\ \A u \in Lanes : \E K, h, f : LaneOrder(u, K, h, f, d[u])'
<1>1. EnqueueCall(t) \/ Pop(t) \/ Link(t) \/ Publish(t, value) \/ Consumer(t)
  OBVIOUS
<1>2. PICK K, h, f : LaneOrder(t, K, h, f, e[t])
  OBVIOUS
<1>3. Holdings(t) \subseteq live /\ live \in SUBSET Buffers /\ mem \in [Buffers -> Contents]
  BY DEF Owned, TypeOK
<1>4. LaneMoves(t, d[t])
  <2>1. PICK v, w : v = e[t] /\ w = d[t]
    OBVIOUS
  <2>2. CASE (EnqueueCall(t) \/ Pop(t) \/ Link(t) \/ Consumer(t)) /\ w = v
    BY <1>2, <1>3, <2>1, <2>2, StepMovesLane
  <2>3. CASE /\ Publish(t, value) /\ w \in [Nat -> Nat] /\ w[sent[t]] = value
             /\ \A n \in Nat : n < sent[t] => w[n] = v[n]
    <3>1. LaneMoves(t, w)
      BY <1>2, <1>3, <2>1, <2>3, PublishMovesLane
    <3> QED
      BY <2>1, <3>1
  <2> QED
    BY <2>1, <2>2, <2>3
<1>5. \A u \in Lanes \ {t} : LaneRests(u)
  BY <1>1, StepRestsOthers
<1>6. ASSUME NEW u \in Lanes \ {t}
      PROVE  (\E L, j, g : LaneOrder(u, L, j, g, d[u])') /\ Holdings(u)' = Holdings(u)
  <2>1. PICK L, j, g : LaneOrder(u, L, j, g, e[u])
    OBVIOUS
  <2>2. LaneOrder(u, L, j, g, e[u])' /\ Holdings(u)' = Holdings(u)
    BY <1>3, <1>4, <1>5, <2>1, OthersKeepOrder
  <2> QED
    BY <2>2
<1>7. \A u \in Lanes : \E L, j, g : LaneOrder(u, L, j, g, d[u])'
  BY <1>4, <1>6 DEF LaneMoves
<1>8. Owned' /\ live' \in SUBSET Buffers
  BY <1>3, <1>4, <1>6, LanesKeepOwned
<1>9. TypeOK'
  <2>1. mem' \in [Buffers -> Contents]
    BY <1>4 DEF LaneMoves
  <2> QED
    BY <1>1, <1>2, <1>8, <2>1, StepKeepsTypes
<1> QED
  BY <1>7, <1>8, <1>9

\* They stay as they are when nothing happens in any.
LEMMA StutterKeepsLanes ==
  ASSUME TypeOK, Owned, UNCHANGED vars, NEW e,
         \A u \in Lanes : \E K, h, f : LaneOrder(u, K, h, f, e[u])
  PROVE  TypeOK' /\ Owned' /\ \A u \in Lanes : \E K, h, f : LaneOrder(u, K, h, f, e[u])'
<1>1. UNCHANGED <<live, mem, items_, read_count_, write_count_>>
      /\ UNCHANGED <<tail, pc, buffer, popped, sent>> /\ UNCHANGED <<head, cpc, old, got>>
      /\ UNCHANGED <<destroyed, deconstructed, overrun>>
  BY DEF vars, pools, producerVars, consumerVars, endVars
<1>2. mem \in [Buffers -> Contents] /\ mem' \in [Buffers -> Contents]
  BY <1>1 DEF TypeOK
<1>3. ASSUME NEW u \in Lanes
      PROVE  (\E K, h, f : LaneOrder(u, K, h, f, e[u])') /\ Holdings(u)' = Holdings(u)
  <2>1. PICK K, h, f : LaneOrder(u, K, h, f, e[u])
    OBVIOUS
  <2>2. LaneOrder(u, K, h, f, e[u])' /\ Holdings(u)' = Holdings(u)
    BY <1>1, <1>2, <2>1, LaneFrame
  <2> QED
    BY <2>2
<1>4. TypeOK'
  BY <1>1 DEF TypeOK
<1>5. Owned'
  BY <1>1, <1>3 DEF Owned
<1> QED
  BY <1>3, <1>4, <1>5

-----------------------------------------------------------------------------
(* The constructor and the destructor. *)

\* At first each lane has one empty buffer and an empty pool.
LEMMA InitialLane ==
  ASSUME Init, NEW t \in Lanes, NEW v \in [Nat -> Nat]
  PROVE  \E K, h, f : LaneOrder(t, K, h, f, v)
<1>1. PICK b \in [Lanes -> Buffers] : head = b /\ tail = b /\ buffer = b
  BY DEF Init
<1>2. PICK f : f = [j \in Nat |-> b[t]]
  OBVIOUS
<1>3. /\ head[t] = b[t] /\ tail[t] = b[t] /\ b[t] \in Buffers /\ mem[b[t]] = Fresh
      /\ pc[t] = "idle" /\ cpc[t] = "idle" /\ old[t] = nullptr /\ sent[t] = 0 /\ got[t] = 0
      /\ read_count_[t] = 0 /\ write_count_[t] = 0
      /\ f \in [Nat -> Buffers] /\ \A j \in 0..0 : f[j] = b[t]
  BY <1>1, <1>2 DEF Init, Each
<1>4. Pooled(t) = {} /\ PoolBuffers(t) = {}
  BY <1>3, LaneConstants DEF Pooled, PoolBuffers
<1>5. 0..0 = {0} /\ 0..(0 - 1) = {}
  OBVIOUS
<1>6. Chained(t, 0, 0, f)
  BY <1>3, <1>5, FreshIs DEF Chained
<1>7. Filled(t, 0, 0, f, v)
  <2>1. Clamp(0 - Base[0]) = 0 /\ \A k \in Nodes : ~(Base[0] + k < 0)
    BY BaseIs, ClampIs, LaneConstants
  <2> QED
    BY <1>3, <1>5, <2>1, FreshIs DEF Filled
<1>8. ProducerAt(t, 0, 0, f) /\ ConsumerAt(t, 0)
  BY <1>3, BaseIs, LaneConstants DEF ProducerAt, ConsumerAt
<1>9. PoolAt(t) /\ Apart(t, 0, 0, f)
  BY <1>3, <1>4 DEF PoolAt, Apart
<1> QED
  BY <1>6, <1>7, <1>8, <1>9 DEF LaneOrder

\* They are buffers of their own, and everything has its type.
LEMMA InitialState ==
  ASSUME Init
  PROVE  TypeOK /\ Owned /\ ~destroyed
<1>1. PICK b \in [Lanes -> Buffers] :
        /\ \A t, u \in Lanes : b[t] = b[u] => t = u
        /\ live = {b[t] : t \in Lanes}
        /\ head = b /\ tail = b /\ buffer = b
  BY DEF Init
<1>2. 0 \in Places /\ 0 \in 0..MaxItems
  BY LaneConstants DEF Places
<1>3. TypeOK
  <2>1. live \in SUBSET Buffers /\ mem \in [Buffers -> Contents]
    BY <1>1, FreshIs DEF Init
  <2>2. got \in [Lanes -> 0..MaxItems] /\ sent \in [Lanes -> 0..MaxItems]
        /\ \A t \in Lanes : got[t] <= sent[t]
    BY <1>2 DEF Init, Each
  <2>3. deconstructed \in [Lanes -> SUBSET Nat] /\ destroyed \in BOOLEAN /\ overrun \in BOOLEAN
    BY DEF Init, Each
  <2>4. /\ items_ \in [Lanes -> [Places -> Buffers \cup {nullptr}]]
        /\ read_count_ \in [Lanes -> Places] /\ write_count_ \in [Lanes -> Places]
        /\ popped \in [Lanes -> Buffers \cup {nullptr}] /\ old \in [Lanes -> Buffers \cup {nullptr}]
    BY <1>2 DEF Init, Each
  <2>5. /\ pc \in [Lanes -> {"idle", "pop", "take", "advance", "link", "fill", "abort"}]
        /\ cpc \in [Lanes -> {"idle", "unlink", "push", "reset", "store", "advance", "abort"}]
    BY DEF Init, Each
  <2> QED
    BY <1>1, <2>1, <2>2, <2>3, <2>4, <2>5 DEF TypeOK
<1>4. \A t \in Lanes : Holdings(t) = {b[t]}
  <2> SUFFICES ASSUME NEW t \in Lanes
               PROVE  Holdings(t) = {b[t]}
    OBVIOUS
  <2>1. /\ mem \in [Buffers -> Contents] /\ b[t] \in Buffers /\ mem[b[t]] = Fresh
        /\ head[t] = b[t] /\ pc[t] = "idle" /\ old[t] = nullptr
        /\ read_count_[t] = 0 /\ write_count_[t] = 0
    BY <1>1, <1>3 DEF Init, Each, TypeOK
  <2>2. Pooled(t) = {} /\ PoolBuffers(t) = {}
    BY <2>1, LaneConstants DEF Pooled, PoolBuffers
  <2>3. PICK f : f = [j \in Nat |-> b[t]]
    OBVIOUS
  <2>4. 0..0 = {0} /\ 0..(0 - 1) = {} /\ f \in [Nat -> Buffers] /\ f[0] = b[t]
    BY <2>1, <2>3
  <2>5. Chained(t, 0, 0, f)
    BY <1>1, <2>1, <2>4, FreshIs DEF Chained
  <2>6. Chain(head[t]) = {b[t]}
    <3>1. Chain(head[t]) = Run(0, 0, f)
      BY <2>1, <2>5, ChainIs
    <3>2. Run(0, 0, f) = {f[0]}
      BY <2>4 DEF Run
    <3> QED
      BY <2>4, <3>1, <3>2
  <2> QED
    BY <2>1, <2>2, <2>6 DEF Holdings, ProducerHas, ConsumerHas
<1>5. Owned
  BY <1>1, <1>4 DEF Owned
<1> QED
  BY <1>3, <1>5 DEF Init

\* What the destructor finds in the buffers of the list.
Found(t) == UNION {Unread(b) : b \in Chain(head[t])}

\* The elements that the destructor finds in the buffers of the list are those that
\* were not dequeued.
LEMMA UnreadAre ==
  ASSUME TypeOK, NEW t \in Lanes, NEW K, NEW h, NEW f, NEW v, LaneOrder(t, K, h, f, v),
         pc[t] = "idle", cpc[t] = "idle"
  PROVE  Found(t) = {v[n] : n \in got[t]..(sent[t] - 1)}
<1>1. Chain(head[t]) = Run(h, K, f)
  BY ChainIs DEF LaneOrder, TypeOK
<1>2. PICK s, g : s = sent[t] /\ g = got[t]
  OBVIOUS
<1>3. /\ s \in Nat /\ g \in Nat /\ g <= s /\ v \in [Nat -> Nat]
      /\ \A j \in h..K : j \in Nat /\ Base[j] \in Nat /\ f[j] \in Buffers
      /\ Base[h] <= g /\ Base[K] <= s /\ s < Base[K] + BufferSize
      /\ h \in Nat /\ K \in Nat /\ h <= K
  BY <1>2, LastBuffer DEF LaneOrder, ProducerAt, ConsumerAt, Filled
<1>4. ASSUME NEW j \in h..K
      PROVE  Unread(f[j]) = {v[Base[j] + k] : k \in {k \in Nodes : g <= Base[j] + k /\ Base[j] + k < s}}
  <2>1. /\ mem[f[j]].read_head_ = Clamp(g - Base[j])
        /\ \A k \in Nodes : mem[f[j]].elements_[k] =
             IF Base[j] + k < s THEN v[Base[j] + k] ELSE kEmpty
    BY <1>2 DEF LaneOrder, Filled
  <2>2. \A k \in Nodes : mem[f[j]].elements_[k] # kEmpty <=> Base[j] + k < s
    <3> TAKE k \in Nodes
    <3>1. Base[j] + k \in Nat
      BY <1>3, LaneConstants
    <3>2. v[Base[j] + k] # kEmpty
      BY <1>3, <3>1, LaneConstants
    <3> QED
      BY <2>1, <3>2
  <2>3. PICK r : r = mem[f[j]].read_head_
    OBVIOUS
  <2>4. r \in 0..BufferSize /\ \A k \in Nodes : r <= k <=> g <= Base[j] + k
    <3>1. g - Base[j] \in Int
      BY <1>3
    <3>2. Clamp(g - Base[j]) \in 0..BufferSize
      BY <3>1, ClampIs
    <3>3. ASSUME NEW k \in Nodes
          PROVE  Clamp(g - Base[j]) <= k <=> g <= Base[j] + k
      BY <1>3, <3>1, LaneConstants DEF Clamp
    <3> QED
      BY <2>1, <2>3, <3>2, <3>3
  <2>5. ASSUME NEW k \in Nodes
        PROVE  (r <= k /\ \A i \in r..k : mem[f[j]].elements_[i] # kEmpty)
                 <=> (g <= Base[j] + k /\ Base[j] + k < s)
    <3>1. \A i \in r..k : i \in Nodes /\ i <= k
      BY <2>4, LaneConstants
    <3>2. r <= k => k \in r..k
      BY <2>4, LaneConstants
    <3>3. \A i \in r..k : Base[j] + k < s => Base[j] + i < s
      BY <1>3, <3>1, LaneConstants
    <3> QED
      BY <2>2, <2>4, <3>1, <3>2, <3>3
  <2>6. {k \in Nodes : r <= k /\ \A i \in r..k : mem[f[j]].elements_[i] # kEmpty}
          = {k \in Nodes : g <= Base[j] + k /\ Base[j] + k < s}
    BY <2>5
  <2>7. Unread(f[j]) =
          {mem[f[j]].elements_[k] : k \in {k \in Nodes : g <= Base[j] + k /\ Base[j] + k < s}}
    BY <2>3, <2>6 DEF Unread
  <2> QED
    BY <2>1, <2>7
<1>5. ASSUME NEW x, x \in UNION {Unread(b) : b \in Chain(head[t])}
      PROVE  \E n \in g..(s - 1) : x = v[n]
  <2>1. PICK j \in h..K : x \in Unread(f[j])
    BY <1>1, <1>5 DEF Run
  <2>2. PICK k \in Nodes : x = v[Base[j] + k] /\ g <= Base[j] + k /\ Base[j] + k < s
    BY <1>4, <2>1
  <2>3. Base[j] + k \in g..(s - 1)
    BY <1>3, <2>2, LaneConstants
  <2> QED
    BY <2>2, <2>3
<1>6. ASSUME NEW n \in g..(s - 1)
      PROVE  v[n] \in UNION {Unread(b) : b \in Chain(head[t])}
  <2>1. n \in Nat /\ g <= n /\ n < s
    BY <1>3
  <2> DEFINE T == {j \in Nat : j \in h..K /\ n < Base[j] + BufferSize}
  <2>2. K \in T
    BY <1>3, <2>1, LaneConstants
  <2>3. PICK j \in T : \A i \in T : j <= i
    <3> HIDE DEF T
    <3> QED
      BY <2>2, LeastNatural DEF T
  <2>4. Base[j] <= n
    <3>1. CASE j = h
      BY <1>3, <2>1, <3>1
    <3>2. CASE j # h
      <4>1. j - 1 \in h..K /\ j \in Nat \ {0} /\ ~(j <= j - 1)
        BY <1>3, <3>2
      <4>2. ~(n < Base[j - 1] + BufferSize)
        BY <1>3, <2>3, <4>1
      <4>3. Base[j - 1] \in Nat /\ Base[j] = Base[j - 1] + BufferSize
        BY <4>1, BaseIs
      <4> QED
        BY <2>1, <4>2, <4>3, LaneConstants
    <3> QED
      BY <3>1, <3>2
  <2>5. PICK k : k = n - Base[j]
    OBVIOUS
  <2>6. j \in h..K /\ k \in Nodes /\ Base[j] + k = n
    <3>1. Base[j] \in Nat /\ n < Base[j] + BufferSize
      BY <1>3
    <3>2. k \in Nat /\ k < BufferSize
      BY <2>1, <2>4, <2>5, <3>1, LaneConstants
    <3> QED
      BY <2>1, <2>5, <3>1, <3>2, LaneConstants
  <2>7. v[n] \in Unread(f[j])
    BY <1>4, <2>1, <2>6
  <2>8. f[j] \in Chain(head[t])
    BY <1>1, <2>6 DEF Run
  <2> QED
    BY <2>7, <2>8
<1> QED
  BY <1>2, <1>5, <1>6 DEF Found

\* The destructor deletes what the lanes hold, which is everything.
LEMMA DestroyEmpties ==
  ASSUME TypeOK, Owned, NEW v \in [Lanes -> [Nat -> Nat]],
         \A t \in Lanes : \E K, h, f : LaneOrder(t, K, h, f, v[t]),
         Destroy
  PROVE  /\ live' = {}
         /\ \A t \in Lanes : deconstructed'[t] = {v[t][n] : n \in got[t]..(sent[t] - 1)}
         /\ TypeOK' /\ Owned'
         /\ \A t \in Lanes : \E K, h, f : LaneOrder(t, K, h, f, v[t])'
<1>1. /\ \A t \in Lanes : pc[t] = "idle" /\ cpc[t] = "idle"
      /\ ~destroyed /\ destroyed' = TRUE /\ mem' = mem /\ overrun' = overrun
      /\ deconstructed' = [t \in Lanes |-> UNION {Unread(b) : b \in Chain(head[t])}]
      /\ live' = live \ UNION {Chain(head[t]) \cup PoolBuffers(t) : t \in Lanes}
      /\ UNCHANGED <<items_, read_count_, write_count_>>
      /\ UNCHANGED <<tail, pc, buffer, popped, sent>> /\ UNCHANGED <<head, cpc, old, got>>
  BY DEF Destroy, pools, producerVars, consumerVars
<1>2. \A t \in Lanes : Holdings(t) = Chain(head[t]) \cup PoolBuffers(t)
  <2> SUFFICES ASSUME NEW t \in Lanes
               PROVE  Holdings(t) = Chain(head[t]) \cup PoolBuffers(t)
    OBVIOUS
  <2>1. old[t] = nullptr
    BY <1>1 DEF LaneOrder, ConsumerAt
  <2> QED
    BY <1>1, <2>1 DEF Holdings, ProducerHas, ConsumerHas
<1>3. live' = {}
  BY <1>1, <1>2 DEF Owned
<1>4. \A t \in Lanes : deconstructed'[t] = {v[t][n] : n \in got[t]..(sent[t] - 1)}
  <2> SUFFICES ASSUME NEW t \in Lanes
               PROVE  deconstructed'[t] = {v[t][n] : n \in got[t]..(sent[t] - 1)}
    OBVIOUS
  <2>1. PICK K, h, f, x : LaneOrder(t, K, h, f, x) /\ x = v[t]
    OBVIOUS
  <2>2. pc[t] = "idle" /\ cpc[t] = "idle"
    BY <1>1
  <2>3. Found(t) = {x[n] : n \in got[t]..(sent[t] - 1)}
    BY <2>1, <2>2, UnreadAre
  <2>4. deconstructed'[t] = Found(t)
    BY <1>1 DEF Found
  <2> QED
    BY <2>1, <2>3, <2>4
<1>5. TypeOK'
  <2>1. deconstructed' \in [Lanes -> SUBSET Nat]
    <3>1. \A t \in Lanes : got[t] \in Nat /\ sent[t] \in Nat
      BY LaneConstants DEF TypeOK
    <3>2. \A t \in Lanes : deconstructed'[t] \subseteq Nat
      BY <1>4, <3>1
    <3> QED
      BY <1>1, <3>2
  <2> QED
    BY <1>1, <1>3, <2>1 DEF TypeOK
<1>6. \A t \in Lanes : \E K, h, f : LaneOrder(t, K, h, f, v[t])'
  <2> SUFFICES ASSUME NEW t \in Lanes
               PROVE  \E K, h, f : LaneOrder(t, K, h, f, v[t])'
    OBVIOUS
  <2>1. PICK K, h, f : LaneOrder(t, K, h, f, v[t])
    OBVIOUS
  <2>2. mem \in [Buffers -> Contents]
    BY DEF TypeOK
  <2>3. LaneOrder(t, K, h, f, v[t])'
    BY <1>1, <2>1, <2>2, LaneFrame
  <2> QED
    BY <2>3
<1> QED
  BY <1>1, <1>3, <1>4, <1>5, <1>6 DEF Owned

-----------------------------------------------------------------------------
(* The invariant. *)

\* Nothing runs after the destructor.
LEMMA LaneIsOpen ==
  ASSUME IInv, ~overrun, NEW t \in Lanes, Producer(t) \/ Consumer(t)
  PROVE  ~destroyed /\ ~destroyed'
<1>1. destroyed => pc[t] = "idle" /\ cpc[t] = "idle"
  BY DEF IInv, BeforeOverrun
<1>2. CASE EnqueueCall(t) \/ Pop(t)
  BY <1>1, <1>2 DEF EnqueueCall, Pop, PopNew, PopFound, PopTake, PopAdvance, endVars
<1>3. CASE Link(t) \/ Publish(t, sent[t])
  BY <1>1, <1>3 DEF Link, Publish, endVars
<1>4. CASE Take(t) \/ Unlink(t)
  BY <1>1, <1>4 DEF Take, Unlink, endVars
<1>5. CASE Push(t)
  BY <1>1, <1>5 DEF Push, PushFull, PushRoom, PushReset, PushStore, PushAdvance, endVars
<1> QED
  BY <1>2, <1>3, <1>4, <1>5 DEF Producer, Consumer

\* A pool that has overrun stays so.
LEMMA OverrunStays ==
  ASSUME [Next]_vars, overrun
  PROVE  overrun'
<1>1. CASE \E t \in Lanes : Producer(t) \/ Consumer(t)
  BY <1>1 DEF Producer, Consumer, Pop, Push, EnqueueCall, PopNew, PopFound, PopTake, PopAdvance,
              Link, Publish, Take, Unlink, PushFull, PushRoom, PushReset, PushStore, PushAdvance
<1>2. CASE Destroy \/ UNCHANGED vars
  BY <1>2 DEF Destroy, vars
<1> QED
  BY <1>1, <1>2 DEF Next

\* The invariant holds at first,
LEMMA InitHasIInv ==
  ASSUME Init
  PROVE  IInv
<1>1. Numbered \in [Nat -> Nat]
  BY DEF Numbered
<1> QED
  BY <1>1, InitialLane, InitialState DEF IInv, DestroysAll

\* and the steps of a lane keep it,
LEMMA LaneKeepsIInv ==
  ASSUME IInv, NEW t \in Lanes, Producer(t) \/ Consumer(t), ~overrun, ~overrun'
  PROVE  IInv'
<1>1. /\ TypeOK /\ Owned /\ ~destroyed /\ ~destroyed'
      /\ \A u \in Lanes : \E K, h, f : LaneOrder(u, K, h, f, Numbered)
  BY LaneIsOpen DEF IInv, BeforeOverrun
<1>2. PICK e, s : e = [u \in Lanes |-> Numbered] /\ s = sent[t]
  OBVIOUS
<1>3. /\ \A u \in Lanes : e[u] = Numbered
      /\ s \in Nat /\ Numbered \in [Nat -> Nat] /\ Numbered[s] = s
  BY <1>1, <1>2, LaneConstants DEF Numbered, TypeOK
<1>4. \A u \in Lanes : \E K, h, f : LaneOrder(u, K, h, f, e[u])
  BY <1>1, <1>3
<1>5. EnqueueCall(t) \/ Pop(t) \/ Link(t) \/ Publish(t, s) \/ Consumer(t)
  BY <1>2 DEF Producer
<1>6. TypeOK' /\ Owned' /\ \A u \in Lanes : \E K, h, f : LaneOrder(u, K, h, f, e[u])'
  BY <1>1, <1>2, <1>3, <1>4, <1>5, StepKeepsLanes
<1>7. Numbered' = Numbered
  BY DEF Numbered
<1> QED
  BY <1>1, <1>3, <1>6, <1>7 DEF IInv, DestroysAll

\* as does the destructor,
LEMMA DestroyKeepsIInv ==
  ASSUME IInv, Destroy, ~overrun
  PROVE  IInv'
<1>1. TypeOK /\ Owned /\ \A t \in Lanes : \E K, h, f : LaneOrder(t, K, h, f, Numbered)
  BY DEF IInv, BeforeOverrun
<1>2. PICK v : v = [t \in Lanes |-> Numbered]
  OBVIOUS
<1>3. Numbered \in [Nat -> Nat] /\ \A n \in Nat : Numbered[n] = n
  BY DEF Numbered
<1>4. v \in [Lanes -> [Nat -> Nat]] /\ \A t \in Lanes : v[t] = Numbered
  BY <1>2, <1>3
<1>5. \A t \in Lanes : \E K, h, f : LaneOrder(t, K, h, f, v[t])
  BY <1>1, <1>4
<1>6. /\ live' = {} /\ TypeOK' /\ Owned'
      /\ \A t \in Lanes : deconstructed'[t] = {v[t][n] : n \in got[t]..(sent[t] - 1)}
      /\ \A t \in Lanes : \E K, h, f : LaneOrder(t, K, h, f, v[t])'
  BY <1>1, <1>4, <1>5, DestroyEmpties
<1>7. /\ got' = got /\ sent' = sent
      /\ \A t \in Lanes : pc'[t] = "idle" /\ cpc'[t] = "idle"
  BY DEF Destroy, producerVars, consumerVars
<1>8. \A t \in Lanes : deconstructed'[t] = got'[t]..(sent'[t] - 1)
  <2> SUFFICES ASSUME NEW t \in Lanes
               PROVE  deconstructed'[t] = got'[t]..(sent'[t] - 1)
    OBVIOUS
  <2>1. got[t] \in Nat /\ sent[t] \in Nat
    BY <1>1, LaneConstants DEF TypeOK
  <2>2. PICK S : S = got[t]..(sent[t] - 1)
    OBVIOUS
  <2>3. deconstructed'[t] = {v[t][n] : n \in S} /\ \A n \in S : v[t][n] = n
    BY <1>3, <1>4, <1>6, <2>1, <2>2
  <2>4. deconstructed'[t] = S
    BY <2>3
  <2> QED
    BY <1>7, <2>2, <2>4
<1>9. \A t \in Lanes : \E K, h, f : LaneOrder(t, K, h, f, Numbered)'
  BY <1>4, <1>6
<1>10. Numbered' = Numbered
  BY DEF Numbered
<1> QED
  BY <1>6, <1>7, <1>8, <1>9, <1>10 DEF IInv, DestroysAll

\* and a step that changes nothing.
LEMMA StutterKeepsIInv ==
  ASSUME IInv, UNCHANGED vars, ~overrun
  PROVE  IInv'
<1>1. /\ TypeOK /\ Owned /\ DestroysAll
      /\ \A t \in Lanes : \E K, h, f : LaneOrder(t, K, h, f, Numbered)
      /\ destroyed => \A t \in Lanes : pc[t] = "idle" /\ cpc[t] = "idle"
  BY DEF IInv, BeforeOverrun
<1>2. PICK e : e = [t \in Lanes |-> Numbered]
  OBVIOUS
<1>3. TypeOK' /\ Owned' /\ \A t \in Lanes : \E K, h, f : LaneOrder(t, K, h, f, e[t])'
  BY <1>1, <1>2, StutterKeepsLanes
<1>4. UNCHANGED <<destroyed, deconstructed, overrun, live, pc, sent, cpc, got>>
  BY DEF vars, producerVars, consumerVars, endVars
<1>5. DestroysAll'
  BY <1>1, <1>4 DEF DestroysAll, BeforeOverrun
<1>6. Numbered' = Numbered
  BY DEF Numbered
<1> QED
  BY <1>1, <1>2, <1>3, <1>4, <1>5, <1>6 DEF IInv

\* The steps of the whole keep the invariant.
LEMMA NextKeepsIInv ==
  ASSUME IInv, [Next]_vars
  PROVE  IInv'
<1>1. CASE overrun'
  BY <1>1 DEF IInv, BeforeOverrun
<1>2. CASE ~overrun'
  <2>1. ~overrun
    BY <1>2, OverrunStays
  <2>2. CASE \E t \in Lanes : Producer(t) \/ Consumer(t)
    BY <1>2, <2>1, <2>2, LaneKeepsIInv
  <2>3. CASE Destroy
    BY <2>1, <2>3, DestroyKeepsIInv
  <2>4. CASE UNCHANGED vars
    BY <2>1, <2>4, StutterKeepsIInv
  <2> QED
    BY <2>2, <2>3, <2>4 DEF Next
<1> QED
  BY <1>1, <1>2

\* Until a pool overruns, the buffers of every lane are in order, and no two lanes
\* share one: the inductive invariant of lines 126-214 and 234-353.
THEOREM Invariance == Spec => []IInv
<1>1. Init => IInv
  BY InitHasIInv
<1>2. IInv /\ [Next]_vars => IInv'
  BY NextKeepsIInv
<1> QED
  BY <1>1, <1>2, PTL DEF Spec

\* Until then every variable has its type, and the consumer is behind the producer.
THEOREM TypeCorrect == Spec => [](BeforeOverrun => TypeOK)
<1>1. IInv => (BeforeOverrun => TypeOK)
  BY DEF IInv
<1> QED
  BY <1>1, Invariance, PTL

\* What a scan finds at the head of a lane is the next element, or kEmpty: the first
\* buffer is in the list, is not read to its end, and its head is where the consumer
\* is in the lane.
THEOREM HeadIsTheNextElement == Spec => []HeadIsNext
<1>1. ASSUME IInv
      PROVE  HeadIsNext
  <2> SUFFICES ASSUME NEW t \in Lanes, cpc[t] = "idle", BeforeOverrun
               PROVE  /\ head[t] # nullptr /\ InBuffer(t)
                      /\ HeadCount(t) = IF got[t] < sent[t] THEN got[t] ELSE kEmpty
    BY DEF HeadIsNext
  <2>1. TypeOK /\ \E K, h, f : LaneOrder(t, K, h, f, Numbered)
    BY <1>1 DEF IInv
  <2>2. PICK K, h, f : LaneOrder(t, K, h, f, Numbered)
    BY <2>1
  <2>3. /\ head[t] \in Buffers /\ InBuffer(t)
        /\ HeadCount(t) = IF got[t] < sent[t] THEN Numbered[got[t]] ELSE kEmpty
    BY <2>1, <2>2, HeadBuffer
  <2>4. Numbered[got[t]] = got[t]
    BY <2>1, LaneConstants DEF TypeOK, Numbered
  <2> QED
    BY <2>3, <2>4, LaneConstants
<1> QED
  BY <1>1, Invariance, PTL

\* The destructor deletes every buffer, and calls the deconstructor on exactly the
\* elements that were not dequeued (lines 234-269).
THEOREM DestructorForgetsNothing == Spec => []DestroysAll
<1>1. IInv => DestroysAll
  BY DEF IInv, DestroysAll
<1> QED
  BY <1>1, Invariance, PTL

\* Until a pool overruns, pop returns a buffer, the consumer is never at the end of
\* one, and unlinking leaves one: the assertions of lines 279, 307 and 332.
THEOREM AssertionsHoldUntilOverrun == Spec => [](BeforeOverrun => AssertionsHold)
<1>1. IInv => (BeforeOverrun => AssertionsHold)
  BY DEF IInv, AssertionsHold, LaneOrder, ProducerAt, ConsumerAt
<1> QED
  BY <1>1, Invariance, PTL

\* How many elements two sets have that share none.
LEMMA DisjointSize ==
  ASSUME NEW A, NEW B, IsFiniteSet(A), IsFiniteSet(B), A \cap B = {}
  PROVE  /\ IsFiniteSet(A \cup B)
         /\ Cardinality(A \cup B) = Cardinality(A) + Cardinality(B)
<1>1. Cardinality(A) \in Nat /\ Cardinality(B) \in Nat
  BY FS_CardinalityType
<1>2. Cardinality(A \cap B) = 0
  BY FS_EmptySet
<1>3. /\ IsFiniteSet(A \cup B)
      /\ Cardinality(A \cup B) = Cardinality(A) + Cardinality(B) - Cardinality(A \cap B)
  BY FS_Union
<1> QED
  BY <1>1, <1>2, <1>3

\* The buffers in the pool are as many as the places that hold them.
LEMMA PoolSize ==
  ASSUME NEW t \in Lanes, PoolAt(t)
  PROVE  IsFiniteSet(PoolBuffers(t)) /\ Cardinality(PoolBuffers(t)) = Cardinality(Pooled(t))
<1>1. PICK s : s = [k \in Pooled(t) |-> items_[t][k]]
  OBVIOUS
<1>2. IsFiniteSet(Pooled(t))
  <2>1. IsFiniteSet(Places)
    BY LaneConstants, FS_Interval DEF Places
  <2>2. Pooled(t) \in SUBSET Places
    BY DEF Pooled
  <2> QED
    BY <2>1, <2>2, FS_Subset
<1>3. s \in Surjection(Pooled(t), PoolBuffers(t))
  BY <1>1 DEF Surjection, PoolBuffers
<1>4. s \in Injection(Pooled(t), PoolBuffers(t))
  BY <1>1 DEF Injection, IsInjective, PoolBuffers, PoolAt
<1> QED
  BY <1>2, <1>3, <1>4, FS_Surjection

\* The parts of a lane share nothing.
LEMMA LaneSize ==
  ASSUME TypeOK, NEW t \in Lanes, NEW K, NEW h, NEW f, NEW v, LaneOrder(t, K, h, f, v)
  PROVE  /\ Cardinality(Holdings(t)) = Cardinality(Chain(head[t])) + Cardinality(Pooled(t))
              + Cardinality(ProducerHas(t)) + Cardinality(ConsumerHas(t))
         /\ tail[t] \in Chain(head[t]) /\ (pc[t] # "idle" => buffer[t] \in Chain(head[t]))
<1>1. Chain(head[t]) = Run(h, K, f) /\ Run(h, K, f) \in SUBSET Buffers
  BY ChainIs, LastBuffer DEF LaneOrder, TypeOK, Run
<1>2. tail[t] \in Chain(head[t]) /\ (pc[t] # "idle" => buffer[t] \in Chain(head[t]))
  <2>1. K \in h..K /\ (h < K => K - 1 \in h..K) /\ tail[t] = f[K]
    BY LastBuffer DEF LaneOrder, Chained
  <2>2. pc[t] # "idle" => buffer[t] = f[K] \/ (h < K /\ buffer[t] = f[K - 1])
    BY DEF LaneOrder, ProducerAt, TypeOK
  <2> QED
    BY <1>1, <2>1, <2>2 DEF Run
<1>3. IsFiniteSet(Chain(head[t]))
  BY <1>1, LaneConstants, FS_Subset
<1>4. IsFiniteSet(PoolBuffers(t)) /\ Cardinality(PoolBuffers(t)) = Cardinality(Pooled(t))
  BY PoolSize DEF LaneOrder
<1>5. IsFiniteSet(ProducerHas(t)) /\ IsFiniteSet(ConsumerHas(t))
  <2>1. IsFiniteSet({popped[t]}) /\ IsFiniteSet({old[t]}) /\ IsFiniteSet({})
    BY FS_EmptySet, FS_Singleton
  <2>2. ProducerHas(t) \in SUBSET {popped[t]} /\ ConsumerHas(t) \in SUBSET {old[t]}
    BY DEF ProducerHas, ConsumerHas
  <2> QED
    BY <2>1, <2>2, FS_Subset
<1>6. /\ Chain(head[t]) \cap PoolBuffers(t) = {}
      /\ (Chain(head[t]) \cup PoolBuffers(t)) \cap ProducerHas(t) = {}
      /\ (Chain(head[t]) \cup PoolBuffers(t) \cup ProducerHas(t)) \cap ConsumerHas(t) = {}
  BY <1>1 DEF LaneOrder, Apart, ProducerHas, ConsumerHas
<1> DEFINE A == Chain(head[t]) \cup PoolBuffers(t)
           B == A \cup ProducerHas(t)
<1>7. IsFiniteSet(A) /\ Cardinality(A) = Cardinality(Chain(head[t])) + Cardinality(Pooled(t))
  BY <1>3, <1>4, <1>6, DisjointSize
<1>8. IsFiniteSet(B) /\ Cardinality(B) = Cardinality(A) + Cardinality(ProducerHas(t))
  BY <1>5, <1>6, <1>7, DisjointSize
<1>9. Cardinality(B \cup ConsumerHas(t)) = Cardinality(B) + Cardinality(ConsumerHas(t))
  BY <1>5, <1>6, <1>8, DisjointSize
<1>10. Holdings(t) = B \cup ConsumerHas(t)
  BY DEF Holdings
<1> QED
  BY <1>2, <1>7, <1>8, <1>9, <1>10

\* Every live buffer is in one place of one lane only: no thread resets, recycles or
\* deletes what another uses.
THEOREM BuffersHaveOneOwner == Spec => []OneOwner
<1>1. IInv => OneOwner
  BY LaneSize DEF IInv, Owned, OneOwner
<1> QED
  BY <1>1, Invariance, PTL
=============================================================================
