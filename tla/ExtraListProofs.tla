--------------------------- MODULE ExtraListProofs ---------------------------
(***************************************************************************)
(* Proofs about the list of extra_nodes, for any number of threads and of  *)
(* elements.  The nodes that were exchanged into extra_tail_ are f[0],     *)
(* f[1], ..., f[K], in that order; the consumer stands on f[h].  The       *)
(* invariant says what each node's next_ holds and which nodes were        *)
(* dequeued and deleted; each step is shown to keep it, with the same f or *)
(* with one node more.  The queues' proofs cite the steps' lemmas.         *)
(***************************************************************************)
EXTENDS ExtraList, LinkedListProofs

\* The nodes that have been in extra_tail_.
Added ==
  {dummy} \cup {x \in Extra \X Slots : x[2] < write_head_[x[1]]}
          \cup {NewNode(t) : t \in Linking}

\* f lists them in the order of the exchanges, and so in each thread's order.
Enumerates(K, f) ==
  /\ K \in Nat /\ f \in [Nat -> ExtraNodes]
  /\ f[0] = dummy /\ f[K] = extra_tail_
  /\ \A j, k \in 0..K : f[j] = f[k] => j = k
  /\ \A k \in 0..K : f[k] \in Added
  /\ \A x \in Added : \E k \in 0..K : f[k] = x
  /\ \A j, k \in 1..K : f[j][1] = f[k][1] /\ f[j][2] < f[k][2] => j < k

\* t is to store the address of f[k + 1] in f[k].
LinksAt(t, k, f) == t \in Linking /\ old[t] = f[k] /\ NewNode(t) = f[k + 1]

\* Each node is linked, or has a thread that will link it.
Links(K, f) ==
  /\ \A k \in 0..(K - 1) :
       \/ next_[f[k]] = f[k + 1] /\ \A t \in Linking : NewNode(t) # f[k + 1]
       \/ next_[f[k]] = nullptr /\ \E t \in Linking : LinksAt(t, k, f)
  /\ next_[extra_tail_] = nullptr
  /\ \A x \in ExtraNodes \ Added : next_[x] = nullptr
  /\ \A t \in Linking : \E k \in 0..(K - 1) : LinksAt(t, k, f)

\* The nodes up to f[h] are dequeued; those before it are deleted.
HeadAt(K, h, f) ==
  /\ h \in 0..K
  /\ \A k \in 1..K : k <= h <=> f[k][2] < read_head_[f[k][1]]
  /\ ~destroyed =>
       /\ extra_head_ = f[h]
       /\ \A x \in ExtraNodes : x \in deleted <=> \E k \in 0..(h - 1) : x = f[k]
  /\ destroyed =>
       /\ Linking = {} /\ deleted = Added
       /\ deconstructed = Left(Threads) \cup {f[h]}

\* What the steps of the queue keep of the indices.
IndexTypes ==
  /\ write_head_ \in [Threads -> Slots] /\ read_head_ \in [Threads -> Slots]
  /\ \A t \in Threads : read_head_[t] <= write_head_[t]
  /\ \A t \in Linking : write_head_[t] < MaxItems

ListOrder(K, h, f) == Enumerates(K, f) /\ Links(K, f) /\ HeadAt(K, h, f)

-----------------------------------------------------------------------------
\* What the constants say about threads and nodes.
LEMMA ListIndices ==
  /\ MaxItems \in Nat /\ \A n \in Slots : n \in Nat /\ n <= MaxItems
  /\ \A n \in Slots : n < MaxItems => n + 1 \in Slots
  /\ \A t \in Bounded : t \in Threads /\ t \notin Extra
  /\ \A t \in Extra : t \in Threads /\ t \notin Bounded
  /\ \A t \in Threads : t \in Bounded \/ t \in Extra
BY SizeAssumption DEF Bounded, Extra, Threads, Slots

\* A node is the dummy or the n-th of a thread without a lane, and not null.
LEMMA NodeIs ==
  ASSUME NEW x \in ExtraNodes
  PROVE  /\ x # nullptr /\ x # unloaded
         /\ x # dummy => /\ x[1] \in Extra /\ x[2] \in Slots /\ x[2] \in Nat
                         /\ x[2] < MaxItems /\ x = <<x[1], x[2]>>
BY NullAssumption, SizeAssumption DEF ExtraNodes, Slots

\* The n-th node of a thread without a lane is a node, and not the dummy.
LEMMA IsNode ==
  ASSUME NEW t \in Extra, NEW n \in Slots
  PROVE  /\ n < MaxItems => <<t, n>> \in ExtraNodes
         /\ <<t, n>> # dummy
BY NullAssumption, SizeAssumption DEF ExtraNodes, Slots, Threads

\* There are finitely many nodes.
LEMMA NodesAreFinite == IsFiniteSet(ExtraNodes)
<1>1. IsFiniteSet(Extra) /\ IsFiniteSet(0..(MaxItems - 1))
  BY SizeAssumption, FS_Interval DEF Extra
<1>2. IsFiniteSet(Extra \X (0..(MaxItems - 1)))
  BY <1>1, FS_Product
<1>3. IsFiniteSet({dummy})
  BY FS_Singleton
<1> QED
  BY <1>2, <1>3, FS_Union DEF ExtraNodes

\* The nodes that were added are nodes, and a thread's are those it has published
\* and the one it is adding.
LEMMA AddedIs ==
  ASSUME IndexTypes
  PROVE  /\ Added \subseteq ExtraNodes /\ dummy \in Added
         /\ \A t \in Linking : /\ NewNode(t) \in Added /\ NewNode(t) # dummy
                               /\ NewNode(t)[1] = t /\ NewNode(t)[2] = write_head_[t]
         /\ \A x \in Added : x # dummy =>
              \/ x[2] < write_head_[x[1]]
              \/ x[1] \in Linking /\ x = NewNode(x[1]) /\ x[2] = write_head_[x[1]]
         /\ \A t \in Extra, n \in Slots : n < write_head_[t] => <<t, n>> \in Added
<1>1. \A t \in Extra : t \in Threads /\ write_head_[t] \in Slots
  BY ListIndices DEF IndexTypes
<1>2. \A t \in Linking : t \in Extra /\ write_head_[t] < MaxItems
  BY DEF IndexTypes, Linking
<1>3. ASSUME NEW x \in Extra \X Slots, x[2] < write_head_[x[1]]
      PROVE  x \in ExtraNodes
  BY <1>1, <1>3, SizeAssumption DEF ExtraNodes, Slots
<1>4. ASSUME NEW t \in Linking
      PROVE  /\ NewNode(t) \in ExtraNodes /\ NewNode(t) # dummy
             /\ NewNode(t)[1] = t /\ NewNode(t)[2] = write_head_[t]
  BY <1>1, <1>2, IsNode DEF NewNode
<1>5. Added \subseteq ExtraNodes /\ dummy \in Added
  BY <1>3, <1>4 DEF Added, ExtraNodes
<1>6. ASSUME NEW x \in Added, x # dummy
      PROVE  \/ x[2] < write_head_[x[1]]
             \/ x[1] \in Linking /\ x = NewNode(x[1]) /\ x[2] = write_head_[x[1]]
  BY <1>4, <1>6 DEF Added
<1>7. \A t \in Extra, n \in Slots : n < write_head_[t] => <<t, n>> \in Added
  BY DEF Added
<1> QED
  BY <1>4, <1>5, <1>6, <1>7 DEF Added

\* The nodes of the list are their threads' nodes, the first one excepted.
LEMMA ListNodes ==
  ASSUME IndexTypes, NEW K, NEW f, Enumerates(K, f)
  PROVE  /\ K \in Nat /\ Added \subseteq ExtraNodes
         /\ \A k \in 0..K : f[k] \in ExtraNodes
         /\ \A k \in 1..K :
              /\ f[k] # dummy /\ f[k] \in Added
              /\ f[k][1] \in Extra /\ f[k][1] \in Threads /\ f[k][2] \in Slots /\ f[k][2] \in Nat
              /\ f[k] = <<f[k][1], f[k][2]>>
         /\ \A x \in Added : x # dummy => \E k \in 1..K : f[k] = x
<1>1. K \in Nat /\ f \in [Nat -> ExtraNodes] /\ f[0] = dummy /\ 0 \in 0..K
  BY DEF Enumerates
<1>2. ASSUME NEW k \in 1..K
      PROVE  f[k] # dummy /\ f[k] \in Added /\ f[k] \in ExtraNodes
  BY <1>1 DEF Enumerates
<1>3. \A k \in 0..K : f[k] \in ExtraNodes
  BY <1>1
<1>4. \A x \in Added : x # dummy => \E k \in 1..K : f[k] = x
  BY <1>1 DEF Enumerates
<1> QED
  BY <1>1, <1>2, <1>3, <1>4, NodeIs, AddedIs, ListIndices

\* A node that is not linked is not dequeued either.
LEMMA NotLinkedNotRead ==
  ASSUME IndexTypes, NEW K, NEW h, NEW f, ListOrder(K, h, f),
         NEW t \in Linking, NEW k \in 0..(K - 1), f[k + 1] = NewNode(t)
  PROVE  h <= k
<1>1. K \in Nat /\ h \in Nat /\ k \in Nat /\ k + 1 \in 1..K
  BY DEF ListOrder, Enumerates, HeadAt
<1>2. f[k + 1][1] = t /\ f[k + 1][2] = write_head_[t] /\ t \in Threads
  BY AddedIs, ListIndices DEF Linking
<1>3. ~(f[k + 1][2] < read_head_[f[k + 1][1]])
  BY <1>2, ListIndices DEF IndexTypes
<1>4. ~(k + 1 <= h)
  BY <1>1, <1>3 DEF ListOrder, HeadAt
<1> QED
  BY <1>1, <1>4

\* A node whose next is still to be stored has none.
LEMMA LinkFromNull ==
  ASSUME IndexTypes, NEW K, NEW h, NEW f, ListOrder(K, h, f), NEW t \in Linking
  PROVE  next_[old[t]] = nullptr
<1>1. PICK k \in 0..(K - 1) : LinksAt(t, k, f)
  BY DEF ListOrder, Links
<1> QED
  BY <1>1 DEF ListOrder, Links, LinksAt

\* The constructor makes a list of one node.
LEMMA InitKeepsList ==
  ASSUME ListInit, write_head_ = [t \in Threads |-> 0], read_head_ = [t \in Threads |-> 0]
  PROVE  IndexTypes /\ \E K, h, f : ListOrder(K, h, f)
<1> DEFINE f == [k \in Nat |-> dummy]
<1>1. Linking = {} /\ dummy \in ExtraNodes
  BY DEF ListInit, Linking, ExtraNodes
<1>2. IndexTypes
  BY <1>1, SizeAssumption DEF IndexTypes, Slots
<1>3. Added = {dummy}
  BY <1>1, ListIndices DEF Added
<1>4. Enumerates(0, f)
  BY <1>1, <1>3 DEF Enumerates, ListInit
<1>5. Links(0, f)
  BY <1>1, <1>3 DEF Links, ListInit
<1>6. HeadAt(0, 0, f)
  BY DEF HeadAt, ListInit
<1> QED
  BY <1>2, <1>4, <1>5, <1>6 DEF ListOrder

\* The list depends on its threads' indices only, until it is destroyed.
LEMMA OtherStepKeepsList ==
  ASSUME IndexTypes, NEW K, NEW h, NEW f, ListOrder(K, h, f),
         UNCHANGED <<next_, extra_tail_, old, extra_head_, destroyed, deconstructed, deleted>>,
         \A t \in Extra : write_head_'[t] = write_head_[t] /\ read_head_'[t] = read_head_[t],
         destroyed => UNCHANGED <<write_head_, read_head_>>
  PROVE  ListOrder(K, h, f)' /\ Linking' = Linking /\ Added' = Added
<1>1. Linking' = Linking /\ \A t \in Linking : t \in Extra /\ NewNode(t)' = NewNode(t)
  BY DEF Linking, NewNode
<1>2. Added' = Added
  <2>1. {x \in Extra \X Slots : x[2] < write_head_'[x[1]]}
          = {x \in Extra \X Slots : x[2] < write_head_[x[1]]}
    OBVIOUS
  <2>2. {NewNode(t)' : t \in Linking'} = {NewNode(t) : t \in Linking}
    BY <1>1
  <2> QED
    BY <2>1, <2>2 DEF Added
<1>3. Enumerates(K, f)'
  BY <1>2 DEF ListOrder, Enumerates
<1>4. Links(K, f)'
  BY <1>1, <1>2 DEF ListOrder, Links, LinksAt
<1>5. HeadAt(K, h, f)'
  <2>1. h \in 0..K
    BY DEF ListOrder, HeadAt
  <2>2. \A k \in 1..K : k <= h <=> f[k][2] < read_head_'[f[k][1]]
    BY ListNodes DEF ListOrder, HeadAt
  <2>3. destroyed => Left(Threads)' = Left(Threads)
    BY DEF Left
  <2> QED
    BY <1>1, <1>2, <2>1, <2>2, <2>3 DEF ListOrder, HeadAt
<1> QED
  BY <1>1, <1>2, <1>3, <1>4, <1>5 DEF ListOrder

\* The exchange puts the new node behind the last one.
LEMMA SwapKeepsList ==
  ASSUME ListTypes, IndexTypes, NEW K, NEW h, NEW f, ListOrder(K, h, f), ~destroyed,
         NEW t \in Extra, Swap(t), write_head_[t] < MaxItems, UNCHANGED <<write_head_, read_head_>>,
         NEW x, x = NewNode(t), NEW g, g = [f EXCEPT ![K + 1] = x]
  PROVE  ListOrder(K + 1, h, g)' /\ IndexTypes' /\ Linking' = Linking \cup {t}
<1>0. /\ K \in Nat /\ h \in 0..K /\ K + 1 \in Nat /\ f \in [Nat -> ExtraNodes]
      /\ \A k \in 0..K : k \in Nat /\ k # K + 1
      /\ t \in Threads /\ write_head_[t] \in Slots /\ write_head_[t] \in Nat
  BY ListIndices DEF ListOrder, Enumerates, HeadAt, IndexTypes
<1>1. x \in ExtraNodes /\ x # dummy /\ x[1] = t /\ x[2] = write_head_[t] /\ x = <<t, write_head_[t]>>
  BY <1>0, IsNode DEF NewNode
<1>2. /\ old' = [old EXCEPT ![t] = extra_tail_] /\ extra_tail_' = x /\ next_' = next_
      /\ UNCHANGED <<extra_head_, destroyed, deconstructed, deleted>>
      /\ old[t] = nullptr /\ t \notin Linking
  BY DEF Swap, TailNow, Linking, endVars
<1>3. extra_tail_ \in ExtraNodes /\ extra_tail_ # nullptr /\ old \in [Extra -> ExtraNodes \cup {nullptr}]
  BY NodeIs DEF ListTypes
<1>4. /\ Linking' = Linking \cup {t}
      /\ \A u \in Extra : NewNode(u)' = NewNode(u)
      /\ \A u \in Linking : u # t /\ u \in Extra /\ old'[u] = old[u]
      /\ old'[t] = extra_tail_
  BY <1>2, <1>3 DEF Linking, NewNode
<1>5. Added' = Added \cup {x}
  <2>1. {NewNode(u)' : u \in Linking'} = {NewNode(u) : u \in Linking} \cup {x}
    BY <1>4 DEF Linking
  <2> QED
    BY <2>1 DEF Added
<1>6. x \notin Added
  BY <1>1, <1>2, <1>0, AddedIs
<1>7. /\ g \in [Nat -> ExtraNodes] /\ g[K + 1] = x
      /\ \A k \in 0..K : g[k] = f[k]
      /\ \A k \in 0..(K + 1) : k \in 0..K \/ k = K + 1
      /\ \A k \in 0..K : f[k] \in Added /\ f[k] # x
  BY <1>0, <1>1, <1>6 DEF ListOrder, Enumerates
<1>8. Enumerates(K + 1, g)'
  <2>1. g[0] = dummy
    BY <1>0, <1>7 DEF ListOrder, Enumerates
  <2>2. ASSUME NEW j \in 0..(K + 1), NEW k \in 0..(K + 1), g[j] = g[k]
        PROVE  j = k
    BY <1>7, <2>2 DEF ListOrder, Enumerates
  <2>3. \A k \in 0..(K + 1) : g[k] \in Added'
    BY <1>5, <1>7
  <2>4. \A y \in Added' : \E k \in 0..(K + 1) : g[k] = y
    <3>1. \A k \in 0..K : k \in 0..(K + 1)
      BY <1>0
    <3>2. K + 1 \in 0..(K + 1)
      BY <1>0
    <3> QED
      BY <1>5, <1>7, <3>1, <3>2 DEF ListOrder, Enumerates
  <2>5. ASSUME NEW j \in 1..(K + 1), NEW k \in 1..(K + 1), g[j][1] = g[k][1], g[j][2] < g[k][2]
        PROVE  j < k
    <3>1. \A m \in 1..(K + 1) : m \in 1..K \/ m = K + 1
      BY <1>0
    <3>2. CASE j \in 1..K /\ k \in 1..K
      BY <1>7, <2>5, <3>2 DEF ListOrder, Enumerates
    <3>3. CASE j \in 1..K /\ k = K + 1
      BY <1>0, <3>3
    <3>4. CASE j = K + 1
      <4>1. x[1] = g[k][1] /\ x[2] < g[k][2]
        BY <1>7, <2>5, <3>4
      <4>2. k \in 1..K
        BY <1>0, <1>1, <1>7, <3>1, <4>1
      <4>3. f[k] # dummy /\ f[k] \in Added /\ f[k][1] = t /\ write_head_[t] < f[k][2] /\ f[k][2] \in Nat
        BY <1>1, <1>7, <4>1, <4>2, ListNodes DEF ListOrder
      <4>4. FALSE
        BY <1>0, <1>2, <4>3, AddedIs
      <4> QED
        BY <4>4
    <3> QED
      BY <3>1, <3>2, <3>3, <3>4
  <2> QED
    BY <1>0, <1>2, <1>7, <2>1, <2>2, <2>3, <2>4, <2>5 DEF Enumerates
<1>9. Links(K + 1, g)'
  <2>0. f[K] = extra_tail_ /\ next_[f[K]] = nullptr /\ \A k \in 0..(K - 1) : k \in 0..K /\ k + 1 \in 0..K
    BY <1>0 DEF ListOrder, Enumerates, Links
  <2>1. ASSUME NEW k \in 0..((K + 1) - 1)
        PROVE  \/ next_'[g[k]] = g[k + 1] /\ \A u \in Linking' : NewNode(u)' # g[k + 1]
               \/ next_'[g[k]] = nullptr /\ \E u \in Linking' : LinksAt(u, k, g)'
    <3>1. CASE k = K
      <4>1. LinksAt(t, k, g)'
        BY <1>0, <1>2, <1>4, <1>7, <2>0, <3>1 DEF LinksAt
      <4> QED
        BY <1>0, <1>2, <1>4, <1>7, <2>0, <3>1, <4>1
    <3>2. CASE k # K
      <4>1. k \in 0..(K - 1) /\ g[k] = f[k] /\ g[k + 1] = f[k + 1] /\ f[k + 1] # x
        BY <1>0, <1>7, <3>2
      <4>2. \A u \in Linking : LinksAt(u, k, f) => LinksAt(u, k, g)'
        BY <1>4, <4>1 DEF LinksAt
      <4> QED
        BY <1>2, <1>4, <4>1, <4>2 DEF ListOrder, Links
    <3> QED
      BY <3>1, <3>2
  <2>2. next_'[extra_tail_'] = nullptr /\ \A y \in ExtraNodes \ Added' : next_'[y] = nullptr
    BY <1>1, <1>2, <1>5, <1>6 DEF ListOrder, Links
  <2>3. ASSUME NEW u \in Linking'
        PROVE  \E k \in 0..((K + 1) - 1) : LinksAt(u, k, g)'
    <3>1. CASE u = t
      <4>1. LinksAt(t, K, g)' /\ K \in 0..((K + 1) - 1)
        BY <1>0, <1>4, <1>7, <2>0 DEF LinksAt
      <4> QED
        BY <3>1, <4>1
    <3>2. CASE u # t
      <4>1. PICK k \in 0..(K - 1) : LinksAt(u, k, f)
        BY <1>4, <3>2 DEF ListOrder, Links
      <4>2. k \in 0..((K + 1) - 1) /\ g[k] = f[k] /\ g[k + 1] = f[k + 1]
        BY <1>0, <1>7, <2>0
      <4>3. LinksAt(u, k, g)'
        BY <1>4, <3>2, <4>1, <4>2 DEF LinksAt
      <4> QED
        BY <4>2, <4>3
    <3> QED
      BY <3>1, <3>2
  <2> QED
    BY <2>1, <2>2, <2>3 DEF Links
<1>10. HeadAt(K + 1, h, g)'
  <2>1. ASSUME NEW k \in 1..(K + 1)
        PROVE  k <= h <=> g[k][2] < read_head_'[g[k][1]]
    <3>1. CASE k = K + 1
      <4>1. ~(k <= h) /\ ~(write_head_[t] < read_head_[t])
        BY <1>0, <3>1, ListIndices DEF IndexTypes
      <4> QED
        BY <1>1, <1>7, <3>1, <4>1
    <3>2. CASE k \in 1..K
      BY <1>7, <3>2 DEF ListOrder, HeadAt
    <3> QED
      BY <1>0, <3>1, <3>2
  <2>2. h \in 0..(K + 1) /\ g[h] = f[h] /\ \A k \in 0..(h - 1) : g[k] = f[k]
    BY <1>0, <1>7
  <2> QED
    BY <1>2, <2>1, <2>2 DEF ListOrder, HeadAt
<1>11. IndexTypes'
  BY <1>4 DEF IndexTypes
<1> QED
  BY <1>4, <1>8, <1>9, <1>10, <1>11 DEF ListOrder

\* The store of next_ links the node behind the one that was last before it.
LEMMA LinkKeepsList ==
  ASSUME ListTypes, IndexTypes, NEW K, NEW h, NEW f, ListOrder(K, h, f), ~destroyed,
         NEW t \in Extra, LinkOld(t), read_head_' = read_head_,
         write_head_' = [write_head_ EXCEPT ![t] = @ + 1]
  PROVE  /\ ListOrder(K, h, f)' /\ IndexTypes' /\ Linking' = Linking \ {t}
         /\ t \in Linking /\ next_'[old[t]] = NewNode(t)
<1> DEFINE x == NewNode(t)
<1>0. /\ t \in Threads /\ write_head_ \in [Threads -> Slots] /\ write_head_[t] \in Nat
      /\ write_head_[t] + 1 \in Slots /\ K \in Nat
      /\ \A u \in Threads : write_head_[u] \in Nat /\ read_head_[u] \in Nat
      /\ \A u \in Extra : u \in Threads
  BY ListIndices DEF ListOrder, Enumerates, IndexTypes, LinkOld, Linking
<1>1. /\ next_' = [next_ EXCEPT ![old[t]] = x] /\ old' = [old EXCEPT ![t] = nullptr]
      /\ UNCHANGED <<extra_tail_, extra_head_, destroyed, deconstructed, deleted>>
      /\ t \in Linking
  BY DEF LinkOld, Linked, Linking, endVars
<1>2. /\ next_ \in [ExtraNodes -> ExtraNodes \cup {nullptr}]
      /\ old \in [Extra -> ExtraNodes \cup {nullptr}]
      /\ x \in ExtraNodes /\ x \in Added /\ x # nullptr
      /\ x = <<t, write_head_[t]>> /\ x[1] = t /\ x[2] = write_head_[t]
  BY <1>1, AddedIs, NodeIs DEF ListTypes, NewNode
<1>3. /\ Linking' = Linking \ {t}
      /\ \A u \in Linking' : u # t /\ u \in Extra /\ old'[u] = old[u] /\ NewNode(u)' = NewNode(u)
  BY <1>0, <1>1, <1>2 DEF Linking, NewNode
<1>4. Added' = Added
  <2>1. ASSUME NEW y \in Extra \X Slots
        PROVE  y[2] < write_head_'[y[1]] <=> (y[2] < write_head_[y[1]] \/ y = x)
    <3>1. y[1] \in Threads /\ y[2] \in Nat /\ y = <<y[1], y[2]>>
      BY ListIndices
    <3>2. CASE y[1] = t
      <4>1. write_head_'[y[1]] = write_head_[t] + 1
        BY <1>0, <3>2
      <4>2. y[2] < write_head_[t] + 1 <=> y[2] < write_head_[t] \/ y[2] = write_head_[t]
        BY <1>0, <3>1
      <4> QED
        BY <1>2, <3>1, <3>2, <4>1, <4>2
    <3>3. CASE y[1] # t
      BY <1>0, <1>2, <3>1, <3>3
    <3> QED
      BY <3>2, <3>3
  <2>2. x \in Extra \X Slots
    BY <1>0, <1>2
  <2>3. {y \in Extra \X Slots : y[2] < write_head_'[y[1]]}
          = {y \in Extra \X Slots : y[2] < write_head_[y[1]]} \cup {x}
    BY <2>1, <2>2
  <2>4. {NewNode(u) : u \in Linking} = {NewNode(u)' : u \in Linking'} \cup {x}
    BY <1>1, <1>3
  <2> QED
    BY <2>3, <2>4 DEF Added
<1>5. PICK k \in 0..(K - 1) : LinksAt(t, k, f)
  BY <1>1 DEF ListOrder, Links
<1>6. /\ old[t] = f[k] /\ x = f[k + 1] /\ k \in 0..K /\ k + 1 \in 0..K
      /\ \A m \in 0..(K - 1) : m \in 0..K /\ m + 1 \in 0..K
      /\ f \in [Nat -> ExtraNodes] /\ f[K] = extra_tail_
      /\ \A m, n \in 0..K : f[m] = f[n] => m = n
      /\ \A m \in 0..K : f[m] \in Added
  BY <1>0, <1>5 DEF LinksAt, ListOrder, Enumerates
<1>7. \A y \in ExtraNodes : next_'[y] = IF y = f[k] THEN x ELSE next_[y]
  BY <1>1, <1>2, <1>6
<1> HIDE DEF x
<1>8. Enumerates(K, f)'
  BY <1>1, <1>4 DEF ListOrder, Enumerates
<1>9. Links(K, f)'
  <2>1. ASSUME NEW m \in 0..(K - 1)
        PROVE  \/ next_'[f[m]] = f[m + 1] /\ \A u \in Linking' : NewNode(u)' # f[m + 1]
               \/ next_'[f[m]] = nullptr /\ \E u \in Linking' : LinksAt(u, m, f)'
    <3>1. CASE m = k
      <4>1. \A u \in Linking' : NewNode(u)' # x
        <5>1. \A u \in Linking' : NewNode(u)[1] = u
          BY <1>3, AddedIs
        <5> QED
          BY <1>2, <1>3, <5>1
      <4> QED
        BY <1>6, <1>7, <3>1, <4>1
    <3>2. CASE m # k
      <4>1. f[m] # f[k] /\ f[m] \in ExtraNodes /\ f[m + 1] # x
        BY <1>6, <3>2
      <4>2. next_'[f[m]] = next_[f[m]]
        BY <1>7, <4>1
      <4>3. CASE next_[f[m]] = f[m + 1] /\ \A u \in Linking : NewNode(u) # f[m + 1]
        BY <1>3, <4>2, <4>3
      <4>4. CASE next_[f[m]] = nullptr /\ \E u \in Linking : LinksAt(u, m, f)
        <5>1. PICK u \in Linking : LinksAt(u, m, f)
          BY <4>4
        <5>2. u \in Linking'
          BY <1>3, <4>1, <5>1 DEF LinksAt, x
        <5>3. LinksAt(u, m, f)'
          BY <1>3, <5>1, <5>2 DEF LinksAt
        <5> QED
          BY <4>2, <4>4, <5>2, <5>3
      <4> QED
        BY <4>3, <4>4 DEF ListOrder, Links
    <3> QED
      BY <3>1, <3>2
  <2>2. next_'[extra_tail_'] = nullptr
    <3>1. extra_tail_ # f[k] /\ extra_tail_ \in ExtraNodes
      BY <1>0, <1>6
    <3> QED
      BY <1>1, <1>7, <3>1 DEF ListOrder, Links
  <2>3. \A y \in ExtraNodes \ Added' : next_'[y] = nullptr
    BY <1>4, <1>6, <1>7 DEF ListOrder, Links
  <2>4. ASSUME NEW u \in Linking'
        PROVE  \E m \in 0..(K - 1) : LinksAt(u, m, f)'
    <3>1. PICK m \in 0..(K - 1) : LinksAt(u, m, f)
      BY <1>3 DEF ListOrder, Links
    <3> QED
      BY <1>3, <3>1 DEF LinksAt
  <2> QED
    BY <2>1, <2>2, <2>3, <2>4 DEF Links
<1>10. HeadAt(K, h, f)'
  BY <1>1 DEF ListOrder, HeadAt
<1>11. IndexTypes'
  <2>1. \A u \in Threads : write_head_'[u] = IF u = t THEN write_head_[u] + 1 ELSE write_head_[u]
    BY <1>0
  <2>2. write_head_' \in [Threads -> Slots] /\ \A u \in Threads : read_head_[u] <= write_head_'[u]
    BY <1>0, <2>1 DEF IndexTypes
  <2>3. \A u \in Linking' : write_head_'[u] < MaxItems
    BY <1>0, <1>3, <2>1 DEF IndexTypes
  <2> QED
    BY <2>2, <2>3 DEF IndexTypes
<1>12. next_'[old[t]] = x
  BY <1>6, <1>7
<1> QED
  BY <1>1, <1>3, <1>8, <1>9, <1>10, <1>11, <1>12 DEF ListOrder, x

\* The node after the one the consumer stands on is the next of its thread.
LEMMA NextIsUnread ==
  ASSUME ListTypes, IndexTypes, NEW K, NEW h, NEW f, ListOrder(K, h, f), ~destroyed,
         next_[extra_head_] # nullptr
  PROVE  /\ h + 1 \in 1..K /\ h \in 0..K /\ h \in Nat
         /\ extra_head_ = f[h] /\ next_[extra_head_] = f[h + 1]
         /\ f[h + 1][1] \in Extra
         /\ f[h + 1][2] = read_head_[f[h + 1][1]]
         /\ f[h + 1][2] < write_head_[f[h + 1][1]]
<1>1. K \in Nat /\ h \in 0..K /\ h \in Nat /\ extra_head_ = f[h]
  BY DEF ListOrder, Enumerates, HeadAt
<1>2. h # K
  BY <1>1 DEF ListOrder, Links, Enumerates
<1>3. h \in 0..(K - 1) /\ h + 1 \in 1..K /\ ~(h + 1 <= h)
  BY <1>1, <1>2
<1>4. next_[extra_head_] = f[h + 1] /\ \A t \in Linking : NewNode(t) # f[h + 1]
  BY <1>1, <1>3 DEF ListOrder, Links
<1> DEFINE t == f[h + 1][1]
           n == f[h + 1][2]
<1>5. /\ t \in Extra /\ t \in Threads /\ n \in Nat /\ f[h + 1] \in Added /\ f[h + 1] # dummy
      /\ f[h + 1] = <<t, n>>
  BY <1>3, ListNodes DEF ListOrder
<1>6. n < write_head_[t]
  BY <1>4, <1>5, AddedIs
<1>7. ~(n < read_head_[t]) /\ read_head_[t] \in Nat /\ read_head_[t] \in Slots /\ write_head_[t] \in Nat
  BY <1>3, <1>5, ListIndices DEF ListOrder, HeadAt, IndexTypes
<1>8. ASSUME read_head_[t] < n
      PROVE  FALSE
  <2>1. <<t, read_head_[t]>> \in Added /\ <<t, read_head_[t]>> # dummy
    BY <1>5, <1>6, <1>7, <1>8, AddedIs, IsNode
  <2>2. PICK j \in 1..K : f[j] = <<t, read_head_[t]>>
    BY <2>1, ListNodes DEF ListOrder
  <2>3. j < h + 1
    BY <1>3, <1>8, <2>2 DEF ListOrder, Enumerates
  <2>4. j <= h
    BY <1>1, <2>3
  <2> QED
    BY <1>7, <2>2, <2>4 DEF ListOrder, HeadAt
<1>9. n = read_head_[t]
  BY <1>5, <1>7, <1>8
<1> QED
  BY <1>1, <1>3, <1>4, <1>5, <1>6, <1>9

\* dequeue moves to that node, and deletes the one before.
LEMMA CutKeepsList ==
  ASSUME ListTypes, IndexTypes, NEW K, NEW h, NEW f, ListOrder(K, h, f), ~destroyed,
         CutHead, extra_next = next_[extra_head_], extra_next # nullptr,
         write_head_' = write_head_
  PROVE  ListOrder(K, h + 1, f)' /\ IndexTypes' /\ Linking' = Linking
<1>1. /\ h + 1 \in 1..K /\ h \in 0..K /\ h \in Nat /\ K \in Nat
      /\ extra_head_ = f[h] /\ extra_next = f[h + 1]
  BY NextIsUnread DEF ListOrder, Enumerates
<1>2. PICK t \in Extra : f[h + 1][1] = t
  BY NextIsUnread
<1>3. f[h + 1][2] = read_head_[t] /\ read_head_[t] < write_head_[t]
  BY <1>2, NextIsUnread
<1>4. /\ extra_head_' = f[h + 1] /\ deleted' = deleted \cup {f[h]}
      /\ read_head_' = [read_head_ EXCEPT ![t] = @ + 1]
      /\ UNCHANGED <<next_, extra_tail_, old, extra_next, destroyed, deconstructed, write_head_>>
  BY <1>1, <1>2 DEF CutHead, Reclaimed, endVars
<1>5. /\ t \in Threads /\ read_head_ \in [Threads -> Slots]
      /\ \A u \in Threads : read_head_[u] \in Nat /\ write_head_[u] \in Slots /\ write_head_[u] \in Nat
      /\ \A u \in Threads : read_head_'[u] = IF u = t THEN read_head_[u] + 1 ELSE read_head_[u]
  BY <1>4, ListIndices DEF IndexTypes
<1>6. Linking' = Linking /\ Added' = Added /\ \A u \in Linking : NewNode(u)' = NewNode(u)
  BY <1>4 DEF Linking, Added, NewNode
<1>7. Enumerates(K, f)' /\ Links(K, f)'
  BY <1>4, <1>6 DEF ListOrder, Enumerates, Links, LinksAt
<1>8. HeadAt(K, h + 1, f)'
  <2>1. ASSUME NEW k \in 1..K
        PROVE  k <= h + 1 <=> f[k][2] < read_head_'[f[k][1]]
    <3>0. /\ f[k] = <<f[k][1], f[k][2]>> /\ f[k][1] \in Threads /\ f[k][2] \in Nat
          /\ f[h + 1] = <<t, read_head_[t]>>
          /\ k <= h <=> f[k][2] < read_head_[f[k][1]]
          /\ f[k] = f[h + 1] => k = h + 1
          /\ k \in Nat
      <4>1. f[h + 1] = <<f[h + 1][1], f[h + 1][2]>>
        BY <1>1, ListNodes DEF ListOrder
      <4>2. k \in 0..K /\ h + 1 \in 0..K
        BY <1>1
      <4> QED
        BY <1>2, <1>3, <4>1, <4>2, ListNodes DEF ListOrder, Enumerates, HeadAt
    <3>1. CASE k = h + 1
      <4>1. f[k][2] < read_head_'[f[k][1]]
        BY <1>2, <1>3, <1>5, <3>1
      <4> QED
        BY <1>1, <3>1, <4>1
    <3>2. CASE k # h + 1 /\ f[k][1] = t
      <4>1. f[k][2] # read_head_[t]
        BY <3>0, <3>2
      <4> QED
        BY <1>1, <1>5, <3>0, <3>2, <4>1
    <3>3. CASE k # h + 1 /\ f[k][1] # t
      BY <1>1, <1>5, <3>0, <3>3
    <3> QED
      BY <3>1, <3>2, <3>3
  <2>2. h + 1 \in 0..K
    BY <1>1
  <2>3. ASSUME NEW x \in ExtraNodes
        PROVE  x \in deleted' <=> \E k \in 0..((h + 1) - 1) : x = f[k]
    <3>1. x \in deleted <=> \E k \in 0..(h - 1) : x = f[k]
      BY DEF ListOrder, HeadAt
    <3>2. h \in 0..((h + 1) - 1) /\ \A k \in 0..((h + 1) - 1) : k \in 0..(h - 1) \/ k = h
      BY <1>1
    <3>3. \A k \in 0..(h - 1) : k \in 0..((h + 1) - 1)
      BY <1>1
    <3> QED
      BY <1>4, <3>1, <3>2, <3>3
  <2> QED
    BY <1>4, <2>1, <2>2, <2>3 DEF HeadAt
<1>9. IndexTypes'
  <2>1. read_head_[t] + 1 \in Slots /\ read_head_[t] + 1 <= write_head_[t]
    BY <1>3, <1>5, SizeAssumption DEF Slots
  <2>2. read_head_' \in [Threads -> Slots] /\ \A u \in Threads : read_head_'[u] <= write_head_[u]
    BY <1>4, <1>5, <2>1 DEF IndexTypes
  <2> QED
    BY <1>4, <1>6, <2>2 DEF IndexTypes
<1> QED
  BY <1>6, <1>7, <1>8, <1>9 DEF ListOrder

\* From a node at or behind the head one reaches no node before the head.
LEMMA ChainBehind ==
  ASSUME ListTypes, IndexTypes, NEW K, NEW h, NEW f, ListOrder(K, h, f),
         NEW k \in h..K
  PROVE  Chain(f[k]) \subseteq {f[j] : j \in h..K}
<1> DEFINE A == {f[j] : j \in h..K}
<1>1. K \in Nat /\ h \in Nat /\ h \in 0..K /\ f[K] = extra_tail_
  BY DEF ListOrder, Enumerates, HeadAt
<1>2. \A j \in h..K : next_[f[j]] \in A \/ next_[f[j]] = nullptr
  <2> TAKE j \in h..K
  <2>1. CASE j = K
    BY <1>1, <2>1 DEF ListOrder, Links
  <2>2. CASE j # K
    <3>1. j \in 0..(K - 1) /\ j + 1 \in h..K
      BY <1>1, <2>2
    <3>2. next_[f[j]] = f[j + 1] \/ next_[f[j]] = nullptr
      BY <3>1 DEF ListOrder, Links
    <3> QED
      BY <3>1, <3>2
  <2> QED
    BY <2>1, <2>2
<1>3. \A y \in A : next_[y] \in A \/ next_[y] = nullptr
  BY <1>2
<1>4. IsFiniteSet(DOMAIN next_)
  BY NodesAreFinite DEF ListTypes
<1>5. f[k] \in A
  OBVIOUS
<1> HIDE DEF A
<1>6. Reachable(next_, nullptr, f[k]) \subseteq A
  BY <1>3, <1>4, <1>5, ReachLeast
<1> QED
  BY <1>6 DEF Chain, A

\* A chain has its first node, and goes on behind each of its nodes.
LEMMA ChainGoesOn ==
  ASSUME ListTypes, NEW x \in ExtraNodes
  PROVE  /\ x \in Chain(x)
         /\ \A y \in Chain(x) : next_[y] # nullptr => next_[y] \in Chain(x)
<1>1. /\ DOMAIN next_ = ExtraNodes /\ x # nullptr
      /\ \A y \in ExtraNodes : next_[y] \in ExtraNodes \/ next_[y] = nullptr
  BY NodeIs DEF ListTypes
<1> QED
  BY <1>1, NodesAreFinite, ReachClosed DEF Chain

\* The chains from the head and from the nodes that are not linked have every
\* node from the head on, and no other.
LEMMA ChainsCover ==
  ASSUME ListTypes, IndexTypes, NEW K, NEW h, NEW f, ListOrder(K, h, f), ~destroyed
  PROVE  Chain(extra_head_) \cup UNION {Chain(NewNode(t)) : t \in Linking} = {f[k] : k \in h..K}
<1> DEFINE U == Chain(extra_head_) \cup UNION {Chain(NewNode(t)) : t \in Linking}
<1>1. /\ K \in Nat /\ h \in Nat /\ h \in 0..K /\ h \in h..K
      /\ extra_head_ = f[h] /\ f \in [Nat -> ExtraNodes]
      /\ \A t \in Linking : NewNode(t) \in ExtraNodes
  BY AddedIs DEF ListOrder, Enumerates, HeadAt
<1>2. \A t \in Linking : \E k \in h..K : NewNode(t) = f[k]
  <2> TAKE t \in Linking
  <2>1. PICK k \in 0..(K - 1) : LinksAt(t, k, f)
    BY DEF ListOrder, Links
  <2>2. h <= k
    BY <2>1, NotLinkedNotRead DEF LinksAt
  <2>3. k + 1 \in h..K /\ NewNode(t) = f[k + 1]
    BY <1>1, <2>1, <2>2 DEF LinksAt
  <2> QED
    BY <2>3
<1>3. U \subseteq {f[k] : k \in h..K}
  <2>1. Chain(extra_head_) \subseteq {f[k] : k \in h..K}
    BY <1>1, ChainBehind
  <2>2. ASSUME NEW t \in Linking
        PROVE  Chain(NewNode(t)) \subseteq {f[k] : k \in h..K}
    BY <1>2, ChainBehind
  <2> QED
    BY <2>1, <2>2
<1>4. /\ f[h] \in U
      /\ \A t \in Linking : NewNode(t) \in U
      /\ \A y \in U : next_[y] # nullptr => next_[y] \in U
  <2>1. extra_head_ \in ExtraNodes
    BY <1>1
  <2> QED
    BY <1>1, <2>1, ChainGoesOn
<1> HIDE DEF U
<1> DEFINE Bad == {k \in h..K : f[k] \notin U}
<1>5. ASSUME Bad # {}
      PROVE  FALSE
  <2>1. PICK m \in Bad : \A k \in Bad : m <= k
    <3>1. Bad \in SUBSET Nat
      BY <1>1
    <3> HIDE DEF Bad
    <3> QED
      BY <1>5, <3>1, LeastNatural
  <2>2. m \in h..K /\ f[m] \notin U /\ m # h
    BY <1>4
  <2>3. m - 1 \in h..K /\ m - 1 \in 0..(K - 1) /\ ~(m <= m - 1) /\ (m - 1) + 1 = m
    BY <1>1, <2>2
  <2>4. f[m - 1] \in U
    BY <2>1, <2>3
  <2>5. next_[f[m - 1]] = f[m] \/ \E t \in Linking : NewNode(t) = f[m]
    BY <2>3 DEF ListOrder, Links, LinksAt
  <2>6. f[m] # nullptr
    BY <1>1, <2>2, NodeIs
  <2> QED
    BY <1>4, <2>2, <2>4, <2>5, <2>6
<1>6. {f[k] : k \in h..K} \subseteq U
  BY <1>5
<1> QED
  BY <1>3, <1>6 DEF U

\* The nodes from the head on are the head, the elements that are not dequeued and
\* the nodes that are not linked.
LEMMA BehindIsLeft ==
  ASSUME IndexTypes, NEW K, NEW h, NEW f, ListOrder(K, h, f)
  PROVE  {f[k] : k \in h..K} = {f[h]} \cup Left(Extra) \cup {NewNode(t) : t \in Linking}
<1>1. K \in Nat /\ h \in Nat /\ h \in 0..K /\ h \in h..K
  BY DEF ListOrder, Enumerates, HeadAt
<1>2. ASSUME NEW k \in h..K, k # h
      PROVE  f[k] \in Left(Extra) \/ \E t \in Linking : f[k] = NewNode(t)
  <2>1. k \in 1..K /\ ~(k <= h)
    BY <1>1, <1>2
  <2>2. /\ f[k][1] \in Extra /\ f[k][1] \in Threads /\ f[k][2] \in Slots /\ f[k][2] \in Nat
        /\ f[k] = <<f[k][1], f[k][2]>> /\ f[k] \in Added /\ f[k] # dummy
    BY <2>1, ListNodes DEF ListOrder
  <2>3. ~(f[k][2] < read_head_[f[k][1]])
    BY <2>1 DEF ListOrder, HeadAt
  <2>4. read_head_[f[k][1]] \in Nat
    BY <2>2, ListIndices DEF IndexTypes
  <2>5. CASE f[k][2] < write_head_[f[k][1]]
    <3>1. f[k] \in Extra \X Slots
      BY <2>2
    <3>2. read_head_[f[k][1]] <= f[k][2]
      BY <2>2, <2>3, <2>4
    <3> QED
      BY <2>5, <3>1, <3>2 DEF Left
  <2>6. CASE f[k][1] \in Linking /\ f[k] = NewNode(f[k][1])
    BY <2>6
  <2> QED
    BY <2>2, <2>5, <2>6, AddedIs
<1>3. ASSUME NEW x \in Left(Extra)
      PROVE  \E k \in h..K : f[k] = x
  <2>1. /\ x \in Extra \X Slots /\ x[1] \in Extra /\ x[1] \in Threads /\ x[2] \in Nat
        /\ x = <<x[1], x[2]>>
        /\ read_head_[x[1]] <= x[2] /\ x[2] < write_head_[x[1]]
    BY ListIndices DEF Left
  <2>2. x \in Added /\ x # dummy /\ read_head_[x[1]] \in Nat
    BY <2>1, IsNode, ListIndices DEF Added, IndexTypes
  <2>3. PICK k \in 1..K : f[k] = x
    BY <2>2, ListNodes DEF ListOrder
  <2>4. ~(k <= h)
    BY <2>1, <2>2, <2>3 DEF ListOrder, HeadAt
  <2> QED
    BY <1>1, <2>3, <2>4
<1>4. ASSUME NEW t \in Linking
      PROVE  \E k \in h..K : f[k] = NewNode(t)
  <2>1. PICK k \in 0..(K - 1) : LinksAt(t, k, f)
    BY DEF ListOrder, Links
  <2>2. h <= k
    BY <2>1, NotLinkedNotRead DEF LinksAt
  <2>3. k + 1 \in h..K /\ f[k + 1] = NewNode(t)
    BY <1>1, <2>1, <2>2 DEF LinksAt
  <2> QED
    BY <2>3
<1> QED
  BY <1>1, <1>2, <1>3, <1>4

\* Where no thread is linking, the destructor walks to the end of the list.
LEMMA DestroyKeepsList ==
  ASSUME ListTypes, IndexTypes, NEW K, NEW h, NEW f, ListOrder(K, h, f),
         Linking = {}, DestroyList, UNCHANGED <<write_head_, read_head_>>
  PROVE  ListOrder(K, h, f)' /\ IndexTypes' /\ Linking' = {}
<1>1. /\ ~destroyed /\ destroyed' = TRUE
      /\ deconstructed' = Left(Bounded) \cup Walked /\ deleted' = deleted \cup Walked
      /\ UNCHANGED <<next_, extra_tail_, old, extra_next, write_head_, read_head_>>
  BY DEF DestroyList
<1>2. Walked = {f[k] : k \in h..K}
  BY <1>1, ChainsCover DEF Walked
<1>3. Walked = {f[h]} \cup Left(Extra)
  BY <1>2, BehindIsLeft
<1>4. /\ K \in Nat /\ h \in 0..K /\ Added \subseteq ExtraNodes
      /\ \A x \in ExtraNodes : x \in deleted <=> \E k \in 0..(h - 1) : x = f[k]
      /\ deleted \subseteq ExtraNodes
  BY <1>1, AddedIs DEF ListOrder, Enumerates, HeadAt, ListTypes
<1>5. deleted' = Added
  <2>1. \A k \in 0..K : k \in 0..(h - 1) \/ k \in h..K
    BY <1>4
  <2>2. Added \subseteq deleted'
    BY <1>1, <1>2, <1>4, <2>1 DEF ListOrder, Enumerates
  <2>3. (\A k \in 0..(h - 1) : k \in 0..K) /\ (\A k \in h..K : k \in 0..K)
    BY <1>4
  <2>4. deleted' \subseteq Added
    BY <1>1, <1>2, <1>4, <2>3 DEF ListOrder, Enumerates
  <2> QED
    BY <2>2, <2>4
<1>6. Left(Threads) = Left(Bounded) \cup Left(Extra) /\ Left(Threads)' = Left(Threads)
  BY <1>1 DEF Left, Threads
<1>7. Linking' = Linking /\ Added' = Added
  BY <1>1 DEF Linking, Added, NewNode
<1>8. Enumerates(K, f)' /\ Links(K, f)'
  BY <1>1, <1>7 DEF ListOrder, Enumerates, Links, LinksAt
<1>9. HeadAt(K, h, f)'
  BY <1>1, <1>3, <1>4, <1>5, <1>6, <1>7 DEF ListOrder, HeadAt
<1>10. IndexTypes'
  BY <1>1, <1>7 DEF IndexTypes
<1> QED
  BY <1>7, <1>8, <1>9, <1>10 DEF ListOrder

-----------------------------------------------------------------------------
(* What the order of the list gives. *)

\* No node that was deleted can be reached any more, and no thread still has to
\* store the next_ of one.
LEMMA OrderMakesSafe ==
  ASSUME ListTypes, IndexTypes, NEW K, NEW h, NEW f, ListOrder(K, h, f)
  PROVE  SafeReclaim
<1>1. /\ K \in Nat /\ h \in Nat /\ h \in 0..K
      /\ \A j, k \in 0..K : f[j] = f[k] => j = k
      /\ \A k \in 0..K : f[k] \in ExtraNodes
  BY DEF ListOrder, Enumerates, HeadAt
<1>2. ASSUME ~destroyed, NEW k \in h..K
      PROVE  f[k] \notin deleted
  <2>1. k \in 0..K /\ \A j \in 0..(h - 1) : j \in 0..K /\ j # k
    BY <1>1
  <2>2. f[k] \in ExtraNodes /\ \A j \in 0..(h - 1) : f[j] # f[k]
    BY <1>1, <2>1
  <2> QED
    BY <1>2, <2>2 DEF ListOrder, HeadAt
<1>3. ASSUME ~destroyed
      PROVE  Chain(extra_head_) \cap deleted = {}
  <2>1. extra_head_ = f[h] /\ h \in h..K
    BY <1>1, <1>3 DEF ListOrder, HeadAt
  <2>2. Chain(extra_head_) \subseteq {f[k] : k \in h..K}
    BY <2>1, ChainBehind
  <2> QED
    BY <1>2, <1>3, <2>2
<1>4. ASSUME NEW t \in Linking
      PROVE  old[t] \notin deleted
  <2>1. PICK k \in 0..(K - 1) : LinksAt(t, k, f)
    BY DEF ListOrder, Links
  <2>2. h <= k /\ k \in h..K /\ old[t] = f[k]
    <3>1. h <= k
      BY <2>1, NotLinkedNotRead DEF LinksAt
    <3> QED
      BY <1>1, <2>1, <3>1 DEF LinksAt
  <2>3. ~destroyed
    BY DEF ListOrder, HeadAt
  <2> QED
    BY <1>2, <2>2, <2>3
<1> QED
  BY <1>3, <1>4 DEF SafeReclaim

\* Nothing between the head and the tail is lost.
LEMMA OrderMakesIntact ==
  ASSUME ListTypes, IndexTypes, NEW K, NEW h, NEW f, ListOrder(K, h, f)
  PROVE  ListIntact
<1> SUFFICES ASSUME ~destroyed
             PROVE  Chain(extra_head_) \cup UNION {Chain(NewNode(t)) : t \in Linking}
                      = {extra_head_} \cup Left(Extra) \cup {NewNode(t) : t \in Linking}
  BY DEF ListIntact
<1>1. extra_head_ = f[h]
  BY DEF ListOrder, HeadAt
<1> QED
  BY <1>1, ChainsCover, BehindIsLeft

\* Nothing is forgotten by the destructor.
LEMMA OrderMakesDestroyed ==
  ASSUME ListTypes, IndexTypes, NEW K, NEW h, NEW f, ListOrder(K, h, f)
  PROVE  DestroysAll
<1> SUFFICES ASSUME destroyed
             PROVE  /\ deleted = {dummy} \cup {x \in Extra \X Slots : x[2] < write_head_[x[1]]}
                    /\ \E x \in deleted \ Left(Threads) : deconstructed = Left(Threads) \cup {x}
  BY DEF DestroysAll
<1>1. /\ Linking = {} /\ deleted = Added /\ deconstructed = Left(Threads) \cup {f[h]}
      /\ h \in 0..K /\ K \in Nat /\ f[h] \in Added
  BY DEF ListOrder, HeadAt, Enumerates
<1>2. Added = {dummy} \cup {x \in Extra \X Slots : x[2] < write_head_[x[1]]}
  BY <1>1 DEF Added
<1>3. f[h] \notin Left(Threads)
  <2>1. CASE h = 0
    <3>1. f[h] = dummy
      BY <2>1 DEF ListOrder, Enumerates
    <3> QED
      BY <3>1, NullAssumption DEF Left
  <2>2. CASE h # 0
    <3>1. h \in 1..K /\ h <= h
      BY <1>1, <2>2
    <3>2. f[h][2] < read_head_[f[h][1]] /\ f[h][1] \in Threads /\ f[h][2] \in Nat
      BY <3>1, ListNodes DEF ListOrder, HeadAt
    <3>3. read_head_[f[h][1]] \in Nat
      BY <3>2, ListIndices DEF IndexTypes
    <3> QED
      BY <3>2, <3>3 DEF Left
  <2> QED
    BY <2>1, <2>2
<1> QED
  BY <1>1, <1>2, <1>3

-----------------------------------------------------------------------------
(* The types. *)

\* The steps of overflow_enqueue keep the list's types.
LEMMA EnqueueKeepsListTypes ==
  ASSUME ListTypes, IndexTypes, NEW t \in Extra, write_head_[t] < MaxItems,
         Swap(t) \/ LinkOld(t)
  PROVE  ListTypes'
<1>1. NewNode(t) \in ExtraNodes
  BY ListIndices, IsNode DEF NewNode, IndexTypes
<1>2. CASE Swap(t)
  BY <1>1, <1>2 DEF Swap, TailNow, ListTypes, endVars
<1>3. CASE LinkOld(t)
  <2>1. next_' \in [ExtraNodes -> ExtraNodes \cup {nullptr}]
    BY <1>1, <1>3 DEF LinkOld, Linked, ListTypes
  <2> QED
    BY <1>3, <2>1 DEF LinkOld, ListTypes, endVars
<1> QED
  BY <1>2, <1>3

\* So do the consumer's.
LEMMA DequeueKeepsListTypes ==
  ASSUME ListTypes, IndexTypes, NEW K, NEW h, NEW f, ListOrder(K, h, f), ~destroyed,
         \/ NewTurn \/ LoadNext
         \/ CutHead /\ extra_next \in ExtraNodes
  PROVE  ListTypes'
<1>1. extra_head_ \in ExtraNodes
  BY ListNodes DEF ListOrder, HeadAt
<1>2. CASE NewTurn
  BY <1>2 DEF NewTurn, ListTypes, endVars
<1>3. CASE LoadNext
  BY <1>1, <1>3 DEF LoadNext, ListTypes, endVars
<1>4. CASE CutHead /\ extra_next \in ExtraNodes
  BY <1>1, <1>4 DEF CutHead, Reclaimed, ListTypes, endVars
<1> QED
  BY <1>2, <1>3, <1>4

\* And the destructor.
LEMMA DestroyKeepsListTypes ==
  ASSUME ListTypes, IndexTypes, NEW K, NEW h, NEW f, ListOrder(K, h, f), DestroyList
  PROVE  ListTypes'
<1>1. K \in Nat /\ h \in Nat /\ h \in h..K /\ extra_head_ = f[h] /\ \A k \in h..K : k \in 0..K
  BY DEF ListOrder, Enumerates, HeadAt, DestroyList
<1>2. Walked \subseteq {f[k] : k \in h..K}
  BY <1>1, ChainBehind DEF Walked
<1>3. Walked \subseteq ExtraNodes
  BY <1>1, <1>2, ListNodes DEF ListOrder
<1>4. \A x \in ExtraNodes : x \in (Threads \X Slots) \cup {dummy}
  BY NodeIs, ListIndices
<1>5. Left(Bounded) \subseteq Threads \X Slots
  BY ListIndices DEF Left
<1>6. deconstructed' \subseteq (Threads \X Slots) \cup {dummy}
  BY <1>3, <1>4, <1>5 DEF DestroyList
<1> QED
  BY <1>3, <1>6 DEF DestroyList, ListTypes

-----------------------------------------------------------------------------
(* What the element's history says about the list. *)

\* b[t][n][u] elements of u were in when <<t, n>> drew its ticket: all of them are
\* before <<t, n>> in the list.
Precedes(b, K, f) ==
  \A k \in 1..K : \A u \in Extra, m \in Slots :
    m < b[f[k][1]][f[k][2]][u] => \E j \in 1..(k - 1) : f[j] = <<u, m>>

\* The elements whose enqueue had returned are in the list when a node is added.
LEMMA SwapKeepsPrecedes ==
  ASSUME IndexTypes, NEW K, NEW h, NEW f, ListOrder(K, h, f),
         NEW t \in Extra, NEW n \in Slots,
         NEW b, Precedes(b, K, f),
         \A u \in Extra : b[t][n][u] \in Nat /\ b[t][n][u] <= write_head_[u],
         NEW g, g = [f EXCEPT ![K + 1] = <<t, n>>]
  PROVE  Precedes(b, K + 1, g)
<1>1. K \in Nat /\ f \in [Nat -> ExtraNodes] /\ K + 1 \in Nat
  BY DEF ListOrder, Enumerates
<1>2. (\A k \in 0..K : g[k] = f[k]) /\ g[K + 1] = <<t, n>>
  BY <1>1
<1> SUFFICES ASSUME NEW k \in 1..(K + 1), NEW u \in Extra, NEW m \in Slots,
                    m < b[g[k][1]][g[k][2]][u]
             PROVE  \E j \in 1..(k - 1) : g[j] = <<u, m>>
  BY DEF Precedes
<1>3. CASE k \in 1..K
  <2>0. g[k] = f[k]
    BY <1>1, <1>2, <1>3
  <2>1. PICK j \in 1..(k - 1) : f[j] = <<u, m>>
    BY <1>3, <2>0 DEF Precedes
  <2>2. j \in 0..K
    BY <1>1, <1>3
  <2> QED
    BY <1>2, <2>1, <2>2
<1>4. CASE k = K + 1
  <2>1. m < write_head_[u]
    <3>1. m < b[t][n][u]
      BY <1>2, <1>4
    <3>2. b[t][n][u] \in Nat /\ b[t][n][u] <= write_head_[u] /\ write_head_[u] \in Nat /\ m \in Nat
      BY ListIndices DEF IndexTypes
    <3> QED
      BY <3>1, <3>2
  <2>2. <<u, m>> \in Added /\ <<u, m>> # dummy
    BY <2>1, AddedIs, IsNode
  <2>3. PICK j \in 1..K : f[j] = <<u, m>>
    BY <2>2, ListNodes DEF ListOrder
  <2>4. j \in 1..(k - 1) /\ j \in 0..K
    BY <1>1, <1>4
  <2> QED
    BY <1>2, <2>3, <2>4
<1> QED
  BY <1>1, <1>3, <1>4

\* So all of them are dequeued when the consumer comes to <<t, n>>.
LEMMA NextPrecedes ==
  ASSUME ListTypes, IndexTypes, NEW K, NEW h, NEW f, ListOrder(K, h, f), ~destroyed,
         NEW x, x = next_[extra_head_], x # nullptr,
         NEW b, Precedes(b, K, f), NEW u \in Extra, b[x[1]][x[2]][u] \in Nat
  PROVE  b[x[1]][x[2]][u] <= read_head_[u]
<1>1. /\ u \in Threads /\ read_head_[u] \in Slots /\ read_head_[u] \in Nat
      /\ h + 1 \in 1..K /\ h \in Nat /\ K \in Nat /\ x = f[h + 1]
  BY ListIndices, NextIsUnread DEF IndexTypes, ListOrder, Enumerates
<1>2. ASSUME read_head_[u] < b[x[1]][x[2]][u]
      PROVE  FALSE
  <2>1. PICK j \in 1..((h + 1) - 1) : f[j] = <<u, read_head_[u]>>
    BY <1>1, <1>2 DEF Precedes
  <2>2. j \in 1..K /\ j <= h
    BY <1>1
  <2>3. f[j][2] < read_head_[f[j][1]]
    BY <2>2 DEF ListOrder, HeadAt
  <2> QED
    BY <1>1, <2>1, <2>3
<1> QED
  BY <1>1, <1>2
=============================================================================
