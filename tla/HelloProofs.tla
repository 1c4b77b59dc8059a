---------------------------- MODULE HelloProofs ----------------------------
(***************************************************************************)
(* What holds of Subscription and of Hello, which extends it, for every    *)
(* set of nodes, every start and stop time, every lifetime, interval and   *)
(* delay, with losses or without.  First Subscription: its type invariant, *)
(* the wake-up of the scheduler, and the silence of stopped applications.  *)
(* Then Hello: its type invariant, and the bound on how long a vehicle     *)
(* believes in an RSU it has left.  Last, what hazards of one instant      *)
(* cannot do: a subscription is lost to a posted callback only, and a      *)
(* vehicle that keeps its own believes in an RSU it hears without a miss.  *)
(***************************************************************************)
EXTENDS Hello, Induction

Sorted(items) ==
    /\ \A i \in DOMAIN items : items[i].wait \in Nat
    /\ \A i, j \in DOMAIN items : i <= j => items[i].wait <= items[j].wait

\* "new" is "items" with "item" at position k, behind those due no later.
Inserted(new, items, item, k) ==
    /\ k \in 1 .. Len(items) + 1
    /\ Len(new) = Len(items) + 1
    /\ \A i \in 1 .. k - 1 : new[i] = items[i] /\ items[i].wait <= item.wait
    /\ new[k] = item
    /\ \A i \in k .. Len(items) : new[i + 1] = items[i] /\ item.wait < items[i].wait

\* "some" are items at increasing positions m.
Selected(some, items, m) ==
    /\ m \in [DOMAIN some -> DOMAIN items]
    /\ \A i \in DOMAIN some : some[i] = items[m[i]]
    /\ \A i, j \in DOMAIN some : i < j => m[i] < m[j]

\* What the start and the stop of the applications put into the queue.
Scripted == {"StartApplication", "StopApplication"}

\* What may come before that in the same instant.
Early == Scripted \cup {"executeEvent"}

\* Of what happens in the instant in which an application stops, nothing but
\* wake-ups comes before that.
StopsFirst(evs) ==
    \A i, j \in DOMAIN evs :
        i < j /\ evs[j].kind = "StopApplication" =>
            evs[i].wait < evs[j].wait \/ evs[i].kind \in Early

\* A timeout comes before the alerts that arrive in its instant, and these come
\* before the callbacks of PIT entries, which are posted for the present instant.
InTurn(evs) ==
    /\ \A i, j \in DOMAIN evs :
          i < j /\ evs[i].kind = "receive" /\ evs[j].kind = "OnTimeout" =>
              evs[i].wait < evs[j].wait
    /\ \A i, j \in DOMAIN evs :
          i < j /\ evs[i].kind = "onInterestFinalize" /\ evs[j].kind = "receive" =>
              evs[i].wait < evs[j].wait
    /\ \A i \in DOMAIN evs : evs[i].kind = "onInterestFinalize" => evs[i].wait = 0

-----------------------------------------------------------------------------
(***************************************************************************)
(* Enqueue.                                                                *)
(***************************************************************************)

\* Where an item goes is a position of the new queue.
LEMMA EnqueueType ==
    ASSUME NEW S, NEW items \in Seq(S), NEW item \in S
    PROVE  Enqueue(items, item) \in Seq(S)
<1> DEFINE U == {i \in DOMAIN items : items[i].wait <= item.wait}
<1>0. Len(items) \in Nat
    OBVIOUS
<1>1. IsFiniteSet(1 .. Len(items)) /\ Cardinality(1 .. Len(items)) = Len(items)
    BY <1>0, FS_Interval
<1>2. U \in SUBSET (1 .. Len(items))
    OBVIOUS
<1> HIDE DEF U
<1>3. Cardinality(U) \in 0 .. Len(items)
  <2>1. IsFiniteSet(U) /\ Cardinality(U) <= Len(items)
      BY <1>1, <1>2, FS_Subset
  <2> QED
      BY <2>1, <1>0, FS_CardinalityType
<1> DEFINE k == Cardinality(U)
<1>4. Enqueue(items, item) = SubSeq(items, 1, k) \o <<item>> \o SubSeq(items, k + 1, Len(items))
    BY DEF Enqueue, U
<1> HIDE DEF k
<1> QED
    BY <1>3, <1>4 DEF k

\* Of a sorted queue, the items due no later than w are the first ones.
LEMMA SoonerIsPrefix ==
    ASSUME NEW S, NEW items \in Seq(S), NEW w \in Nat, Sorted(items)
    PROVE  \E m \in 0 .. Len(items) :
               \A i \in DOMAIN items : items[i].wait <= w <=> i \in 1 .. m
<1> DEFINE T == {i \in 1 .. Len(items) + 1 : i = Len(items) + 1 \/ w < items[i].wait}
<1>1. T \in SUBSET Nat /\ Len(items) + 1 \in T
    OBVIOUS
<1>2. PICK x \in T : \A y \in T : x <= y
    BY <1>1, LeastNat
<1>3. \A i \in DOMAIN items : items[i].wait \in Nat
    BY DEF Sorted
<1>4. x - 1 \in 0 .. Len(items)
    OBVIOUS
<1>5. ASSUME NEW i \in DOMAIN items
      PROVE  items[i].wait <= w <=> i \in 1 .. x - 1
  <2>1. CASE i < x
      BY <2>1, <1>2, <1>3
  <2>2. CASE x <= i
    <3>1. x \in DOMAIN items /\ w < items[x].wait
        BY <2>2
    <3>2. items[x].wait <= items[i].wait
        BY <2>2, <3>1 DEF Sorted
    <3> QED
        BY <2>2, <3>1, <3>2, <1>3
  <2> QED
      BY <2>1, <2>2
<1> QED
    BY <1>4, <1>5

\* An item goes behind those due no later and before all others.
LEMMA EnqueueInserts ==
    ASSUME NEW S, NEW items \in Seq(S), NEW item \in S, item.wait \in Nat, Sorted(items)
    PROVE  \E k \in 1 .. Len(items) + 1 : Inserted(Enqueue(items, item), items, item, k)
<1> DEFINE U == {i \in DOMAIN items : items[i].wait <= item.wait}
<1>3. PICK m \in 0 .. Len(items) :
          \A i \in DOMAIN items : items[i].wait <= item.wait <=> i \in 1 .. m
    BY SoonerIsPrefix
<1>1. U = 1 .. m
    BY <1>3
<1>2. Cardinality(1 .. m) = m
    BY FS_Interval
<1> HIDE DEF U
<1> DEFINE front == SubSeq(items, 1, m)
           back  == SubSeq(items, m + 1, Len(items))
<1>5. /\ front \in Seq(S) /\ Len(front) = m
      /\ \A i \in 1 .. m : front[i] = items[i]
    OBVIOUS
<1>6. /\ back \in Seq(S) /\ Len(back) = Len(items) - m
      /\ \A i \in 1 .. Len(items) - m : back[i] = items[m + i]
    OBVIOUS
<1>7. Enqueue(items, item) = front \o <<item>> \o back
    BY <1>1, <1>2 DEF Enqueue, U
<1> HIDE DEF front, back
<1>8. Inserted(Enqueue(items, item), items, item, m + 1)
  <2> DEFINE new == front \o <<item>> \o back
  <2>1. new \in Seq(S) /\ Len(new) = Len(items) + 1
      BY <1>5, <1>6
  <2>2. \A i \in 1 .. m : new[i] = items[i]
      BY <1>5, <1>6
  <2>3. new[m + 1] = item
      BY <1>5, <1>6
  <2>4. ASSUME NEW i \in m + 1 .. Len(items) PROVE new[i + 1] = items[i]
    <3>1. i - m \in 1 .. Len(items) - m /\ i + 1 = m + 1 + (i - m)
        OBVIOUS
    <3>2. new[i + 1] = back[i - m]
        BY <3>1, <1>5, <1>6
    <3>3. m + (i - m) = i
        OBVIOUS
    <3> QED
        BY <3>1, <3>2, <3>3, <1>6
  <2>5. \A i \in DOMAIN items : items[i].wait \in Nat
      BY DEF Sorted
  <2>6. Enqueue(items, item) = new
      BY <1>7
  <2> HIDE DEF new
  <2>7. \A i \in 1 .. m + 1 - 1 : new[i] = items[i] /\ items[i].wait <= item.wait
      BY <2>2, <1>3
  <2>8. \A i \in m + 1 .. Len(items) : new[i + 1] = items[i] /\ item.wait < items[i].wait
      BY <2>4, <2>5, <1>3
  <2>9. m + 1 \in 1 .. Len(items) + 1
      OBVIOUS
  <2> QED
      BY <2>1, <2>3, <2>6, <2>7, <2>8, <2>9 DEF Inserted
<1> QED
    BY <1>8

\* A position of the new queue is that of an old item, or the new one.
LEMMA InsertedPositions ==
    ASSUME NEW S, NEW items \in Seq(S), NEW item, NEW new \in Seq(S),
           NEW k \in 1 .. Len(items) + 1, Inserted(new, items, item, k)
    PROVE  /\ DOMAIN new = 1 .. Len(items) + 1
           /\ \A i \in DOMAIN new :
                 \/ i < k /\ i \in DOMAIN items /\ new[i] = items[i] /\ items[i].wait <= item.wait
                 \/ i = k /\ new[i] = item
                 \/ /\ i > k /\ i - 1 \in DOMAIN items
                    /\ new[i] = items[i - 1] /\ item.wait < items[i - 1].wait
           /\ \A i \in DOMAIN items : \E j \in DOMAIN new : new[j] = items[i]
<1>1. DOMAIN new = 1 .. Len(items) + 1
    BY DEF Inserted
<1>2. ASSUME NEW i \in DOMAIN new
      PROVE  \/ i < k /\ i \in DOMAIN items /\ new[i] = items[i] /\ items[i].wait <= item.wait
             \/ i = k /\ new[i] = item
             \/ /\ i > k /\ i - 1 \in DOMAIN items
                /\ new[i] = items[i - 1] /\ item.wait < items[i - 1].wait
  <2>1. CASE i < k
      BY <2>1, <1>1 DEF Inserted
  <2>2. CASE i = k
      BY <2>2 DEF Inserted
  <2>3. CASE i > k
    <3>1. i - 1 \in k .. Len(items) /\ (i - 1) + 1 = i
        BY <2>3, <1>1
    <3> QED
        BY <2>3, <3>1 DEF Inserted
  <2> QED
      BY <1>1, <2>1, <2>2, <2>3
<1>3. ASSUME NEW i \in DOMAIN items PROVE \E j \in DOMAIN new : new[j] = items[i]
  <2>1. CASE i < k
      BY <2>1, <1>1 DEF Inserted
  <2>2. CASE i >= k
      BY <2>2, <1>1 DEF Inserted
  <2> QED
      BY <2>1, <2>2
<1> QED
    BY <1>1, <1>2, <1>3

\* A sorted queue stays sorted and gains the item.
LEMMA EnqueueSorted ==
    ASSUME NEW S, NEW items \in Seq(S), NEW item \in S, item.wait \in Nat, Sorted(items)
    PROVE  /\ Enqueue(items, item) \in Seq(S)
           /\ Sorted(Enqueue(items, item))
           /\ Range(Enqueue(items, item)) = Range(items) \cup {item}
<1> DEFINE new == Enqueue(items, item)
<1>1. new \in Seq(S)
    BY EnqueueType
<1>2. PICK k \in 1 .. Len(items) + 1 : Inserted(new, items, item, k)
    BY EnqueueInserts
<1> HIDE DEF new
<1>3. /\ DOMAIN new = 1 .. Len(items) + 1
      /\ \A i \in DOMAIN new :
            \/ i < k /\ i \in DOMAIN items /\ new[i] = items[i] /\ items[i].wait <= item.wait
            \/ i = k /\ new[i] = item
            \/ /\ i > k /\ i - 1 \in DOMAIN items
               /\ new[i] = items[i - 1] /\ item.wait < items[i - 1].wait
      /\ \A i \in DOMAIN items : \E j \in DOMAIN new : new[j] = items[i]
    BY <1>1, <1>2, InsertedPositions
<1>4. Sorted(new)
  <2>1. \A i \in DOMAIN new : new[i].wait \in Nat
      BY <1>3 DEF Sorted
  <2>2. ASSUME NEW i \in DOMAIN new, NEW j \in DOMAIN new, i <= j
        PROVE  new[i].wait <= new[j].wait
    <3>1. \A l \in DOMAIN items : items[l].wait \in Nat
        BY DEF Sorted
    <3>2. i \in Int /\ j \in Int
        BY <1>3
    <3>3. CASE j < k
        BY <3>3, <3>2, <2>2, <1>3 DEF Sorted
    <3>4. CASE j = k
        BY <3>4, <3>1, <3>2, <2>2, <1>3
    <3>5. CASE j > k /\ i <= k
      <4>1. new[i].wait <= item.wait
          BY <3>5, <3>2, <1>3
      <4>2. item.wait < new[j].wait
          BY <3>5, <3>2, <1>3
      <4> QED
          BY <4>1, <4>2, <2>1
    <3>6. CASE j > k /\ i > k
      <4>1. new[i] = items[i - 1] /\ i - 1 \in DOMAIN items
          BY <3>6, <3>2, <1>3
      <4>2. new[j] = items[j - 1] /\ j - 1 \in DOMAIN items
          BY <3>6, <3>2, <1>3
      <4> QED
          BY <4>1, <4>2, <3>2, <2>2 DEF Sorted
    <3> QED
        BY <3>2, <3>3, <3>4, <3>5, <3>6
  <2> QED
      BY <2>1, <2>2 DEF Sorted
<1>5. Range(new) = Range(items) \cup {item}
  <2>1. \E j \in DOMAIN new : new[j] = item
      BY <1>2, <1>3 DEF Inserted
  <2> QED
      BY <2>1, <1>3 DEF Range
<1> QED
    BY <1>1, <1>4, <1>5 DEF new

\* What is scheduled later comes after the stops of its instant.
LEMMA EnqueueStopsFirst ==
    ASSUME NEW S, NEW items \in Seq(S), NEW item \in S, item.wait \in Nat, Sorted(items),
           StopsFirst(items), item.kind # "StopApplication"
    PROVE  StopsFirst(Enqueue(items, item))
<1> DEFINE new == Enqueue(items, item)
<1>1. new \in Seq(S) /\ Sorted(new)
    BY EnqueueSorted
<1>2. PICK k \in 1 .. Len(items) + 1 : Inserted(new, items, item, k)
    BY EnqueueInserts
<1> HIDE DEF new
<1>3. /\ DOMAIN new = 1 .. Len(items) + 1
      /\ \A i \in DOMAIN new :
            \/ i < k /\ i \in DOMAIN items /\ new[i] = items[i] /\ items[i].wait <= item.wait
            \/ i = k /\ new[i] = item
            \/ /\ i > k /\ i - 1 \in DOMAIN items
               /\ new[i] = items[i - 1] /\ item.wait < items[i - 1].wait
    BY <1>1, <1>2, InsertedPositions
<1>4. ASSUME NEW i \in DOMAIN new, NEW j \in DOMAIN new, i < j, new[j].kind = "StopApplication"
      PROVE  new[i].wait < new[j].wait \/ new[i].kind \in Early
  <2>1. i \in Int /\ j \in Int /\ j # k
      BY <1>3, <1>4
  <2>2. CASE j < k
      BY <2>1, <2>2, <1>3, <1>4 DEF StopsFirst
  <2>3. CASE j > k /\ i <= k
    <3>1. new[i].wait <= item.wait
        BY <2>3, <2>1, <1>3
    <3>2. item.wait < new[j].wait
        BY <2>3, <2>1, <1>3
    <3> QED
        BY <3>1, <3>2, <1>1 DEF Sorted
  <2>4. CASE j > k /\ i > k
    <3>1. /\ new[i] = items[i - 1] /\ i - 1 \in DOMAIN items
          /\ new[j] = items[j - 1] /\ j - 1 \in DOMAIN items
        BY <2>4, <2>1, <1>3
    <3> QED
        BY <3>1, <2>1, <1>4 DEF StopsFirst
  <2> QED
      BY <2>1, <2>2, <2>3, <2>4
<1> QED
    BY <1>4 DEF StopsFirst, new

\* Timeouts are scheduled further ahead than the arrival of alerts, and these
\* further than the callbacks.
LEMMA EnqueueInTurn ==
    ASSUME NEW S, NEW items \in Seq(S), NEW item \in S, item.wait \in Nat, Sorted(items),
           InTurn(items),
           \/ item.kind # "OnTimeout"
           \/ \A i \in DOMAIN items : items[i].kind = "receive" => items[i].wait < item.wait,
           item.kind = "receive" => item.wait # 0,
           item.kind = "onInterestFinalize" => item.wait = 0
    PROVE  InTurn(Enqueue(items, item))
<1> DEFINE new == Enqueue(items, item)
<1>1. new \in Seq(S) /\ Sorted(new)
    BY EnqueueSorted
<1>2. PICK k \in 1 .. Len(items) + 1 : Inserted(new, items, item, k)
    BY EnqueueInserts
<1> HIDE DEF new
<1>3. /\ DOMAIN new = 1 .. Len(items) + 1
      /\ \A i \in DOMAIN new :
            \/ i < k /\ i \in DOMAIN items /\ new[i] = items[i] /\ items[i].wait <= item.wait
            \/ i = k /\ new[i] = item
            \/ /\ i > k /\ i - 1 \in DOMAIN items
               /\ new[i] = items[i - 1] /\ item.wait < items[i - 1].wait
    BY <1>1, <1>2, InsertedPositions
<1>4. ASSUME NEW i \in DOMAIN new, NEW j \in DOMAIN new, i < j,
             \/ new[i].kind = "receive" /\ new[j].kind = "OnTimeout"
             \/ new[i].kind = "onInterestFinalize" /\ new[j].kind = "receive"
      PROVE  new[i].wait < new[j].wait
  <2>1. i \in Int /\ j \in Int
      BY <1>3
  <2>2. CASE j < k
      BY <2>1, <2>2, <1>3, <1>4 DEF InTurn
  <2>3. CASE j > k /\ i <= k
    <3>1. new[i].wait <= item.wait
        BY <2>3, <2>1, <1>3
    <3>2. item.wait < new[j].wait
        BY <2>3, <2>1, <1>3
    <3> QED
        BY <3>1, <3>2, <1>1 DEF Sorted
  <2>4. CASE j > k /\ i > k
    <3>1. /\ new[i] = items[i - 1] /\ i - 1 \in DOMAIN items
          /\ new[j] = items[j - 1] /\ j - 1 \in DOMAIN items
        BY <2>4, <2>1, <1>3
    <3>2. i - 1 < j - 1
        BY <2>1, <1>4
    <3>3. \/ items[i - 1].kind = "receive" /\ items[j - 1].kind = "OnTimeout"
          \/ items[i - 1].kind = "onInterestFinalize" /\ items[j - 1].kind = "receive"
        BY <3>1, <1>4
    <3>4. items[i - 1].wait < items[j - 1].wait
        BY <3>1, <3>2, <3>3 DEF InTurn
    <3> QED
        BY <3>1, <3>4
  <2>5. CASE j = k
    <3>1. i \in DOMAIN items /\ new[i] = items[i] /\ new[j] = item
        BY <2>5, <2>1, <1>3, <1>4
    <3>2. CASE new[i].kind = "receive"
        BY <3>1, <3>2, <1>4
    <3>3. CASE new[i].kind = "onInterestFinalize"
        BY <3>1, <3>3, <1>4 DEF InTurn
    <3> QED
        BY <3>2, <3>3, <1>4
  <2> QED
      BY <2>1, <2>2, <2>3, <2>4, <2>5
<1>5. \A i \in DOMAIN new : new[i].kind = "onInterestFinalize" => new[i].wait = 0
    BY <1>3 DEF InTurn
<1>6. InTurn(new)
    BY <1>4, <1>5 DEF InTurn
<1> QED
    BY <1>6 DEF new

-----------------------------------------------------------------------------
(***************************************************************************)
(* Items are taken out of a queue.                                         *)
(***************************************************************************)

\* The recursion of Keeping has the solution it describes.
LEMMA KeepingSteps ==
    ASSUME NEW S, NEW items \in Seq(S), NEW dropped
    PROVE  /\ Keeping(items, dropped) \in [0 .. Len(items) -> Seq(S)]
           /\ Keeping(items, dropped)[0] = <<>>
           /\ \A k \in 1 .. Len(items) :
                 Keeping(items, dropped)[k] =
                     IF items[k] \in dropped THEN Keeping(items, dropped)[k - 1]
                     ELSE Append(Keeping(items, dropped)[k - 1], items[k])
<1> DEFINE n == Len(items)
           Q == Seq(S)
           Loop(f) == [i \in 0 .. n |->
                          IF i = 0 THEN <<>>
                          ELSE IF items[i] \in dropped THEN f[i - 1]
                          ELSE Append(f[i - 1], items[i])]
           step == [k \in 1 .. n |-> [s \in Q |->
                       IF items[k] \in dropped THEN s ELSE Append(s, items[k])]]
<1>1. n \in Nat /\ <<>> \in Q
    OBVIOUS
<1>2. step \in [1 .. n -> [Q -> Q]]
    OBVIOUS
<1>3. \A k \in 1 .. n : \A s \in Q :
          step[k][s] = IF items[k] \in dropped THEN s ELSE Append(s, items[k])
    OBVIOUS
<1>4. Keeping(items, dropped) = CHOOSE g : g = Loop(g)
    BY DEF Keeping
<1>5. \A k \in 1 .. n : \A s \in Q : Append(s, items[k]) \in Q
    OBVIOUS
<1> HIDE DEF step, n, Q
<1>6. PICK f \in [0 .. n -> Q] : IsRun(f, <<>>, step, n)
    BY <1>1, <1>2, RecursionExists
<1>7. f[0] = <<>> /\ \A k \in 1 .. n : f[k] = step[k][f[k - 1]]
    BY <1>6 DEF IsRun
<1>8. f = Loop(f)
  <2>1. ASSUME NEW k \in 1 .. n
        PROVE  f[k] = IF items[k] \in dropped THEN f[k - 1] ELSE Append(f[k - 1], items[k])
    <3>1. f[k - 1] \in Q
        BY <1>1
    <3> QED
        BY <3>1, <1>3, <1>7
  <2>2. \A k \in 0 .. n : k = 0 \/ k \in 1 .. n
      BY <1>1
  <2>3. \A k \in 0 .. n : f[k] = Loop(f)[k]
      BY <2>1, <2>2, <1>7
  <2> QED
      BY <2>3
<1> DEFINE kept == Keeping(items, dropped)
<1>9. kept = Loop(kept)
    BY <1>4, <1>8
<1> HIDE DEF kept
<1>10. /\ kept[0] = <<>>
       /\ \A k \in 1 .. n : kept[k] = IF items[k] \in dropped THEN kept[k - 1]
                                       ELSE Append(kept[k - 1], items[k])
  <2>1. \A k \in 1 .. n : k \in 0 .. n /\ k # 0
      BY <1>1
  <2>2. 0 \in 0 .. n
      BY <1>1
  <2> QED
      BY <2>1, <2>2, <1>9
<1>11. \A k \in 0 .. n : kept[k] \in Q
  <2>1. \A k \in 1 .. n : kept[k - 1] \in Q => kept[k] \in Q
      BY <1>5, <1>10
  <2>2. kept[0] \in Q
      BY <1>1, <1>10
  <2> QED
      BY <1>1, <2>1, <2>2, UpToStays, Zenon
<1>12. kept \in [0 .. n -> Q]
    BY <1>9, <1>11
<1> QED
    BY <1>10, <1>12 DEF kept, n, Q

\* What is kept is what is not dropped, in its order.
LEMMA WithoutSelects ==
    ASSUME NEW S, NEW items \in Seq(S), NEW dropped
    PROVE  /\ Without(items, dropped) \in Seq(S)
           /\ Range(Without(items, dropped)) = Range(items) \ dropped
           /\ \E m : Selected(Without(items, dropped), items, m)
<1> DEFINE kept == Keeping(items, dropped)
           n == Len(items)
           Kept(k) ==
               /\ \A i \in DOMAIN kept[k] : kept[k][i] \notin dropped
               /\ \A j \in 1 .. k : items[j] \notin dropped =>
                      \E i \in DOMAIN kept[k] : kept[k][i] = items[j]
               /\ \E m \in [DOMAIN kept[k] -> 1 .. k] : Selected(kept[k], items, m)
           T == {k \in 0 .. n : Kept(k)}
<1>1. n \in Nat
    OBVIOUS
<1>2. /\ kept \in [0 .. n -> Seq(S)]
      /\ kept[0] = <<>>
      /\ \A k \in 1 .. n : kept[k] = IF items[k] \in dropped THEN kept[k - 1]
                                     ELSE Append(kept[k - 1], items[k])
    BY KeepingSteps
<1> HIDE DEF kept
<1>3. 0 \in T
  <2> DEFINE m == [i \in {} |-> i]
  <2>1. m \in [DOMAIN kept[0] -> 1 .. 0] /\ Selected(kept[0], items, m)
      BY <1>2 DEF Selected
  <2> HIDE DEF m
  <2> QED
      BY <1>1, <1>2, <2>1
<1>4. ASSUME NEW k \in 0 .. n - 1, k \in T PROVE k + 1 \in T
  <2>1. k + 1 \in 1 .. n /\ k + 1 \in 0 .. n /\ (k + 1) - 1 = k /\ k \in 0 .. n
      BY <1>1
  <2> DEFINE old == kept[k]
             new == kept[k + 1]
  <2>2. old \in Seq(S) /\ new \in Seq(S)
      BY <1>2, <2>1
  <2>3. new = IF items[k + 1] \in dropped THEN old ELSE Append(old, items[k + 1])
      BY <1>2, <2>1
  <2>4. Kept(k)
      BY <1>4
  <2>5. PICK m \in [DOMAIN old -> 1 .. k] : Selected(old, items, m)
      BY <2>4
  <2>6. Kept(k + 1)
    <3> HIDE DEF old, new
    <3>1. CASE items[k + 1] \in dropped
      <4>1. new = old
          BY <3>1, <2>3
      <4>2. m \in [DOMAIN old -> 1 .. k + 1]
          BY <2>1
      <4>3. \A j \in 1 .. k + 1 : items[j] \notin dropped => j \in 1 .. k
          BY <3>1, <2>1
      <4>4. \A j \in 1 .. k + 1 : items[j] \notin dropped => \E i \in DOMAIN old : old[i] = items[j]
          BY <4>3, <2>4 DEF old
      <4>5. \A i \in DOMAIN old : old[i] \notin dropped
          BY <2>4 DEF old
      <4> QED
          BY <4>1, <4>2, <4>4, <4>5, <2>5 DEF new
    <3>2. CASE items[k + 1] \notin dropped
      <4>1. new = Append(old, items[k + 1])
          BY <3>2, <2>3
      <4>2. /\ DOMAIN new = 1 .. Len(old) + 1 /\ DOMAIN old = 1 .. Len(old)
            /\ new[Len(old) + 1] = items[k + 1]
            /\ \A i \in DOMAIN old : new[i] = old[i]
            /\ Len(old) \in Nat
          BY <4>1, <2>2, <2>1
      <4> DEFINE l == [i \in 1 .. Len(old) + 1 |-> IF i = Len(old) + 1 THEN k + 1 ELSE m[i]]
      <4>3. l \in [DOMAIN new -> 1 .. k + 1]
          BY <4>2, <2>1
      <4>4. \A i \in DOMAIN new : new[i] = items[l[i]]
          BY <4>2, <2>5 DEF Selected
      <4>5. \A i, j \in DOMAIN new : i < j => l[i] < l[j]
        <5> SUFFICES ASSUME NEW i \in DOMAIN new, NEW j \in DOMAIN new, i < j
                     PROVE  l[i] < l[j]
            OBVIOUS
        <5>1. i \in DOMAIN old /\ l[i] = m[i] /\ m[i] \in 1 .. k
            BY <4>2
        <5>2. CASE j = Len(old) + 1
            BY <5>1, <5>2, <4>2, <2>1
        <5>3. CASE j # Len(old) + 1
            BY <5>1, <5>3, <4>2, <2>5 DEF Selected
        <5> QED
            BY <5>2, <5>3
      <4>6. l \in [DOMAIN new -> DOMAIN items]
          BY <4>3, <2>1
      <4> HIDE DEF l
      <4>7. Selected(new, items, l)
          BY <4>4, <4>5, <4>6 DEF Selected
      <4>8. \A i \in DOMAIN new : new[i] \notin dropped
        <5>1. \A i \in DOMAIN old : old[i] \notin dropped
            BY <2>4 DEF old
        <5>2. \A i \in DOMAIN new : i \in DOMAIN old \/ i = Len(old) + 1
            BY <4>2
        <5> QED
            BY <5>1, <5>2, <4>2, <3>2
      <4>9. \A j \in 1 .. k + 1 : items[j] \notin dropped => \E i \in DOMAIN new : new[i] = items[j]
        <5> SUFFICES ASSUME NEW j \in 1 .. k + 1, items[j] \notin dropped
                     PROVE  \E i \in DOMAIN new : new[i] = items[j]
            OBVIOUS
        <5>1. CASE j = k + 1
            BY <5>1, <4>2
        <5>2. CASE j # k + 1
          <6>1. j \in 1 .. k
              BY <5>2, <2>1
          <6>2. PICK i \in DOMAIN old : old[i] = items[j]
              BY <6>1, <2>4 DEF old
          <6> QED
              BY <6>2, <4>2
        <5> QED
            BY <5>1, <5>2
      <4> QED
          BY <4>3, <4>7, <4>8, <4>9 DEF new
    <3> QED
        BY <3>1, <3>2
  <2> QED
      BY <2>1, <2>6
<1> HIDE DEF T
<1>5. n \in T
  <2>1. 0 .. n \subseteq T
      BY <1>1, <1>3, <1>4, UpToInduction
  <2> QED
      BY <1>1, <2>1
<1>6. Kept(n)
    BY <1>5 DEF T
<1>7. kept[n] = Without(items, dropped)
    BY DEF Without, kept
<1> HIDE DEF n
<1>8. kept[n] \in Seq(S)
    BY <1>1, <1>2
<1>9. DOMAIN items = 1 .. n
    BY DEF n
<1>10. PICK m : Selected(kept[n], items, m)
    BY <1>6
<1>11. Range(kept[n]) = Range(items) \ dropped
    BY <1>6, <1>9, <1>10 DEF Range, Selected
<1> QED
    BY <1>7, <1>8, <1>10, <1>11

LEMMA WithoutSorted ==
    ASSUME NEW S, NEW items \in Seq(S), NEW dropped, Sorted(items)
    PROVE  Sorted(Without(items, dropped))
<1> DEFINE new == Without(items, dropped)
<1>1. new \in Seq(S) /\ \E m : Selected(new, items, m)
    BY WithoutSelects
<1> HIDE DEF new
<1>2. PICK m : Selected(new, items, m)
    BY <1>1
<1>3. DOMAIN new \subseteq Int /\ DOMAIN items \subseteq Int
    BY <1>1
<1>4. \A i, j \in DOMAIN new : i <= j => m[i] <= m[j]
    BY <1>2, <1>3 DEF Selected
<1>5. Sorted(new)
    BY <1>2, <1>4 DEF Sorted, Selected
<1> QED
    BY <1>5 DEF new

LEMMA WithoutStopsFirst ==
    ASSUME NEW S, NEW items \in Seq(S), NEW dropped, StopsFirst(items)
    PROVE  StopsFirst(Without(items, dropped))
<1> DEFINE new == Without(items, dropped)
<1>1. new \in Seq(S) /\ \E m : Selected(new, items, m)
    BY WithoutSelects
<1> HIDE DEF new
<1>2. PICK m : Selected(new, items, m)
    BY <1>1
<1>3. StopsFirst(new)
    BY <1>2 DEF StopsFirst, Selected
<1> QED
    BY <1>3 DEF new

LEMMA WithoutInTurn ==
    ASSUME NEW S, NEW items \in Seq(S), NEW dropped, InTurn(items)
    PROVE  InTurn(Without(items, dropped))
<1> DEFINE new == Without(items, dropped)
<1>1. new \in Seq(S) /\ \E m : Selected(new, items, m)
    BY WithoutSelects
<1> HIDE DEF new
<1>2. PICK m : Selected(new, items, m)
    BY <1>1
<1>3. InTurn(new)
    BY <1>2 DEF InTurn, Selected
<1> QED
    BY <1>3 DEF new

-----------------------------------------------------------------------------
(***************************************************************************)
(* Several items are put into a queue, one after the other.                *)
(***************************************************************************)

LEMMA AddingSteps ==
    ASSUME NEW S, NEW items \in Seq(S), NEW more \in Seq(S)
    PROVE  /\ Adding(items, more) \in [0 .. Len(more) -> Seq(S)]
           /\ Adding(items, more)[0] = items
           /\ \A k \in 1 .. Len(more) :
                 Adding(items, more)[k] = Enqueue(Adding(items, more)[k - 1], more[k])
<1> DEFINE n == Len(more)
           Q == Seq(S)
           Loop(f) == [i \in 0 .. n |-> IF i = 0 THEN items ELSE Enqueue(f[i - 1], more[i])]
           step == [k \in 1 .. n |-> [s \in Q |-> Enqueue(s, more[k])]]
<1>1. n \in Nat /\ items \in Q
    OBVIOUS
<1>2. \A k \in 1 .. n : \A s \in Q : Enqueue(s, more[k]) \in Q
    BY EnqueueType
<1>3. \A k \in 1 .. n : \A s \in Q : step[k][s] = Enqueue(s, more[k])
    OBVIOUS
<1>4. Adding(items, more) = CHOOSE g : g = Loop(g)
    BY DEF Adding
<1> HIDE DEF n, Q
<1>5. step \in [1 .. n -> [Q -> Q]]
    BY <1>2
<1> HIDE DEF step
<1>6. PICK f \in [0 .. n -> Q] : IsRun(f, items, step, n)
    BY <1>1, <1>5, RecursionExists
<1>7. f[0] = items /\ \A k \in 1 .. n : f[k] = step[k][f[k - 1]]
    BY <1>6 DEF IsRun
<1>8. f = Loop(f)
  <2>1. ASSUME NEW k \in 1 .. n PROVE f[k] = Enqueue(f[k - 1], more[k])
    <3>1. f[k - 1] \in Q
        BY <1>1
    <3> QED
        BY <3>1, <1>3, <1>7
  <2>2. \A k \in 0 .. n : k = 0 \/ k \in 1 .. n
      BY <1>1
  <2>3. \A k \in 0 .. n : f[k] = Loop(f)[k]
      BY <2>1, <2>2, <1>7
  <2> QED
      BY <2>3
<1> DEFINE grown == Adding(items, more)
<1>9. grown = Loop(grown)
    BY <1>4, <1>8
<1> HIDE DEF grown
<1>10. grown[0] = items /\ \A k \in 1 .. n : grown[k] = Enqueue(grown[k - 1], more[k])
  <2>1. \A k \in 1 .. n : k \in 0 .. n /\ k # 0
      BY <1>1
  <2>2. 0 \in 0 .. n
      BY <1>1
  <2> QED
      BY <2>1, <2>2, <1>9
<1>11. \A k \in 0 .. n : grown[k] \in Q
  <2>1. \A k \in 1 .. n : grown[k - 1] \in Q => grown[k] \in Q
      BY <1>2, <1>10
  <2>2. grown[0] \in Q
      BY <1>1, <1>10
  <2> QED
      BY <1>1, <2>1, <2>2, UpToStays
<1>12. grown \in [0 .. n -> Q]
    BY <1>9, <1>11
<1> QED
    BY <1>10, <1>12 DEF grown, n, Q

\* No timeouts, alerts that arrive later, callbacks that are due.
AllInTurn(more) ==
    \A i \in DOMAIN more :
        /\ more[i].kind # "OnTimeout"
        /\ more[i].kind = "receive" => more[i].wait # 0
        /\ more[i].kind = "onInterestFinalize" => more[i].wait = 0

LEMMA EnqueueAllSorted ==
    ASSUME NEW S, NEW items \in Seq(S), NEW more \in Seq(S), Sorted(items),
           \A i \in DOMAIN more : more[i].wait \in Nat
    PROVE  /\ EnqueueAll(items, more) \in Seq(S)
           /\ Sorted(EnqueueAll(items, more))
           /\ Range(EnqueueAll(items, more)) = Range(items) \cup Range(more)
           /\ StopsFirst(items) /\ (\A i \in DOMAIN more : more[i].kind # "StopApplication") =>
                  StopsFirst(EnqueueAll(items, more))
           /\ InTurn(items) /\ AllInTurn(more) => InTurn(EnqueueAll(items, more))
<1> DEFINE grown == Adding(items, more)
           n == Len(more)
           NoStop == \A i \in DOMAIN more : more[i].kind # "StopApplication"
           Grown(k) ==
               /\ Sorted(grown[k])
               /\ Range(grown[k]) = Range(items) \cup {more[i] : i \in 1 .. k}
               /\ StopsFirst(items) /\ NoStop => StopsFirst(grown[k])
               /\ InTurn(items) /\ AllInTurn(more) => InTurn(grown[k])
           T == {k \in 0 .. n : Grown(k)}
<1>1. n \in Nat /\ DOMAIN more = 1 .. n
    OBVIOUS
<1>2. /\ grown \in [0 .. n -> Seq(S)]
      /\ grown[0] = items
      /\ \A k \in 1 .. n : grown[k] = Enqueue(grown[k - 1], more[k])
    BY AddingSteps
<1>3. \A i \in 1 .. n : more[i] \in S /\ more[i].wait \in Nat
    OBVIOUS
<1> HIDE DEF grown, n
<1>4. 0 \in T
    BY <1>1, <1>2
<1>11. \A k \in 0 .. n - 1 :
           k + 1 \in 1 .. n /\ k + 1 \in 0 .. n /\ (k + 1) - 1 = k /\ k \in 0 .. n
    BY <1>1
<1>5. ASSUME NEW k \in 0 .. n - 1, k \in T PROVE k + 1 \in T
  <2>1. k + 1 \in 1 .. n /\ k + 1 \in 0 .. n /\ (k + 1) - 1 = k /\ k \in 0 .. n
      BY <1>11, Zenon
  <2>2. grown[k] \in Seq(S) /\ Grown(k)
      BY <1>2, <1>5, <2>1
  <2> DEFINE old == grown[k]
             e   == more[k + 1]
  <2>3. grown[k + 1] = Enqueue(old, e)
      BY <1>2, <2>1
  <2>4. e \in S /\ e.wait \in Nat
      BY <1>3, <2>1
  <2>5. old \in Seq(S) /\ Sorted(old)
      BY <2>2
  <2> HIDE DEF old, e
  <2>6. Sorted(grown[k + 1]) /\ Range(grown[k + 1]) = Range(old) \cup {e}
      BY <2>3, <2>4, <2>5, EnqueueSorted
  <2>7. Range(grown[k + 1]) = Range(items) \cup {more[i] : i \in 1 .. k + 1}
    <3>1. 1 .. k + 1 = (1 .. k) \cup {k + 1}
        BY <2>1
    <3>2. {more[i] : i \in 1 .. k + 1} = {more[i] : i \in 1 .. k} \cup {more[k + 1]}
        BY <3>1
    <3>3. Range(old) = Range(items) \cup {more[i] : i \in 1 .. k}
        BY <2>2 DEF old
    <3> QED
        BY <3>2, <3>3, <2>6 DEF e
  <2>8. ASSUME StopsFirst(items), NoStop PROVE StopsFirst(grown[k + 1])
    <3>1. StopsFirst(old)
        BY <2>2, <2>8 DEF old
    <3>2. e.kind # "StopApplication"
        BY <2>1, <2>8, <1>1 DEF e
    <3> QED
        BY <3>1, <3>2, <2>3, <2>4, <2>5, EnqueueStopsFirst
  <2>9. ASSUME InTurn(items), AllInTurn(more) PROVE InTurn(grown[k + 1])
    <3>1. InTurn(old)
        BY <2>2, <2>9 DEF old
    <3>2. /\ e.kind # "OnTimeout"
          /\ e.kind = "receive" => e.wait # 0
          /\ e.kind = "onInterestFinalize" => e.wait = 0
        BY <2>1, <2>9, <1>1 DEF e, AllInTurn
    <3> QED
        BY <3>1, <3>2, <2>3, <2>4, <2>5, EnqueueInTurn
  <2> QED
      BY <2>1, <2>6, <2>7, <2>8, <2>9
<1> HIDE DEF T
<1>6. n \in T
  <2>1. 0 .. n \subseteq T
      BY <1>1, <1>4, <1>5, UpToInduction
  <2> QED
      BY <1>1, <2>1
<1>7. Grown(n)
    BY <1>6 DEF T
<1>8. grown[n] = EnqueueAll(items, more)
    BY DEF EnqueueAll, grown, n
<1>9. {more[i] : i \in 1 .. n} = Range(more)
    BY <1>1 DEF Range
<1>10. grown[n] \in Seq(S)
    BY <1>1, <1>2
<1> QED
    BY <1>7, <1>8, <1>9, <1>10

\* Every finite set of numbers can be listed in their order.
LEMMA InOrderListing ==
    ASSUME NEW nodes \in SUBSET Nat, IsFiniteSet(nodes)
    PROVE  /\ InOrder(nodes) \in [1 .. Cardinality(nodes) -> nodes]
           /\ \A i, j \in DOMAIN InOrder(nodes) : i < j => InOrder(nodes)[i] < InOrder(nodes)[j]
           /\ Range(InOrder(nodes)) = nodes
<1> DEFINE Increasing(s) == \A i, j \in DOMAIN s : i < j => s[i] < s[j]
           Listed(T) == \E s \in [1 .. Cardinality(T) -> T] : Increasing(s)
           L == {n \in Nat : \A T \in SUBSET nodes : Cardinality(T) = n => Listed(T)}
<1>1. \A T \in SUBSET nodes : IsFiniteSet(T) /\ Cardinality(T) \in Nat
    BY FS_Subset, FS_CardinalityType
<1>2. 0 \in L
  <2> SUFFICES ASSUME NEW T \in SUBSET nodes, Cardinality(T) = 0 PROVE Listed(T)
      OBVIOUS
  <2> DEFINE s == [i \in {} |-> 0]
  <2>1. s \in [1 .. Cardinality(T) -> T] /\ Increasing(s)
      OBVIOUS
  <2> HIDE DEF s
  <2> QED
      BY <2>1
<1>3. ASSUME NEW n \in Nat, n \in L PROVE n + 1 \in L
  <2> SUFFICES ASSUME NEW T \in SUBSET nodes, Cardinality(T) = n + 1 PROVE Listed(T)
      OBVIOUS
  <2>1. T # {} /\ T \in SUBSET Nat
      BY FS_EmptySet
  <2>2. PICK x \in T : \A y \in T : x <= y
      BY <2>1, LeastNat
  <2> DEFINE U == T \ {x}
  <2>3. Cardinality(U) = n /\ U \in SUBSET nodes
      BY <1>1, <2>2, FS_RemoveElement
  <2>4. PICK s \in [1 .. n -> U] : Increasing(s)
      BY <2>3, <1>3
  <2> DEFINE l == [i \in 1 .. n + 1 |-> IF i = 1 THEN x ELSE s[i - 1]]
  <2>5. \A i \in 2 .. n + 1 : l[i] = s[i - 1] /\ i - 1 \in 1 .. n
      OBVIOUS
  <2>6. \A i \in 2 .. n + 1 : l[i] \in U /\ x < l[i]
    <3>1. \A y \in U : x < y
        BY <2>1, <2>2
    <3>2. \A i \in 2 .. n + 1 : l[i] \in U
        BY <2>4, <2>5
    <3> QED
        BY <3>1, <3>2
  <2>7. l[1] = x
      OBVIOUS
  <2>8. \A i \in 1 .. n + 1 : i = 1 \/ i \in 2 .. n + 1
      OBVIOUS
  <2>9. l \in [1 .. n + 1 -> T]
      BY <2>6, <2>7, <2>8
  <2>10. Increasing(l)
    <3> SUFFICES ASSUME NEW i \in 1 .. n + 1, NEW j \in 1 .. n + 1, i < j PROVE l[i] < l[j]
        OBVIOUS
    <3>1. j \in 2 .. n + 1
        OBVIOUS
    <3>2. CASE i = 1
        BY <3>1, <3>2, <2>6, <2>7
    <3>3. CASE i # 1
      <4>1. i \in 2 .. n + 1
          BY <3>3
      <4>2. s[i - 1] < s[j - 1]
          BY <4>1, <3>1, <2>4, <2>5
      <4> QED
          BY <4>1, <4>2, <3>1, <2>5
    <3> QED
        BY <3>2, <3>3
  <2> HIDE DEF l
  <2> QED
      BY <2>9, <2>10
<1> HIDE DEF L
<1>4. Nat \subseteq L
    BY <1>2, <1>3, NatSetInduction
<1>5. Listed(nodes)
    BY <1>1, <1>4 DEF L
<1> DEFINE order == InOrder(nodes)
           n == Cardinality(nodes)
<1>6. order \in [1 .. n -> nodes] /\ Increasing(order)
    BY <1>5 DEF InOrder
<1> HIDE DEF order
<1>7. Range(order) = nodes
  <2>1. n \in Nat
      BY FS_CardinalityType
  <2>2. \A i, j \in 1 .. n : i # j => order[i] # order[j]
    <3>1. \A i \in 1 .. n : order[i] \in Nat
        BY <1>6
    <3>2. \A i, j \in 1 .. n : i < j => order[i] < order[j]
        BY <1>6
    <3> SUFFICES ASSUME NEW i \in 1 .. n, NEW j \in 1 .. n, i # j PROVE order[i] # order[j]
        OBVIOUS
    <3>3. i < j \/ j < i
        BY <2>1
    <3> QED
        BY <3>1, <3>2, <3>3
  <2>3. order \in Injection(1 .. n, nodes)
      BY <1>6, <2>2 DEF Injection, IsInjective
  <2>4. Cardinality(1 .. n) = n
      BY <2>1, FS_Interval
  <2>5. order \in Surjection(1 .. n, nodes)
      BY <2>3, <2>4, FS_Injection
  <2> QED
      BY <1>6, <2>5 DEF Surjection, Range
<1> QED
    BY <1>6, <1>7 DEF order

-----------------------------------------------------------------------------
(***************************************************************************)
(* The scheduler.  E is the set of events of the simulation at hand.       *)
(***************************************************************************)
AnyKind == Kind \cup {"StartProducer", "SendAlert"}

EventSpace(E) ==
    /\ E \subseteq [kind : AnyKind, node : Nat, wait : Nat, valid : BOOLEAN]
    /\ \A e \in E : e.kind \in {"executeEvent", "onInterestFinalize"} =>
           [e EXCEPT !.valid = FALSE] \in E
    /\ \A e \in E : e.wait # 0 => [e EXCEPT !.wait = e.wait - 1] \in E
    /\ \A kind \in Kind, n \in Node, w \in Nat : Event(kind, n, w) \in E
    /\ \A kind \in {"executeEvent", "mark"}, n \in Forwarder, w \in Nat : Event(kind, n, w) \in E

SimType(E) == [events : Seq(E), queue : Seq(TimerType)]

\* What timers call.
Callback == {"onInterestFinalize", "mark", "deallocate"}

LEMMA TimerFields ==
    ASSUME NEW t \in TimerType
    PROVE  /\ t.kind \in Callback /\ t.node \in Forwarder /\ t.wait \in Nat
           /\ t.kind # "mark" => t.node \in Node
<1>1. Node \subseteq Forwarder /\ LifeTime \in Nat /\ MarkInterval \in Nat
    BY SubscriptionAssumption
<1>2. CASE t \in [kind : {"onInterestFinalize"}, node : Node, wait : 0 .. LifeTime]
    BY <1>1, <1>2 DEF Callback
<1>3. CASE t \in [kind : {"mark"}, node : Forwarder, wait : 0 .. MarkInterval]
    BY <1>1, <1>3 DEF Callback
<1>4. CASE t \in [kind : {"deallocate"}, node : Node, wait : {0}]
    BY <1>1, <1>4 DEF Callback
<1> QED
    BY <1>2, <1>3, <1>4 DEF TimerType

SortedSim(sim) == Sorted(sim.events) /\ Sorted(sim.queue)

\* The events that are not the scheduler's own.
Others(evs) == {e \in Range(evs) : e.kind # "executeEvent"}

\* A wake-up is scheduled for the instant in which the first timer expires.
Awake(sim) ==
    sim.queue # <<>> =>
        \E e \in Range(sim.events) : e.kind = "executeEvent" /\ e.wait = sim.queue[1].wait

\* The same events, some of them perhaps no longer valid.
Alike(new, evs) ==
    /\ DOMAIN new = DOMAIN evs
    /\ \A i \in DOMAIN evs :
          new[i].kind = evs[i].kind /\ new[i].node = evs[i].node /\ new[i].wait = evs[i].wait

LEMMA AlikeKeeps ==
    ASSUME NEW new, NEW evs, Alike(new, evs)
    PROVE  /\ Sorted(evs) => Sorted(new)
           /\ StopsFirst(evs) => StopsFirst(new)
           /\ InTurn(evs) => InTurn(new)
  BY DEF Alike, Sorted, StopsFirst, InTurn

LEMMA ForgetKeeps ==
    ASSUME NEW E, EventSpace(E), NEW sim \in SimType(E)
    PROVE  /\ Forget(sim) \in Seq(E)
           /\ Alike(Forget(sim), sim.events)
           /\ Others(Forget(sim)) = Others(sim.events)
<1> DEFINE evs == sim.events
           new == [i \in DOMAIN evs |-> [evs[i] EXCEPT !.valid = @ /\ ~(evs[i].kind = "executeEvent")]]
<1>1. evs \in Seq(E)
    BY DEF SimType
<1>2. Forget(sim) = new
    BY DEF Forget, Invalidate, IsWakeUp
<1> HIDE DEF evs
<1>3. ASSUME NEW i \in DOMAIN evs
      PROVE  /\ new[i] \in E
             /\ new[i].kind = evs[i].kind /\ new[i].node = evs[i].node /\ new[i].wait = evs[i].wait
             /\ evs[i].kind # "executeEvent" => new[i] = evs[i]
  <2>1. evs[i] \in E /\ evs[i] \in [kind : AnyKind, node : Nat, wait : Nat, valid : BOOLEAN]
      BY <1>1 DEF EventSpace
  <2>2. CASE evs[i].kind = "executeEvent"
    <3>1. new[i] = [evs[i] EXCEPT !.valid = FALSE]
        BY <2>1, <2>2
    <3> QED
        BY <2>1, <2>2, <3>1 DEF EventSpace
  <2>3. CASE evs[i].kind # "executeEvent"
    <3>1. new[i] = evs[i]
        BY <2>1, <2>3
    <3> QED
        BY <2>1, <3>1
  <2> QED
      BY <2>2, <2>3
<1>4. DOMAIN new = DOMAIN evs
    OBVIOUS
<1>5. new \in Seq(E)
  <2>1. DOMAIN evs = 1 .. Len(evs) /\ Len(evs) \in Nat
      BY <1>1
  <2>2. new \in [1 .. Len(evs) -> E]
      BY <1>3, <2>1
  <2> HIDE DEF new
  <2> QED
      BY <2>1, <2>2
<1> HIDE DEF new
<1>6. Others(new) = Others(evs)
    BY <1>3, <1>4 DEF Others, Range
<1> QED
    BY <1>2, <1>3, <1>4, <1>5, <1>6 DEF Alike, evs

LEMMA OrphanKeeps ==
    ASSUME NEW E, EventSpace(E), NEW evs \in Seq(E), NEW nodes
    PROVE  /\ Orphan(evs, nodes) \in Seq(E)
           /\ Alike(Orphan(evs, nodes), evs)
           /\ \A i \in DOMAIN evs :
                  evs[i].kind # "onInterestFinalize" => Orphan(evs, nodes)[i] = evs[i]
<1> DEFINE Lost(e) == e.kind = "onInterestFinalize" /\ e.node \in nodes
           new == [i \in DOMAIN evs |-> [evs[i] EXCEPT !.valid = @ /\ ~Lost(evs[i])]]
<1>1. Orphan(evs, nodes) = new
    BY DEF Orphan, Invalidate
<1>2. ASSUME NEW i \in DOMAIN evs
      PROVE  /\ new[i] \in E
             /\ new[i].kind = evs[i].kind /\ new[i].node = evs[i].node /\ new[i].wait = evs[i].wait
             /\ evs[i].kind # "onInterestFinalize" => new[i] = evs[i]
  <2>1. evs[i] \in E /\ evs[i] \in [kind : AnyKind, node : Nat, wait : Nat, valid : BOOLEAN]
      BY DEF EventSpace
  <2>2. CASE Lost(evs[i])
    <3>1. new[i] = [evs[i] EXCEPT !.valid = FALSE]
        BY <2>1, <2>2
    <3> QED
        BY <2>1, <2>2, <3>1 DEF EventSpace
  <2>3. CASE ~Lost(evs[i])
    <3>1. new[i] = evs[i]
        BY <2>1, <2>3
    <3> QED
        BY <2>1, <3>1
  <2> QED
      BY <2>2, <2>3
<1>3. DOMAIN new = DOMAIN evs
    OBVIOUS
<1>4. new \in Seq(E)
  <2>1. DOMAIN evs = 1 .. Len(evs) /\ Len(evs) \in Nat
      OBVIOUS
  <2>2. new \in [1 .. Len(evs) -> E]
      BY <1>2, <2>1
  <2> HIDE DEF new
  <2> QED
      BY <2>1, <2>2
<1> HIDE DEF new
<1> QED
    BY <1>1, <1>2, <1>3, <1>4 DEF Alike

\* A wake-up for the first timer is scheduled anew; nothing else changes.
LEMMA ScheduleNextKeeps ==
    ASSUME NEW E, EventSpace(E), NEW sim \in SimType(E), SortedSim(sim), NEW context \in Forwarder
    PROVE  LET r == ScheduleNext(sim, context)
           IN  /\ r \in SimType(E) /\ SortedSim(r)
               /\ r.queue = sim.queue
               /\ Others(r.events) = Others(sim.events)
               /\ StopsFirst(sim.events) => StopsFirst(r.events)
               /\ InTurn(sim.events) => InTurn(r.events)
               /\ Awake(r)
<1>1. CASE sim.queue = <<>>
    BY <1>1 DEF ScheduleNext, Awake
<1>2. CASE sim.queue # <<>>
  <2> DEFINE quiet == Forget(sim)
             e     == Event("executeEvent", context, sim.queue[1].wait)
             r     == ScheduleNext(sim, context)
  <2>1. /\ quiet \in Seq(E) /\ Sorted(quiet) /\ Others(quiet) = Others(sim.events)
        /\ StopsFirst(sim.events) => StopsFirst(quiet)
        /\ InTurn(sim.events) => InTurn(quiet)
      BY ForgetKeeps, AlikeKeeps DEF SortedSim
  <2>2. sim.queue \in Seq(TimerType) /\ sim.queue[1] \in TimerType
      BY <1>2 DEF SimType
  <2>3. sim.queue[1].wait \in Nat
      BY <2>2, TimerFields
  <2>5. e \in E
      BY <2>3 DEF EventSpace
  <2>6. e.kind = "executeEvent" /\ e.wait = sim.queue[1].wait
      BY DEF Event
  <2>7. r = [sim EXCEPT !.events = Enqueue(quiet, e)]
      BY <1>2 DEF ScheduleNext
  <2> HIDE DEF quiet, e
  <2>8. /\ Enqueue(quiet, e) \in Seq(E) /\ Sorted(Enqueue(quiet, e))
        /\ Range(Enqueue(quiet, e)) = Range(quiet) \cup {e}
      BY <2>1, <2>3, <2>5, <2>6, EnqueueSorted
  <2>9. StopsFirst(sim.events) => StopsFirst(Enqueue(quiet, e))
      BY <2>1, <2>3, <2>5, <2>6, EnqueueStopsFirst
  <2>16. InTurn(sim.events) => InTurn(Enqueue(quiet, e))
      BY <2>1, <2>3, <2>5, <2>6, EnqueueInTurn
  <2>10. Others(Enqueue(quiet, e)) = Others(quiet)
      BY <2>6, <2>8 DEF Others
  <2>11. r \in SimType(E) /\ r.events = Enqueue(quiet, e) /\ r.queue = sim.queue
      BY <2>7, <2>8 DEF SimType
  <2> HIDE DEF r
  <2>12. SortedSim(r)
      BY <2>8, <2>11 DEF SortedSim
  <2>13. Awake(r)
      BY <2>6, <2>8, <2>11 DEF Awake
  <2>14. Others(r.events) = Others(sim.events)
      BY <2>1, <2>10, <2>11
  <2>15. /\ StopsFirst(sim.events) => StopsFirst(r.events)
         /\ InTurn(sim.events) => InTurn(r.events)
      BY <2>9, <2>11, <2>16
  <2> QED
      BY <2>11, <2>12, <2>13, <2>14, <2>15 DEF r
<1> QED
    BY <1>1, <1>2

\* The timer of the entry leaves the queue; the scheduler stays awake.
LEMMA CancelTimerKeeps ==
    ASSUME NEW E, EventSpace(E), NEW sim \in SimType(E), SortedSim(sim), NEW context \in Node
    PROVE  LET r == CancelTimer(sim, context)
           IN  /\ r \in SimType(E) /\ SortedSim(r)
               /\ Range(r.queue) = {t \in Range(sim.queue) : ~Expires(t, context)}
               /\ Others(r.events) = Others(sim.events)
               /\ StopsFirst(sim.events) => StopsFirst(r.events)
               /\ InTurn(sim.events) => InTurn(r.events)
               /\ Awake(sim) => Awake(r)
<1> DEFINE r == CancelTimer(sim, context)
<1>0. sim.events \in Seq(E) /\ sim.queue \in Seq(TimerType)
    BY DEF SimType
<1>1. CASE \A i \in DOMAIN sim.queue : ~Expires(sim.queue[i], context)
  <2>1. r = sim
      BY <1>1 DEF CancelTimer
  <2>2. Range(sim.queue) = {t \in Range(sim.queue) : ~Expires(t, context)}
      BY <1>1 DEF Range
  <2> QED
      BY <2>1, <2>2
<1>2. CASE ~(\A i \in DOMAIN sim.queue : ~Expires(sim.queue[i], context))
  <2> DEFINE awake == {e \in Range(sim.events) : IsWakeUp(e) /\ e.valid}
             ours  == {t \in Range(sim.queue) : Expires(t, context)}
             evs   == Without(sim.events, awake)
             q     == Without(sim.queue, ours)
             left  == [events |-> evs, queue |-> q]
  <2>1. r = ScheduleNext(left, context)
      BY <1>2 DEF CancelTimer
  <2>2. \A e \in awake : e.kind = "executeEvent"
      BY DEF IsWakeUp
  <2>3. \A t : t \in ours <=> t \in Range(sim.queue) /\ Expires(t, context)
      OBVIOUS
  <2> HIDE DEF awake, ours
  <2>4. /\ evs \in Seq(E) /\ Sorted(evs) /\ Range(evs) = Range(sim.events) \ awake
        /\ StopsFirst(sim.events) => StopsFirst(evs)
        /\ InTurn(sim.events) => InTurn(evs)
      BY <1>0, WithoutSelects, WithoutSorted, WithoutStopsFirst, WithoutInTurn DEF SortedSim
  <2>5. q \in Seq(TimerType) /\ Sorted(q) /\ Range(q) = Range(sim.queue) \ ours
      BY <1>0, WithoutSelects, WithoutSorted DEF SortedSim
  <2> HIDE DEF evs, q
  <2>6. left \in SimType(E) /\ SortedSim(left) /\ left.events = evs /\ left.queue = q
      BY <2>4, <2>5 DEF SimType, SortedSim
  <2> HIDE DEF left
  <2>7. /\ r \in SimType(E) /\ SortedSim(r)
        /\ r.queue = left.queue
        /\ Others(r.events) = Others(left.events)
        /\ StopsFirst(left.events) => StopsFirst(r.events)
        /\ InTurn(left.events) => InTurn(r.events)
        /\ Awake(r)
      BY <2>1, <2>6, ScheduleNextKeeps, SubscriptionAssumption
  <2>8. Others(evs) = Others(sim.events)
      BY <2>2, <2>4 DEF Others
  <2>9. Range(q) = {t \in Range(sim.queue) : ~Expires(t, context)}
      BY <2>3, <2>5
  <2> QED
      BY <2>4, <2>6, <2>7, <2>8, <2>9
<1> QED
    BY <1>1, <1>2

\* A timer is put into the queue; the scheduler stays awake.
LEMMA ScheduleKeeps ==
    ASSUME NEW E, EventSpace(E), NEW sim \in SimType(E), SortedSim(sim), NEW kind,
           NEW context \in Forwarder, NEW wait \in Nat, Timer(kind, context, wait) \in TimerType
    PROVE  LET r == Schedule(sim, kind, context, wait)
           IN  /\ r \in SimType(E) /\ SortedSim(r)
               /\ Range(r.queue) = Range(sim.queue) \cup {Timer(kind, context, wait)}
               /\ Others(r.events) = Others(sim.events)
               /\ StopsFirst(sim.events) => StopsFirst(r.events)
               /\ InTurn(sim.events) => InTurn(r.events)
               /\ Awake(sim) => Awake(r)
<1> DEFINE r     == Schedule(sim, kind, context, wait)
           timer == Timer(kind, context, wait)
           q     == Enqueue(sim.queue, timer)
           grown == [sim EXCEPT !.queue = q]
           first == \A i \in DOMAIN sim.queue : wait < sim.queue[i].wait
<1>0. sim.events \in Seq(E) /\ sim.queue \in Seq(TimerType)
    BY DEF SimType
<1>1. timer \in TimerType /\ timer.wait = wait
    BY DEF Timer
<1>2. r = IF first THEN ScheduleNext(grown, context) ELSE grown
    BY DEF Schedule
<1> HIDE DEF timer
<1>3. q \in Seq(TimerType) /\ Sorted(q) /\ Range(q) = Range(sim.queue) \cup {timer}
    BY <1>0, <1>1, EnqueueSorted DEF SortedSim
<1>4. PICK k \in 1 .. Len(sim.queue) + 1 : Inserted(q, sim.queue, timer, k)
    BY <1>0, <1>1, EnqueueInserts DEF SortedSim
<1> HIDE DEF q
<1>5. /\ grown \in SimType(E) /\ SortedSim(grown)
      /\ grown.events = sim.events /\ grown.queue = q
    BY <1>3 DEF SimType, SortedSim
<1> HIDE DEF grown
<1>6. CASE first
  <2>1. /\ r \in SimType(E) /\ SortedSim(r)
        /\ r.queue = grown.queue
        /\ Others(r.events) = Others(grown.events)
        /\ StopsFirst(grown.events) => StopsFirst(r.events)
        /\ InTurn(grown.events) => InTurn(r.events)
        /\ Awake(r)
      BY <1>2, <1>5, <1>6, ScheduleNextKeeps
  <2> QED
      BY <2>1, <1>3, <1>5 DEF timer
<1>7. CASE ~first
  <2>1. PICK i \in DOMAIN sim.queue : ~(wait < sim.queue[i].wait)
      BY <1>7
  <2>2. k # 1
    <3> SUFFICES ASSUME k = 1 PROVE FALSE
        OBVIOUS
    <3>1. i \in k .. Len(sim.queue)
        BY <1>0
    <3> QED
        BY <3>1, <2>1, <1>1, <1>4 DEF Inserted
  <2>3. q[1] = sim.queue[1] /\ sim.queue # <<>>
      BY <2>1, <2>2, <1>0, <1>4 DEF Inserted
  <2>4. r = grown
      BY <1>2, <1>7
  <2>5. Awake(sim) => Awake(grown)
      BY <2>3, <1>5 DEF Awake
  <2> QED
      BY <2>4, <2>5, <1>3, <1>5 DEF timer
<1> QED
    BY <1>6, <1>7

LEMMA SetExpiryTimerKeeps ==
    ASSUME NEW E, EventSpace(E), NEW sim \in SimType(E), SortedSim(sim), NEW n \in Node,
           NEW wait \in 0 .. LifeTime
    PROVE  LET r == SetExpiryTimer(sim, n, wait)
           IN  /\ r \in SimType(E) /\ SortedSim(r)
               /\ \A t \in Range(r.queue) :
                     /\ Expires(t, n) => t.wait = wait
                     /\ Expires(t, n) \/ t \in Range(sim.queue)
               /\ Others(r.events) = Others(sim.events)
               /\ StopsFirst(sim.events) => StopsFirst(r.events)
               /\ InTurn(sim.events) => InTurn(r.events)
               /\ Awake(sim) => Awake(r)
<1> DEFINE c == CancelTimer(sim, n)
           r == Schedule(c, "onInterestFinalize", n, wait)
           t1 == Timer("onInterestFinalize", n, wait)
<1>1. /\ c \in SimType(E) /\ SortedSim(c)
      /\ Range(c.queue) = {t \in Range(sim.queue) : ~Expires(t, n)}
      /\ Others(c.events) = Others(sim.events)
      /\ StopsFirst(sim.events) => StopsFirst(c.events)
      /\ InTurn(sim.events) => InTurn(c.events)
      /\ Awake(sim) => Awake(c)
    BY CancelTimerKeeps
<1>3. n \in Forwarder /\ wait \in Nat /\ t1 \in TimerType
    BY SubscriptionAssumption DEF Timer, TimerType
<1>4. t1.wait = wait /\ Expires(t1, n)
    BY DEF Timer, Expires
<1> HIDE DEF c, t1
<1>2. /\ r \in SimType(E) /\ SortedSim(r)
      /\ Range(r.queue) = Range(c.queue) \cup {t1}
      /\ Others(r.events) = Others(c.events)
      /\ StopsFirst(c.events) => StopsFirst(r.events)
      /\ InTurn(c.events) => InTurn(r.events)
      /\ Awake(c) => Awake(r)
    BY <1>1, <1>3, ScheduleKeeps DEF t1
<1> QED
    BY <1>1, <1>2, <1>4 DEF SetExpiryTimer, c

-----------------------------------------------------------------------------
(***************************************************************************)
(* The steps, seen from the two queues.  Good is the part of the inductive *)
(* invariant that is about them.                                           *)
(***************************************************************************)
Good(E, evs, q) ==
    /\ evs \in Seq(E) /\ Sorted(evs) /\ StopsFirst(evs)
    /\ q \in Seq(TimerType) /\ Sorted(q)
    /\ Awake([events |-> evs, queue |-> q])

\* What is neither a wake-up nor the callback of a timer.
Plain(evs) == {e \in Range(evs) : e.kind \notin Callback \cup {"executeEvent"}}

LEMMA GoodSim ==
    ASSUME NEW E, NEW r \in SimType(E), SortedSim(r), StopsFirst(r.events), Awake(r)
    PROVE  Good(E, r.events, r.queue)
  BY DEF Good, SimType, SortedSim, Awake

\* The first event is taken out of the queue.
LEMMA RestKeeps ==
    ASSUME NEW E, EventSpace(E), Good(E, events, queue), Due(events)
    PROVE  /\ Next1 \in E /\ Next1.wait = 0 /\ Next1.node \in Nat
           /\ Rest \in SimType(E) /\ SortedSim(Rest) /\ StopsFirst(Rest.events)
           /\ Rest.events = Tail(events) /\ Rest.queue = queue
           /\ InTurn(events) => InTurn(Tail(events))
           /\ Range(events) = Range(Tail(events)) \cup {Next1}
           /\ Next1.kind # "executeEvent" => Awake(Rest)
           /\ Next1.kind \notin Early =>
                  \A e \in Range(Tail(events)) : e.kind = "StopApplication" => e.wait # 0
<1> DEFINE tail == Tail(events)
<1>1. events \in Seq(E) /\ events # <<>> /\ events[1].wait = 0 /\ queue \in Seq(TimerType)
    BY DEF Good, Due
<1>2. Next1 = events[1] /\ Next1 \in E /\ Len(events) \in Nat \ {0}
    BY <1>1 DEF Next1
<1>3. /\ tail \in Seq(E) /\ Len(tail) = Len(events) - 1
      /\ \A i \in 1 .. Len(events) - 1 : tail[i] = events[i + 1]
    BY <1>1
<1>4. Rest = [events |-> tail, queue |-> queue]
    BY DEF Rest
<1> HIDE DEF tail
<1>5. \A i \in DOMAIN tail : i + 1 \in DOMAIN events /\ tail[i] = events[i + 1]
    BY <1>1, <1>2, <1>3
<1>6. DOMAIN tail \subseteq Int
    BY <1>3
<1>7. Sorted(tail)
    BY <1>5, <1>6 DEF Good, Sorted
<1>8. StopsFirst(tail)
  <2> SUFFICES ASSUME NEW i \in DOMAIN tail, NEW j \in DOMAIN tail, i < j,
                      tail[j].kind = "StopApplication"
               PROVE  tail[i].wait < tail[j].wait \/ tail[i].kind \in Early
      BY DEF StopsFirst
  <2>1. i + 1 < j + 1
      BY <1>6
  <2> QED
      BY <2>1, <1>5 DEF Good, StopsFirst
<1>9. Range(events) = Range(tail) \cup {Next1}
  <2>1. \A i \in DOMAIN events : i = 1 \/ (i - 1 \in DOMAIN tail /\ tail[i - 1] = events[i])
    <3> SUFFICES ASSUME NEW i \in DOMAIN events, i # 1
                 PROVE  i - 1 \in DOMAIN tail /\ tail[i - 1] = events[i]
        OBVIOUS
    <3>1. i - 1 \in 1 .. Len(events) - 1 /\ (i - 1) + 1 = i
        BY <1>1
    <3> QED
        BY <3>1, <1>3
  <2>2. 1 \in DOMAIN events
      BY <1>1, <1>2
  <2> QED
      BY <2>1, <2>2, <1>2, <1>5 DEF Range
<1>10. Rest \in SimType(E) /\ Rest.events = tail /\ Rest.queue = queue
    BY <1>1, <1>3, <1>4 DEF SimType
<1>11. ASSUME Next1.kind # "executeEvent" PROVE Awake(Rest)
    BY <1>9, <1>10, <1>11 DEF Good, Awake
<1>12. ASSUME Next1.kind \notin Early, NEW e \in Range(tail), e.kind = "StopApplication"
       PROVE  e.wait # 0
  <2>1. PICK i \in DOMAIN tail : tail[i] = e
      BY <1>12 DEF Range
  <2>2. 1 \in DOMAIN events /\ i + 1 \in DOMAIN events /\ 1 < i + 1 /\ events[i + 1] = e
      BY <2>1, <1>1, <1>2, <1>3, <1>5
  <2>3. events[1].wait < events[i + 1].wait
      BY <2>2, <1>2, <1>12 DEF Good, StopsFirst
  <2> QED
      BY <2>2, <2>3, <1>1
<1>13. Next1.node \in Nat
    BY <1>2 DEF EventSpace
<1>14. InTurn(events) => InTurn(tail)
  <2> SUFFICES ASSUME InTurn(events) PROVE InTurn(tail)
      OBVIOUS
  <2>1. \A i, j \in DOMAIN tail : i < j => i + 1 < j + 1
      BY <1>6
  <2>2. \A i \in DOMAIN tail : tail[i].kind = "onInterestFinalize" => tail[i].wait = 0
      BY <1>5 DEF InTurn
  <2>3. \A i, j \in DOMAIN tail : i < j /\ tail[i].kind = "receive" /\ tail[j].kind = "OnTimeout" =>
            tail[i].wait < tail[j].wait
      BY <2>1, <1>5 DEF InTurn
  <2>4. \A i, j \in DOMAIN tail :
            i < j /\ tail[i].kind = "onInterestFinalize" /\ tail[j].kind = "receive" =>
                tail[i].wait < tail[j].wait
      BY <2>1, <1>5 DEF InTurn
  <2> QED
      BY <2>2, <2>3, <2>4 DEF InTurn
<1> QED
    BY <1>1, <1>2, <1>7, <1>8, <1>9, <1>10, <1>11, <1>12, <1>13, <1>14 DEF SortedSim, Good, tail

\* The timeout of the node is the only plain event that changes.
LEMMA RegisterInterestKeeps ==
    ASSUME NEW E, EventSpace(E), Good(E, events, queue), Due(events), RegisterInterest,
           Next1.kind # "executeEvent", Next1.node \in Node
    PROVE  /\ Good(E, events', queue')
           /\ Plain(events') =
                  {e \in Plain(Tail(events)) : ~(e.kind = "OnTimeout" /\ e.node = Next1.node)}
                      \cup {Event("OnTimeout", Next1.node, LifeTime)}
           /\ \A t \in Range(queue') :
                 /\ Expires(t, Next1.node) => t.wait = LifeTime
                 /\ Expires(t, Next1.node) \/ t \in Range(queue)
           /\ InTurn(events)
              /\ (\A e \in Range(events) : e.kind = "receive" => e.wait < LifeTime) =>
                  InTurn(events')
<1> DEFINE n     == Next1.node
           timed == SetExpiryTimer(Rest, n, LifeTime)
           outs  == Timeouts(timed.events, n)
           quiet == Without(timed.events, outs)
           e     == Event("OnTimeout", n, LifeTime)
<1>1. LifeTime \in 0 .. LifeTime /\ LifeTime \in Nat
    BY SubscriptionAssumption
<1>2. /\ Rest \in SimType(E) /\ SortedSim(Rest) /\ StopsFirst(Rest.events)
      /\ Rest.events = Tail(events) /\ Rest.queue = queue /\ Awake(Rest)
      /\ InTurn(events) => InTurn(Rest.events)
      /\ Range(events) = Range(Tail(events)) \cup {Next1}
    BY RestKeeps
<1>3. /\ timed \in SimType(E) /\ SortedSim(timed)
      /\ \A t \in Range(timed.queue) :
            (Expires(t, n) => t.wait = LifeTime) /\ (Expires(t, n) \/ t \in Range(Rest.queue))
      /\ InTurn(Rest.events) => InTurn(timed.events)
      /\ Others(timed.events) = Others(Rest.events)
      /\ StopsFirst(timed.events) /\ Awake(timed)
    BY <1>1, <1>2, SetExpiryTimerKeeps
<1>4. events' = Enqueue(quiet, e) /\ queue' = timed.queue
    BY DEF RegisterInterest
<1> HIDE DEF timed
<1>5. /\ timed.events \in Seq(E) /\ Sorted(timed.events)
      /\ timed.queue \in Seq(TimerType) /\ Sorted(timed.queue)
    BY <1>3 DEF SimType, SortedSim
<1>6. \A d : d \in outs <=> d \in Range(timed.events) /\ d.kind = "OnTimeout" /\ d.node = n
    BY DEF Timeouts
<1> HIDE DEF outs
<1>7. quiet \in Seq(E) /\ Sorted(quiet) /\ StopsFirst(quiet) /\ Range(quiet) = Range(timed.events) \ outs
      /\ (InTurn(timed.events) => InTurn(quiet))
    BY <1>3, <1>5, WithoutSelects, WithoutSorted, WithoutStopsFirst, WithoutInTurn
<1>8. e \in E /\ e.kind = "OnTimeout" /\ e.wait = LifeTime
  <2>1. "OnTimeout" \in Kind
      BY DEF Kind
  <2> QED
      BY <2>1, <1>1 DEF EventSpace, Event
<1> HIDE DEF quiet, e
<1>9. events' \in Seq(E) /\ Sorted(events') /\ Range(events') = Range(quiet) \cup {e}
    BY <1>1, <1>4, <1>7, <1>8, EnqueueSorted
<1>10. StopsFirst(events')
    BY <1>1, <1>4, <1>7, <1>8, EnqueueStopsFirst
<1>11. Awake([events |-> events', queue |-> queue'])
    BY <1>3, <1>4, <1>6, <1>7, <1>9 DEF Awake
<1>12. Plain(events') = {d \in Plain(Tail(events)) : ~(d.kind = "OnTimeout" /\ d.node = n)} \cup {e}
  <2>1. Others(timed.events) = Others(Tail(events))
      BY <1>2, <1>3
  <2>2. \A d : d \in Plain(timed.events) <=> d \in Plain(Tail(events))
      BY <2>1 DEF Others, Plain
  <2>3. \A d : d \in Plain(events') <=> d = e \/ (d \in Plain(timed.events) /\ d \notin outs)
      BY <1>7, <1>8, <1>9 DEF Plain, Callback
  <2>4. \A d \in Plain(timed.events) : d \in outs <=> d.kind = "OnTimeout" /\ d.node = n
      BY <1>6 DEF Plain
  <2> QED
      BY <2>2, <2>3, <2>4
<1>14. ASSUME InTurn(events), \A d \in Range(events) : d.kind = "receive" => d.wait < LifeTime
       PROVE  InTurn(events')
  <2>1. InTurn(quiet)
      BY <1>2, <1>3, <1>7, <1>14
  <2>2. \A d \in Range(timed.events) : d.kind = "receive" => d \in Range(Tail(events))
      BY <1>2, <1>3 DEF Others
  <2>3. \A i \in DOMAIN quiet : quiet[i].kind = "receive" => quiet[i].wait < LifeTime
      BY <2>2, <1>2, <1>7, <1>14 DEF Range
  <2> QED
      BY <2>1, <2>3, <1>1, <1>4, <1>7, <1>8, EnqueueInTurn
<1>15. \A t \in Range(queue') :
          (Expires(t, n) => t.wait = LifeTime) /\ (Expires(t, n) \/ t \in Range(queue))
    BY <1>2, <1>3, <1>4
<1> QED
    BY <1>4, <1>5, <1>9, <1>10, <1>11, <1>12, <1>14, <1>15 DEF Good, e

\* Nothing happens but that the first event is gone.
LEMMA RestIsGood ==
    ASSUME NEW E, EventSpace(E), Good(E, events, queue), Due(events), Becomes(Rest),
           Next1.kind # "executeEvent"
    PROVE  /\ Good(E, events', queue') /\ Plain(events') = Plain(Tail(events))
           /\ queue' = queue /\ (InTurn(events) => InTurn(events'))
<1>1. /\ Rest \in SimType(E) /\ SortedSim(Rest) /\ StopsFirst(Rest.events) /\ Awake(Rest)
      /\ Rest.events = Tail(events) /\ Rest.queue = queue
      /\ InTurn(events) => InTurn(Tail(events))
    BY RestKeeps
<1>2. events' = Rest.events /\ queue' = Rest.queue
    BY DEF Becomes
<1>3. Good(E, Rest.events, Rest.queue)
    BY <1>1, GoodSim
<1> QED
    BY <1>1, <1>2, <1>3

\* Nothing happens but that another timer is scheduled.
LEMMA SchedulingKeeps ==
    ASSUME NEW E, EventSpace(E), Good(E, events, queue), Due(events),
           Next1.kind # "executeEvent", NEW kind, NEW n \in Forwarder, NEW wait \in Nat,
           Timer(kind, n, wait) \in TimerType, Becomes(Schedule(Rest, kind, n, wait))
    PROVE  /\ Good(E, events', queue') /\ Plain(events') = Plain(Tail(events))
           /\ Range(queue') = Range(queue) \cup {Timer(kind, n, wait)}
           /\ InTurn(events) => InTurn(events')
<1> DEFINE r == Schedule(Rest, kind, n, wait)
<1>1. /\ Rest \in SimType(E) /\ SortedSim(Rest) /\ StopsFirst(Rest.events) /\ Awake(Rest)
      /\ Rest.events = Tail(events) /\ Rest.queue = queue
      /\ InTurn(events) => InTurn(Rest.events)
    BY RestKeeps
<1> DEFINE sim == Rest
<1> HIDE DEF sim
<1>0. LET q == Schedule(sim, kind, n, wait)
      IN  /\ q \in SimType(E) /\ SortedSim(q)
          /\ Range(q.queue) = Range(sim.queue) \cup {Timer(kind, n, wait)}
          /\ Others(q.events) = Others(sim.events)
          /\ StopsFirst(sim.events) => StopsFirst(q.events)
          /\ InTurn(sim.events) => InTurn(q.events)
          /\ Awake(sim) => Awake(q)
  <2>1. sim \in SimType(E) /\ SortedSim(sim)
      BY <1>1 DEF sim
  <2> QED
      BY <2>1, ScheduleKeeps
<1>2. /\ r \in SimType(E) /\ SortedSim(r) /\ StopsFirst(r.events) /\ Awake(r)
      /\ Range(r.queue) = Range(Rest.queue) \cup {Timer(kind, n, wait)}
      /\ Others(r.events) = Others(Rest.events)
      /\ InTurn(Rest.events) => InTurn(r.events)
    BY <1>0, <1>1, Zenon DEF sim
<1>3. events' = r.events /\ queue' = r.queue
    BY DEF Becomes
<1> HIDE DEF r
<1>4. Good(E, r.events, r.queue)
    BY <1>2, GoodSim
<1>5. Plain(r.events) = Plain(Tail(events))
    BY <1>1, <1>2 DEF Others, Plain
<1> QED
    BY <1>1, <1>2, <1>3, <1>4, <1>5

LEMMA OnIncomingDataKeeps ==
    ASSUME NEW E, EventSpace(E), Good(E, events, queue), OnIncomingData, Next1.node \in Node
    PROVE  /\ Good(E, events', queue')
           /\ Plain(events') = Plain(Tail(events)) \cup
                  (IF Pending(Next1.node) /\ Next1.node \notin stopped
                   THEN {Event("OnData", Next1.node, 0)} ELSE {})
           /\ \A t \in Range(queue') :
                 /\ Expires(t, Next1.node) => t.wait = 0
                 /\ Expires(t, Next1.node) \/ t \in Range(queue)
           /\ InTurn(events) => InTurn(events')
<1> DEFINE n     == Next1.node
           timed == SetExpiryTimer(Rest, n, 0)
           e     == Event("OnData", n, 0)
           sent  == Enqueue(timed.events, e)
<1>0. Due(events) /\ Next1.kind = "receive"
    BY DEF OnIncomingData, Run
<1>1. 0 \in 0 .. LifeTime
    BY SubscriptionAssumption
<1>2. /\ Rest \in SimType(E) /\ SortedSim(Rest) /\ StopsFirst(Rest.events)
      /\ Rest.events = Tail(events) /\ Rest.queue = queue /\ Awake(Rest)
      /\ InTurn(events) => InTurn(Rest.events)
    BY <1>0, RestKeeps
<1>3. /\ timed \in SimType(E) /\ SortedSim(timed)
      /\ \A t \in Range(timed.queue) :
            (Expires(t, n) => t.wait = 0) /\ (Expires(t, n) \/ t \in Range(Rest.queue))
      /\ InTurn(Rest.events) => InTurn(timed.events)
      /\ Others(timed.events) = Others(Rest.events)
      /\ StopsFirst(timed.events) /\ Awake(timed)
    BY <1>1, <1>2, SetExpiryTimerKeeps
<1>4. /\ events' = IF Pending(n) /\ n \notin stopped THEN sent ELSE timed.events
      /\ queue' = timed.queue
    BY DEF OnIncomingData, OnOutgoingData
<1> HIDE DEF timed
<1>5. /\ timed.events \in Seq(E) /\ Sorted(timed.events)
      /\ timed.queue \in Seq(TimerType) /\ Sorted(timed.queue)
    BY <1>3 DEF SimType, SortedSim
<1>6. Plain(timed.events) = Plain(Tail(events))
  <2>1. Others(timed.events) = Others(Tail(events))
      BY <1>2, <1>3
  <2> QED
      BY <2>1 DEF Others, Plain
<1>9. \A t \in Range(queue') :
          (Expires(t, n) => t.wait = 0) /\ (Expires(t, n) \/ t \in Range(queue))
    BY <1>2, <1>3, <1>4
<1>10. InTurn(events) => InTurn(timed.events)
    BY <1>2, <1>3
<1>7. CASE ~(Pending(n) /\ n \notin stopped)
  <2>1. Good(E, timed.events, timed.queue)
      BY <1>3, GoodSim
  <2> QED
      BY <1>4, <1>6, <1>7, <1>9, <1>10, <2>1
<1>8. CASE Pending(n) /\ n \notin stopped
  <2>1. e \in E /\ e.kind = "OnData" /\ e.wait = 0
    <3>1. "OnData" \in Kind
        BY DEF Kind
    <3> QED
        BY <3>1 DEF EventSpace, Event
  <2> HIDE DEF e
  <2>2. sent \in Seq(E) /\ Sorted(sent) /\ Range(sent) = Range(timed.events) \cup {e}
      BY <2>1, <1>5, EnqueueSorted
  <2>3. StopsFirst(sent)
      BY <2>1, <1>3, <1>5, EnqueueStopsFirst
  <2>6. InTurn(events) => InTurn(sent)
      BY <2>1, <1>5, <1>10, EnqueueInTurn
  <2> HIDE DEF sent
  <2>4. Awake([events |-> sent, queue |-> timed.queue])
      BY <1>3, <2>2 DEF Awake
  <2>5. Plain(sent) = Plain(timed.events) \cup {e}
      BY <2>1, <2>2 DEF Plain, Callback
  <2> QED
      BY <1>4, <1>5, <1>6, <1>8, <1>9, <2>2, <2>3, <2>4, <2>5, <2>6 DEF Good, e
<1> QED
    BY <1>7, <1>8

LEMMA OnInterestFinalizeKeeps ==
    ASSUME NEW E, EventSpace(E), Good(E, events, queue), OnInterestFinalize, Next1.node \in Node
    PROVE  /\ Good(E, events', queue') /\ Plain(events') = Plain(Tail(events))
           /\ Range(queue') = {t \in Range(queue) : ~Expires(t, Next1.node)}
           /\ InTurn(events) => InTurn(events')
<1> DEFINE n    == Next1.node
           done == CancelTimer(Rest, n)
           evs  == Orphan(done.events, {n})
<1>0. Due(events) /\ Next1.kind = "onInterestFinalize"
    BY DEF OnInterestFinalize, Run
<1>2. /\ Rest \in SimType(E) /\ SortedSim(Rest) /\ StopsFirst(Rest.events)
      /\ Rest.events = Tail(events) /\ Rest.queue = queue /\ Awake(Rest)
      /\ InTurn(events) => InTurn(Rest.events)
    BY <1>0, RestKeeps
<1>3. /\ done \in SimType(E) /\ SortedSim(done)
      /\ Others(done.events) = Others(Rest.events)
      /\ StopsFirst(done.events) /\ Awake(done)
      /\ Range(done.queue) = {t \in Range(Rest.queue) : ~Expires(t, n)}
      /\ InTurn(Rest.events) => InTurn(done.events)
    BY <1>2, CancelTimerKeeps
<1>4. events' = [done EXCEPT !.events = Orphan(done.events, {n})].events
      /\ queue' = [done EXCEPT !.events = Orphan(done.events, {n})].queue
    BY DEF OnInterestFinalize, Becomes
<1> HIDE DEF done
<1>5. events' = evs /\ queue' = done.queue
    BY <1>3, <1>4 DEF SimType
<1>6. /\ done.events \in Seq(E) /\ Sorted(done.events)
      /\ done.queue \in Seq(TimerType) /\ Sorted(done.queue)
    BY <1>3 DEF SimType, SortedSim
<1>7. /\ evs \in Seq(E) /\ Alike(evs, done.events)
      /\ \A i \in DOMAIN done.events :
             done.events[i].kind # "onInterestFinalize" => evs[i] = done.events[i]
    BY <1>6, OrphanKeeps
<1> HIDE DEF evs
<1>8. Sorted(evs) /\ StopsFirst(evs) /\ (InTurn(done.events) => InTurn(evs))
    BY <1>3, <1>6, <1>7, AlikeKeeps
<1>9. Awake([events |-> evs, queue |-> done.queue])
    BY <1>3, <1>7 DEF Awake, Alike, Range
<1>10. Plain(evs) = Plain(done.events)
    BY <1>7 DEF Plain, Alike, Range, Callback
<1>11. Plain(done.events) = Plain(Tail(events))
    BY <1>2, <1>3 DEF Others, Plain
<1> QED
    BY <1>2, <1>3, <1>5, <1>6, <1>7, <1>8, <1>9, <1>10, <1>11 DEF Good

LEMMA ExecuteEventKeeps ==
    ASSUME NEW E, EventSpace(E), Good(E, events, queue), ExecuteEvent, Next1.node \in Forwarder
    PROVE  /\ Good(E, events', queue')
           /\ Plain(events') = Plain(Tail(events))
           /\ \A t \in Range(queue') : t \in Range(queue) \/ t.kind = "mark"
           /\ InTurn(events) => InTurn(events')
<1> DEFINE n       == Next1.node
           expired == {t \in Range(queue) : t.wait = 0}
           ours    == {t \in expired : t.node = n}
           marking == \E t \in ours : t.kind = "mark"
           erased  == IF \E t \in ours : Expires(t, n) THEN {n} ELSE {}
           skipped == Range(queue) \ (expired \ ours)
           others  == Without(queue, skipped)
           quiet   == Forget(Rest)
           calm    == Orphan(quiet, erased)
           calls   == [i \in DOMAIN others |-> Event(others[i].kind, others[i].node, 0)]
           posted  == EnqueueAll(calm, calls)
           left    == Without(queue, expired)
           mark    == Timer("mark", n, MarkInterval)
           again   == IF marking /\ MarksAgain(n) THEN Enqueue(left, mark) ELSE left
           sim     == [events |-> posted, queue |-> again]
           r       == ScheduleNext(sim, n)
<1>0. Due(events) /\ Next1.kind = "executeEvent"
    BY DEF ExecuteEvent, Run
<1>1. events' = r.events /\ queue' = r.queue
    BY DEF ExecuteEvent, Becomes
<1> HIDE DEF expired, ours, skipped, marking, erased
<1>2. /\ Rest \in SimType(E) /\ SortedSim(Rest) /\ StopsFirst(Rest.events)
      /\ Rest.events = Tail(events) /\ queue \in Seq(TimerType) /\ Sorted(queue)
      /\ InTurn(events) => InTurn(Rest.events)
    BY <1>0, RestKeeps DEF Good
<1>3. /\ quiet \in Seq(E) /\ Alike(quiet, Rest.events) /\ Others(quiet) = Others(Rest.events)
    BY <1>2, ForgetKeeps
<1> HIDE DEF quiet
<1>4. /\ calm \in Seq(E) /\ Alike(calm, quiet)
      /\ \A i \in DOMAIN quiet : quiet[i].kind # "onInterestFinalize" => calm[i] = quiet[i]
    BY <1>3, OrphanKeeps
<1> HIDE DEF calm
<1>5. Sorted(calm) /\ StopsFirst(calm) /\ (InTurn(events) => InTurn(calm))
    BY <1>2, <1>3, <1>4, AlikeKeeps DEF SortedSim
<1>6. Plain(calm) = Plain(Tail(events))
  <2>1. Plain(calm) = Plain(quiet)
      BY <1>4 DEF Plain, Alike, Range, Callback
  <2> QED
      BY <2>1, <1>2, <1>3 DEF Plain, Others
<1>7. others \in Seq(TimerType)
    BY <1>2, WithoutSelects
<1> HIDE DEF others
<1>8. calls \in Seq(E) /\ \A i \in DOMAIN calls : calls[i].kind \in Callback /\ calls[i].wait = 0
  <2>1. \A i \in DOMAIN others : others[i] \in TimerType
      BY <1>7
  <2>2. ASSUME NEW i \in DOMAIN others
        PROVE  Event(others[i].kind, others[i].node, 0) \in E /\ others[i].kind \in Callback
    <3>1. /\ others[i].kind \in Callback /\ others[i].node \in Forwarder
          /\ others[i].kind # "mark" => others[i].node \in Node
        BY <2>1, TimerFields
    <3>2. Callback \subseteq Kind
        BY DEF Callback, Kind
    <3> QED
        BY <3>1, <3>2 DEF EventSpace
  <2>4. DOMAIN others = 1 .. Len(others) /\ Len(others) \in Nat
      BY <1>7
  <2>5. calls \in [1 .. Len(others) -> E]
      BY <2>2, <2>4
  <2>6. \A i \in DOMAIN calls : calls[i].kind \in Callback /\ calls[i].wait = 0
      BY <2>2 DEF Event
  <2> HIDE DEF calls
  <2> QED
      BY <2>4, <2>5, <2>6
<1> HIDE DEF calls
<1>9. /\ posted \in Seq(E) /\ Sorted(posted) /\ StopsFirst(posted)
      /\ Range(posted) = Range(calm) \cup Range(calls)
      /\ InTurn(calm) => InTurn(posted)
  <2>1. /\ \A i \in DOMAIN calls : calls[i].wait \in Nat /\ calls[i].kind # "StopApplication"
        /\ AllInTurn(calls)
      BY <1>8 DEF Callback, AllInTurn
  <2> QED
      BY <2>1, <1>4, <1>5, <1>8, EnqueueAllSorted
<1> HIDE DEF posted
<1>10. Plain(posted) = Plain(calm)
    BY <1>8, <1>9 DEF Plain, Range
<1>11. left \in Seq(TimerType) /\ Sorted(left) /\ Range(left) \subseteq Range(queue)
    BY <1>2, WithoutSelects, WithoutSorted
<1>16. mark \in TimerType /\ mark.wait \in Nat /\ mark.kind = "mark"
    BY SubscriptionAssumption DEF Timer, TimerType
<1> HIDE DEF left, mark
<1>17. /\ again \in Seq(TimerType) /\ Sorted(again)
       /\ \A t \in Range(again) : t \in Range(queue) \/ t.kind = "mark"
  <2>1. /\ Enqueue(left, mark) \in Seq(TimerType) /\ Sorted(Enqueue(left, mark))
        /\ Range(Enqueue(left, mark)) = Range(left) \cup {mark}
      BY <1>11, <1>16, EnqueueSorted
  <2> QED
      BY <2>1, <1>11, <1>16
<1> HIDE DEF again
<1>12. sim \in SimType(E) /\ SortedSim(sim) /\ StopsFirst(sim.events) /\ sim.events = posted
       /\ sim.queue = again
    BY <1>9, <1>17 DEF SimType, SortedSim
<1> HIDE DEF sim
<1>13. /\ r \in SimType(E) /\ SortedSim(r) /\ StopsFirst(r.events) /\ Awake(r)
       /\ Others(r.events) = Others(posted) /\ r.queue = again
       /\ InTurn(posted) => InTurn(r.events)
    BY <1>12, ScheduleNextKeeps
<1> HIDE DEF r
<1>14. Good(E, r.events, r.queue)
    BY <1>13, GoodSim
<1>15. Plain(r.events) = Plain(posted)
    BY <1>13 DEF Plain, Others
<1> QED
    BY <1>1, <1>5, <1>6, <1>9, <1>10, <1>13, <1>14, <1>15, <1>17

\* Time passes only when neither queue holds anything that is due.
LEMMA TickKeeps ==
    ASSUME NEW E, EventSpace(E), Good(E, events, queue), Tick
    PROVE  /\ Good(E, events', queue')
           /\ DOMAIN events' = DOMAIN events
           /\ \A i \in DOMAIN events :
                 /\ events[i].wait \in Nat \ {0}
                 /\ events'[i] = [events[i] EXCEPT !.wait = events[i].wait - 1]
                 /\ events'[i].kind = events[i].kind /\ events'[i].node = events[i].node
                 /\ events'[i].wait = events[i].wait - 1 /\ events'[i].valid = events[i].valid
           /\ \A t \in Range(queue') : \E t0 \in Range(queue) :
                 t.kind = t0.kind /\ t.node = t0.node /\ t.wait = t0.wait - 1
           /\ InTurn(events) => InTurn(events')
<1> DEFINE evs == Later(events)
           q   == Later(queue)
<1>1. /\ events \in Seq(E) /\ Sorted(events) /\ StopsFirst(events)
      /\ queue \in Seq(TimerType) /\ Sorted(queue)
    BY DEF Good
<1>2. ~Due(events) /\ events' = evs /\ queue' = q
    BY DEF Tick
<1>3. ASSUME NEW i \in DOMAIN events
      PROVE  events[i] \in E /\ events[i].wait \in Nat \ {0}
  <2>1. events # <<>> /\ 1 \in DOMAIN events /\ 1 <= i
      BY <1>1
  <2>2. events[1].wait <= events[i].wait /\ events[1].wait \in Nat /\ events[i].wait \in Nat
      BY <2>1, <1>1 DEF Sorted
  <2> QED
      BY <2>1, <2>2, <1>1, <1>2 DEF Due
<1>4. ASSUME NEW i \in DOMAIN queue
      PROVE  queue[i] \in TimerType /\ queue[i].wait \in Nat \ {0}
  <2>1. queue # <<>> /\ 1 \in DOMAIN queue /\ 1 <= i
      BY <1>1
  <2>2. PICK e \in Range(events) : e.wait = queue[1].wait
      BY <2>1 DEF Good, Awake
  <2>3. queue[1].wait # 0
      BY <2>2, <1>3 DEF Range
  <2>4. queue[1].wait <= queue[i].wait /\ queue[1].wait \in Nat /\ queue[i].wait \in Nat
      BY <2>1, <1>1 DEF Sorted
  <2> QED
      BY <2>1, <2>3, <2>4, <1>1
<1>5. /\ DOMAIN evs = DOMAIN events
      /\ \A i \in DOMAIN events : evs[i] = [events[i] EXCEPT !.wait = events[i].wait - 1]
    BY DEF Later
<1>6. ASSUME NEW i \in DOMAIN events
      PROVE  /\ evs[i] \in E
             /\ evs[i].kind = events[i].kind /\ evs[i].node = events[i].node
             /\ evs[i].wait = events[i].wait - 1 /\ evs[i].valid = events[i].valid
  <2>1. events[i] \in [kind : AnyKind, node : Nat, wait : Nat, valid : BOOLEAN]
      BY <1>3 DEF EventSpace
  <2> QED
      BY <2>1, <1>3, <1>5 DEF EventSpace
<1>7. evs \in Seq(E)
  <2>1. DOMAIN events = 1 .. Len(events) /\ Len(events) \in Nat
      BY <1>1
  <2>2. evs = [i \in 1 .. Len(events) |-> evs[i]]
      BY <2>1 DEF Later
  <2>3. evs \in [1 .. Len(events) -> E]
      BY <1>6, <2>1, <2>2
  <2> HIDE DEF evs
  <2> QED
      BY <2>1, <2>3
<1>8. /\ q \in Seq(TimerType) /\ DOMAIN q = DOMAIN queue
      /\ \A i \in DOMAIN queue : /\ q[i].kind = queue[i].kind /\ q[i].node = queue[i].node
                                 /\ q[i].wait = queue[i].wait - 1
  <2>1. DOMAIN queue = 1 .. Len(queue) /\ Len(queue) \in Nat
      BY <1>1
  <2>2. ASSUME NEW i \in DOMAIN queue
        PROVE  /\ q[i] \in TimerType /\ q[i].kind = queue[i].kind /\ q[i].node = queue[i].node
               /\ q[i].wait = queue[i].wait - 1
    <3>1. q[i] = [queue[i] EXCEPT !.wait = queue[i].wait - 1]
        BY DEF Later
    <3>2. queue[i] \in TimerType /\ queue[i].wait \in Nat \ {0}
        BY <1>4
    <3>3. CASE queue[i] \in [kind : {"onInterestFinalize"}, node : Node, wait : 0 .. LifeTime]
      <4>1. queue[i].wait - 1 \in 0 .. LifeTime
          BY <3>2, <3>3, SubscriptionAssumption
      <4> QED
          BY <3>1, <3>3, <4>1 DEF TimerType
    <3>4. CASE queue[i] \in [kind : {"mark"}, node : Forwarder, wait : 0 .. MarkInterval]
      <4>1. queue[i].wait - 1 \in 0 .. MarkInterval
          BY <3>2, <3>4, SubscriptionAssumption
      <4> QED
          BY <3>1, <3>4, <4>1 DEF TimerType
    <3>5. CASE queue[i] \in [kind : {"deallocate"}, node : Node, wait : {0}]
        BY <3>2, <3>5
    <3> QED
        BY <3>2, <3>3, <3>4, <3>5 DEF TimerType
  <2>3. q = [i \in 1 .. Len(queue) |-> q[i]]
      BY <2>1 DEF Later
  <2>4. q \in [1 .. Len(queue) -> TimerType]
      BY <2>1, <2>2, <2>3
  <2> HIDE DEF q
  <2> QED
      BY <2>1, <2>2, <2>4
<1> HIDE DEF evs, q
<1>9. Sorted(evs)
    BY <1>1, <1>3, <1>5, <1>6 DEF Sorted
<1>10. Sorted(q)
  <2>1. /\ DOMAIN q = DOMAIN queue
        /\ \A i \in DOMAIN queue : q[i].wait = queue[i].wait - 1 /\ queue[i].wait \in Nat \ {0}
      BY <1>4, <1>8
  <2>2. \A i, j \in DOMAIN queue : i <= j => queue[i].wait <= queue[j].wait
      BY <1>1 DEF Sorted
  <2>3. \A i \in DOMAIN q : q[i].wait \in Nat
      BY <2>1
  <2>4. \A i, j \in DOMAIN q : i <= j => q[i].wait <= q[j].wait
      BY <2>1, <2>2
  <2> QED
      BY <2>3, <2>4 DEF Sorted
<1>11. StopsFirst(evs) /\ (InTurn(events) => InTurn(evs))
    BY <1>1, <1>3, <1>5, <1>6 DEF StopsFirst, InTurn
<1>13. \A t \in Range(q) : \E t0 \in Range(queue) :
           t.kind = t0.kind /\ t.node = t0.node /\ t.wait = t0.wait - 1
    BY <1>8 DEF Range
<1>12. Awake([events |-> evs, queue |-> q])
  <2> SUFFICES ASSUME q # <<>>
               PROVE  \E e \in Range(evs) : e.kind = "executeEvent" /\ e.wait = q[1].wait
      BY DEF Awake
  <2>1. queue # <<>> /\ 1 \in DOMAIN queue
      BY <1>1, <1>8
  <2>2. PICK i \in DOMAIN events : events[i].kind = "executeEvent" /\ events[i].wait = queue[1].wait
      BY <2>1 DEF Good, Awake, Range
  <2>3. evs[i].kind = "executeEvent" /\ evs[i].wait = q[1].wait
      BY <2>1, <2>2, <1>6, <1>8
  <2> QED
      BY <2>3, <1>5 DEF Range
<1> QED
    BY <1>2, <1>3, <1>5, <1>6, <1>7, <1>8, <1>9, <1>10, <1>11, <1>12, <1>13 DEF Good

LEMMA ArrivalsType ==
    ASSUME NEW E, EventSpace(E), NEW receivers \in SUBSET Node,
           NEW delay \in [receivers -> 1 .. MaxDelay]
    PROVE  /\ Arrivals(receivers, delay) \in Seq(E)
           /\ \A i \in DOMAIN Arrivals(receivers, delay) :
                 LET e == Arrivals(receivers, delay)[i]
                 IN  /\ e.kind = "receive" /\ e.node \in receivers
                     /\ e.wait \in 1 .. MaxDelay /\ e.valid = TRUE
           /\ \A n \in receivers : \E e \in Range(Arrivals(receivers, delay)) : e.node = n
<1> DEFINE order == InOrder(receivers)
           a     == [i \in DOMAIN order |-> Event("receive", order[i], delay[order[i]])]
<1>1. receivers \in SUBSET Nat /\ IsFiniteSet(receivers) /\ MaxDelay \in Nat
    BY SubscriptionAssumption, FS_Subset
<1>2. /\ order \in [1 .. Cardinality(receivers) -> receivers] /\ Cardinality(receivers) \in Nat
      /\ Range(order) = receivers
    BY <1>1, InOrderListing, FS_CardinalityType
<1>3. Arrivals(receivers, delay) = a
    BY DEF Arrivals
<1> HIDE DEF order
<1>4. ASSUME NEW i \in DOMAIN order
      PROVE  /\ a[i] \in E /\ a[i].kind = "receive" /\ a[i].node \in receivers
             /\ a[i].wait \in 1 .. MaxDelay /\ a[i].valid = TRUE
  <2>1. order[i] \in receivers /\ delay[order[i]] \in 1 .. MaxDelay
      BY <1>2
  <2>2. "receive" \in Kind /\ delay[order[i]] \in Nat
      BY <1>1, <2>1 DEF Kind
  <2>3. Event("receive", order[i], delay[order[i]]) \in E
      BY <2>1, <2>2 DEF EventSpace
  <2> QED
      BY <2>1, <2>3 DEF Event
<1>5. DOMAIN a = DOMAIN order /\ a \in [1 .. Cardinality(receivers) -> E]
    BY <1>2, <1>4
<1>7. \A n \in receivers : \E e \in Range(a) : e.node = n
  <2>1. \A i \in DOMAIN order : a[i].node = order[i]
      BY DEF Event
  <2> HIDE DEF a
  <2> QED
      BY <2>1, <1>2, <1>5 DEF Range
<1> HIDE DEF a
<1>6. a \in Seq(E)
    BY <1>2, <1>5
<1> QED
    BY <1>3, <1>4, <1>5, <1>6, <1>7

\* What is sent arrives; nothing else changes.
LEMMA SendingKeeps ==
    ASSUME NEW E, EventSpace(E), NEW evs, NEW q, Good(E, evs, q), NEW receivers \in SUBSET Node,
           NEW delay \in [receivers -> 1 .. MaxDelay]
    PROVE  LET sent == EnqueueAll(evs, Arrivals(receivers, delay))
           IN  /\ Good(E, sent, q)
               /\ Range(sent) = Range(evs) \cup Range(Arrivals(receivers, delay))
               /\ InTurn(evs) => InTurn(sent)
<1> DEFINE a    == Arrivals(receivers, delay)
           sent == EnqueueAll(evs, a)
<1>1. a \in Seq(E) /\ \A i \in DOMAIN a : a[i].kind = "receive" /\ a[i].wait \in 1 .. MaxDelay
    BY ArrivalsType
<1> HIDE DEF a
<1>2. evs \in Seq(E) /\ Sorted(evs) /\ StopsFirst(evs)
    BY DEF Good
<1>3. \A i \in DOMAIN a : a[i].wait \in Nat \ {0} /\ a[i].kind = "receive"
    BY <1>1, SubscriptionAssumption
<1>6. AllInTurn(a)
    BY <1>3 DEF AllInTurn
<1>4. /\ sent \in Seq(E) /\ Sorted(sent) /\ StopsFirst(sent)
      /\ Range(sent) = Range(evs) \cup Range(a)
      /\ InTurn(evs) => InTurn(sent)
    BY <1>1, <1>2, <1>3, <1>6, EnqueueAllSorted
<1> HIDE DEF sent
<1>5. Awake([events |-> sent, queue |-> q])
    BY <1>4 DEF Good, Awake
<1> QED
    BY <1>4, <1>5 DEF Good, a, sent

-----------------------------------------------------------------------------
(***************************************************************************)
(* The inductive invariant of Subscription.                                *)
(***************************************************************************)
EventType ==
    {e \in [kind : Kind, node : Forwarder, wait : Nat, valid : BOOLEAN] :
        e.kind \in {"mark", "executeEvent"} \/ e.node \in Node}

LEMMA EventTypeIsSpace == EventSpace(EventType)
<1>0. Forwarder \subseteq Nat /\ Node \subseteq Forwarder
    BY SubscriptionAssumption
<1>1. EventType \subseteq [kind : AnyKind, node : Nat, wait : Nat, valid : BOOLEAN]
    BY <1>0 DEF EventType, AnyKind
<1>2. \A e \in EventType : [e EXCEPT !.valid = FALSE] \in EventType
    BY DEF EventType
<1>3. ASSUME NEW e \in EventType, e.wait # 0 PROVE [e EXCEPT !.wait = e.wait - 1] \in EventType
  <2>1. e.wait - 1 \in Nat
      BY <1>3 DEF EventType
  <2> QED
      BY <2>1 DEF EventType
<1>4. \A kind \in Kind, n \in Node, w \in Nat : Event(kind, n, w) \in EventType
    BY <1>0 DEF EventType, Event
<1>5. \A kind \in {"executeEvent", "mark"}, n \in Forwarder, w \in Nat :
          Event(kind, n, w) \in EventType
    BY DEF EventType, Event, Kind
<1> QED
    BY <1>1, <1>2, <1>3, <1>4, <1>5 DEF EventSpace

PitType ==
    /\ entry \subseteq Node
    /\ inRecord \in [Node -> {NoRecord} \cup 0 .. LifeTime]
    /\ stopped \subseteq DOMAIN StopTime
    /\ marks \in [Forwarder -> 0 .. MaxMarks]
    /\ lost \subseteq Node \ entry

LEMMA MarkedType ==
    ASSUME PitType, NEW n \in Forwarder
    PROVE  Marked(n) \in [Forwarder -> 0 .. MaxMarks]
  BY SubscriptionAssumption DEF PitType, Marked, MarksAgain

\* Only those applications stop that are to stop.
StopsArePlanned ==
    \A e \in Range(events) : e.kind = "StopApplication" => e.node \in DOMAIN StopTime

\* Data handed to an application is handled in the same instant, and stops of
\* this instant are past.
DataIsForNow ==
    \A e \in Range(events) : e.kind = "OnData" =>
        /\ e.wait = 0 /\ e.node \notin stopped
        /\ \A d \in Range(events) : d.kind = "StopApplication" => d.wait # 0

SubInv == Good(EventType, events, queue) /\ PitType /\ StopsArePlanned /\ DataIsForNow

-----------------------------------------------------------------------------
(***************************************************************************)
(* Init: one node after the other.                                         *)
(***************************************************************************)
MarkAhead(evs) == \E e \in Range(evs) : e.kind = "executeEvent" /\ e.wait = MarkInterval

LEMMA FirstMarkIsAhead ==
    /\ \E n \in Forwarder : FirstWakeUp = Event("executeEvent", n, MarkInterval)
    /\ MarkAhead(<<FirstWakeUp>>)
    /\ FirstMarks \in Seq(TimerType) /\ Sorted(FirstMarks)
    /\ FirstMarks # <<>> /\ FirstMarks[1].wait = MarkInterval
    /\ \A t \in Range(FirstMarks) : t.kind = "mark"
<1> DEFINE order == InOrder(Forwarder)
           m == [i \in DOMAIN order |-> Timer("mark", order[i], MarkInterval)]
           c == Cardinality(Forwarder)
<1>1. c \in Nat \ {0} /\ MarkInterval \in Nat
    BY SubscriptionAssumption, FS_CardinalityType, FS_EmptySet
<1>2. order \in [1 .. c -> Forwarder]
    BY SubscriptionAssumption, InOrderListing
<1>3. FirstMarks = m
    BY DEF FirstMarks
<1>4. FirstWakeUp = Event("executeEvent", order[1], MarkInterval)
    BY DEF FirstWakeUp
<1> HIDE DEF order, c
<1>5. 1 \in 1 .. c /\ DOMAIN m = 1 .. c
    BY <1>1, <1>2
<1>6. \A i \in 1 .. c :
          /\ m[i] \in TimerType /\ m[i].wait = MarkInterval /\ m[i].kind = "mark"
    BY <1>1, <1>2 DEF Timer, TimerType
<1> HIDE DEF m
<1>7. m \in [1 .. c -> TimerType]
  <2>1. m = [i \in 1 .. c |-> m[i]]
      BY <1>2 DEF m
  <2> QED
      BY <2>1, <1>6
<1>8. m \in Seq(TimerType) /\ m # <<>>
    BY <1>1, <1>5, <1>7
<1>9. Sorted(m)
    BY <1>1, <1>5, <1>6 DEF Sorted
<1>10. \A t \in Range(m) : t.kind = "mark"
    BY <1>5, <1>6 DEF Range
<1>11. MarkAhead(<<FirstWakeUp>>)
    BY <1>4 DEF MarkAhead, Range, Event
<1>12. order[1] \in Forwarder
    BY <1>2, <1>5
<1> QED
    BY <1>3, <1>4, <1>5, <1>6, <1>8, <1>9, <1>10, <1>11, <1>12

Planned ==
    {e \in EventType : /\ e.kind \in Early
                       /\ e.kind = "StopApplication" => e.node \in DOMAIN StopTime}

Plans == {s \in Seq(Planned) : Sorted(s) /\ MarkAhead(s)}

LEMMA InstallKeeps ==
    ASSUME NEW evs \in Plans, NEW n \in Node
    PROVE  Install(evs, n) \in Plans
<1> DEFINE e == Event("StartApplication", n, StartTime[n])
           d == Event("StopApplication", n, StopTime[n])
           started == Enqueue(evs, e)
<1>1. e \in Planned /\ e.wait \in Nat
    BY SubscriptionAssumption DEF Planned, EventType, Event, Early, Scripted, Kind
<1>2. evs \in Seq(Planned) /\ Sorted(evs) /\ MarkAhead(evs)
    BY DEF Plans
<1> HIDE DEF e
<1>3. started \in Seq(Planned) /\ Sorted(started) /\ MarkAhead(started)
    BY <1>1, <1>2, EnqueueSorted DEF MarkAhead
<1>4. Install(evs, n) = IF n \in DOMAIN StopTime THEN Enqueue(started, d) ELSE started
    BY DEF Install, e
<1>5. CASE n \in DOMAIN StopTime
  <2>1. d \in Planned /\ d.wait \in Nat
      BY <1>5, SubscriptionAssumption DEF Planned, EventType, Event, Early, Scripted, Kind
  <2> HIDE DEF d, started
  <2>2. /\ Enqueue(started, d) \in Seq(Planned) /\ Sorted(Enqueue(started, d))
        /\ MarkAhead(Enqueue(started, d))
      BY <1>3, <2>1, EnqueueSorted DEF MarkAhead
  <2> QED
      BY <1>4, <1>5, <2>2 DEF Plans
<1>6. CASE n \notin DOMAIN StopTime
    BY <1>3, <1>4, <1>6 DEF Plans
<1> QED
    BY <1>5, <1>6

LEMMA InstalledIsPlanned == Installed \in Plans
<1> DEFINE order == InOrder(Node)
           base == <<FirstWakeUp>>
           n == Len(order)
           Loop(f) == [i \in 0 .. n |-> IF i = 0 THEN base ELSE Install(f[i - 1], order[i])]
           step == [k \in 1 .. n |-> [s \in Plans |-> Install(s, order[k])]]
<1>1. order \in [1 .. Cardinality(Node) -> Node] /\ Cardinality(Node) \in Nat
  <2>1. Node \in SUBSET Nat /\ IsFiniteSet(Node)
      BY SubscriptionAssumption, FS_Subset
  <2> QED
      BY <2>1, InOrderListing, FS_CardinalityType
<1>2. n \in Nat /\ \A k \in 1 .. n : order[k] \in Node
  <2>1. order \in Seq(Node)
      BY <1>1
  <2> HIDE DEF order
  <2> QED
      BY <2>1
<1>3. base \in Plans
  <2>1. PICK m \in Forwarder : FirstWakeUp = Event("executeEvent", m, MarkInterval)
      BY FirstMarkIsAhead
  <2>2. FirstWakeUp \in Planned /\ FirstWakeUp.wait \in Nat
      BY <2>1, SubscriptionAssumption DEF Planned, EventType, Event, Early, Kind
  <2>3. Sorted(base)
      BY <2>2 DEF Sorted
  <2> QED
      BY <2>2, <2>3, FirstMarkIsAhead DEF Plans
<1>4. Installing = CHOOSE g : g = Loop(g)
    BY DEF Installing
<1> HIDE DEF order, n, base
<1>5. \A k \in 1 .. n : \A s \in Plans : Install(s, order[k]) \in Plans
    BY <1>2, InstallKeeps
<1>6. \A k \in 1 .. n : \A s \in Plans : step[k][s] = Install(s, order[k])
    OBVIOUS
<1>7. step \in [1 .. n -> [Plans -> Plans]]
    BY <1>5
<1> HIDE DEF step
<1>8. PICK f \in [0 .. n -> Plans] : IsRun(f, base, step, n)
    BY <1>2, <1>3, <1>7, RecursionExists
<1>9. f[0] = base /\ \A k \in 1 .. n : f[k] = step[k][f[k - 1]]
    BY <1>8 DEF IsRun
<1>10. f = Loop(f)
  <2>1. ASSUME NEW k \in 1 .. n PROVE f[k] = Install(f[k - 1], order[k])
    <3>1. f[k - 1] \in Plans
        BY <1>2
    <3> QED
        BY <3>1, <1>6, <1>9
  <2>2. \A k \in 0 .. n : k = 0 \/ k \in 1 .. n
      BY <1>2
  <2>3. \A k \in 0 .. n : f[k] = Loop(f)[k]
      BY <2>1, <2>2, <1>9
  <2> QED
      BY <2>3
<1> DEFINE done == Installing
<1>11. done = Loop(done)
    BY <1>4, <1>10
<1> HIDE DEF done
<1>12. \A k \in 0 .. n : done[k] \in Plans
  <2>1. \A k \in 1 .. n : k \in 0 .. n /\ k # 0
      BY <1>2
  <2>2. 0 \in 0 .. n
      BY <1>2
  <2>3. \A k \in 1 .. n : done[k - 1] \in Plans => done[k] \in Plans
      BY <2>1, <1>5, <1>11
  <2>4. done[0] \in Plans
      BY <2>2, <1>3, <1>11
  <2> QED
      BY <1>2, <2>3, <2>4, UpToStays
<1>13. done[n] \in Plans
    BY <1>2, <1>12
<1> QED
    BY <1>13 DEF Installed, done, n, order

LEMMA InitSubInv == Init => SubInv
<1> SUFFICES ASSUME Init PROVE SubInv
    OBVIOUS
<1>1. events \in Seq(Planned) /\ Sorted(events) /\ MarkAhead(events) /\ queue = FirstMarks
    BY InstalledIsPlanned DEF Init, Plans
<1>2. \A i \in DOMAIN events : events[i] \in Planned
    BY <1>1
<1>3. events \in Seq(EventType)
    BY <1>1 DEF Planned
<1>4. StopsFirst(events)
    BY <1>2 DEF StopsFirst, Planned
<1>5. Good(EventType, events, queue)
    BY <1>1, <1>3, <1>4, FirstMarkIsAhead DEF Good, Awake, MarkAhead
<1>6. PitType
    BY SubscriptionAssumption DEF Init, PitType
<1>7. StopsArePlanned /\ DataIsForNow
    BY <1>2 DEF StopsArePlanned, DataIsForNow, Range, Planned, Early, Scripted
<1> QED
    BY <1>5, <1>6, <1>7 DEF SubInv

-----------------------------------------------------------------------------
(***************************************************************************)
(* Next.  The two parts about plain events hold after a step that adds     *)
(* none of the events they are about.                                      *)
(***************************************************************************)
LEMMA PlainKeeps ==
    ASSUME StopsArePlanned, DataIsForNow, stopped' = stopped,
           \A e \in Plain(events') :
               e \in Range(events) \/ e.kind \notin {"StopApplication", "OnData"}
    PROVE  StopsArePlanned' /\ DataIsForNow'
<1>1. \A e \in Range(events') : e.kind \in {"StopApplication", "OnData"} => e \in Range(events)
    BY DEF Plain, Callback
<1> QED
    BY <1>1 DEF StopsArePlanned, DataIsForNow

LEMMA NextSubInv == SubInv /\ [Next]_vars => SubInv'
<1> SUFFICES ASSUME SubInv, [Next]_vars PROVE SubInv'
    OBVIOUS
<1> USE EventTypeIsSpace
<1>1. Good(EventType, events, queue) /\ PitType /\ StopsArePlanned /\ DataIsForNow
    BY DEF SubInv
<1>2. ASSUME Due(events)
      PROVE  /\ Next1 \in EventType /\ Next1.node \in Forwarder
             /\ Next1.kind \in {"mark", "executeEvent"} \/ Next1.node \in Node
             /\ Range(events) = Range(Tail(events)) \cup {Next1}
             /\ Plain(Tail(events)) \subseteq Range(events)
  <2>1. Next1 \in EventType /\ Range(events) = Range(Tail(events)) \cup {Next1}
      BY <1>1, <1>2, RestKeeps
  <2> QED
      BY <2>1 DEF EventType, Plain
<1>3. ASSUME Due(events), RegisterInterest,
             Next1.kind \in {"StartApplication", "OnData", "OnTimeout"}
      PROVE  SubInv'
  <2>1. /\ Good(EventType, events', queue')
        /\ Plain(events') =
               {e \in Plain(Tail(events)) : ~(e.kind = "OnTimeout" /\ e.node = Next1.node)}
                   \cup {Event("OnTimeout", Next1.node, LifeTime)}
      BY <1>1, <1>2, <1>3, RegisterInterestKeeps
  <2>2. PitType'
    <3>1. LifeTime \in 0 .. LifeTime
        BY SubscriptionAssumption
    <3> QED
        BY <3>1, <1>1, <1>2, <1>3 DEF RegisterInterest, PitType
  <2>3. StopsArePlanned' /\ DataIsForNow'
    <3>1. Event("OnTimeout", Next1.node, LifeTime).kind = "OnTimeout"
        BY DEF Event
    <3>2. stopped' = stopped
        BY <1>3 DEF RegisterInterest
    <3> QED
        BY <3>1, <3>2, <2>1, <1>1, <1>2, <1>3, PlainKeeps
  <2> QED
      BY <2>1, <2>2, <2>3 DEF SubInv
<1>4. CASE StartApplication \/ OnData \/ OnTimeout
    BY <1>3, <1>4 DEF StartApplication, OnData, OnTimeout, Run
<1>5. CASE StopApplication
  <2>1. /\ Due(events) /\ Next1.kind = "StopApplication"
        /\ Becomes(Schedule(Rest, "deallocate", Next1.node, 0))
      BY <1>5 DEF StopApplication, Run
  <2>8. Timer("deallocate", Next1.node, 0) \in TimerType
      BY <1>2, <2>1 DEF Timer, TimerType
  <2>2. Good(EventType, events', queue') /\ Plain(events') = Plain(Tail(events))
      BY <1>1, <1>2, <2>1, <2>8, SchedulingKeeps
  <2>3. Next1 \in Range(events) /\ Next1.wait = 0 /\ Next1.node \in DOMAIN StopTime
      BY <1>1, <1>2, <2>1, RestKeeps DEF StopsArePlanned
  <2>4. PitType'
      BY <2>3, <1>1, <1>5 DEF StopApplication, PitType
  <2>5. StopsArePlanned'
      BY <1>1, <1>2, <2>1, <2>2 DEF StopsArePlanned, Plain, Callback
  <2>6. \A e \in Range(events) : e.kind # "OnData"
      BY <1>1, <2>1, <2>3 DEF DataIsForNow
  <2>7. \A e \in Range(events') : e.kind # "OnData"
      BY <1>2, <2>1, <2>2, <2>6 DEF Plain, Callback
  <2> QED
      BY <2>2, <2>4, <2>5, <2>7 DEF SubInv, DataIsForNow
<1>6. CASE DataUnsolicited
  <2>1. Due(events) /\ Next1.kind = "receive" /\ Becomes(Rest)
      BY <1>6 DEF DataUnsolicited, Run
  <2>2. Good(EventType, events', queue') /\ Plain(events') = Plain(Tail(events))
      BY <1>1, <2>1, RestIsGood
  <2>3. PitType'
      BY <1>1, <1>6 DEF DataUnsolicited, PitType
  <2>4. StopsArePlanned' /\ DataIsForNow'
      BY <2>1, <2>2, <1>1, <1>2, <1>6, PlainKeeps DEF DataUnsolicited
  <2> QED
      BY <2>2, <2>3, <2>4 DEF SubInv
<1>7. CASE OnIncomingData
  <2> DEFINE n == Next1.node
             e == Event("OnData", n, 0)
  <2>1. Due(events) /\ Next1.kind = "receive" /\ stopped' = stopped
      BY <1>7 DEF OnIncomingData, Run
  <2>2. /\ Good(EventType, events', queue')
        /\ Plain(events') = Plain(Tail(events)) \cup (IF Pending(n) /\ n \notin stopped THEN {e} ELSE {})
      BY <1>1, <1>2, <1>7, <2>1, OnIncomingDataKeeps
  <2>3. PitType'
      BY <1>1, <1>7 DEF OnIncomingData, PitType
  <2>4. e.kind = "OnData" /\ e.wait = 0 /\ e.node = n
      BY DEF Event
  <2> HIDE DEF e, n
  <2>5. \A d \in Range(events') : d.kind \in {"StopApplication", "OnData"} =>
            d \in Range(Tail(events)) \/ (d = e /\ n \notin stopped)
      BY <2>2 DEF Plain, Callback
  <2>6. \A d \in Range(Tail(events)) : d.kind = "StopApplication" => d.wait # 0
      BY <1>1, <2>1, RestKeeps DEF Early, Scripted
  <2>7. StopsArePlanned'
      BY <1>1, <1>2, <2>1, <2>4, <2>5 DEF StopsArePlanned
  <2>8. DataIsForNow'
      BY <1>1, <1>2, <2>1, <2>4, <2>5, <2>6 DEF DataIsForNow
  <2> QED
      BY <2>2, <2>3, <2>7, <2>8 DEF SubInv
<1>8. CASE ExecuteEvent
  <2>1. Due(events) /\ stopped' = stopped
      BY <1>8 DEF ExecuteEvent, Run
  <2>5. Marked(Next1.node) \in [Forwarder -> 0 .. MaxMarks]
      BY <1>1, <1>2, <2>1, MarkedType
  <2>2. Good(EventType, events', queue') /\ Plain(events') = Plain(Tail(events))
      BY <1>1, <1>2, <1>8, <2>1, ExecuteEventKeeps
  <2>3. PitType'
      BY <1>1, <1>8, <2>5 DEF ExecuteEvent, PitType
  <2>4. StopsArePlanned' /\ DataIsForNow'
      BY <2>1, <2>2, <1>1, <1>2, PlainKeeps
  <2> QED
      BY <2>2, <2>3, <2>4 DEF SubInv
<1>9. CASE OnInterestFinalize
  <2>1. Due(events) /\ stopped' = stopped /\ Next1.kind = "onInterestFinalize"
      BY <1>9 DEF OnInterestFinalize, Run
  <2>5. Next1.node \in Node
      BY <1>2, <2>1
  <2>2. Good(EventType, events', queue') /\ Plain(events') = Plain(Tail(events))
      BY <1>1, <1>9, <2>5, OnInterestFinalizeKeeps
  <2>3. PitType'
      BY <1>1, <1>9, <2>5 DEF OnInterestFinalize, PitType
  <2>4. StopsArePlanned' /\ DataIsForNow'
      BY <2>1, <2>2, <1>1, <1>2, PlainKeeps
  <2> QED
      BY <2>2, <2>3, <2>4 DEF SubInv
<1>10. CASE Tick
  <2>1. /\ Good(EventType, events', queue')
        /\ DOMAIN events' = DOMAIN events
        /\ \A i \in DOMAIN events :
              /\ events[i].wait \in Nat \ {0}
              /\ events'[i].kind = events[i].kind /\ events'[i].node = events[i].node
      BY <1>1, <1>10, TickKeeps
  <2>2. PitType'
    <3>1. \A r \in {NoRecord} \cup 0 .. LifeTime : r # NoRecord /\ r # 0 => r - 1 \in 0 .. LifeTime
        BY SubscriptionAssumption
    <3> QED
        BY <3>1, <1>1, <1>10 DEF Tick, PitType, Pending
  <2>3. StopsArePlanned'
      BY <1>1, <2>1 DEF StopsArePlanned, Range
  <2>4. \A i \in DOMAIN events : events[i].kind # "OnData"
      BY <1>1, <2>1 DEF DataIsForNow, Range
  <2>5. DataIsForNow'
      BY <2>1, <2>4 DEF DataIsForNow, Range
  <2> QED
      BY <2>1, <2>2, <2>3, <2>5 DEF SubInv
<1>11. CASE Send
  <2>0. PICK receivers \in SUBSET Node :
            \E delay \in [receivers -> 1 .. MaxDelay] :
                events' = EnqueueAll(events, Arrivals(receivers, delay))
      BY <1>11 DEF Send
  <2>1. PICK delay \in [receivers -> 1 .. MaxDelay] :
            events' = EnqueueAll(events, Arrivals(receivers, delay))
      BY <2>0
  <2>2. queue' = queue /\ UNCHANGED <<entry, inRecord, stopped, marks, lost>>
      BY <1>11 DEF Send
  <2>3. /\ Good(EventType, events', queue)
        /\ Range(events') = Range(events) \cup Range(Arrivals(receivers, delay))
      BY <1>1, <2>1, SendingKeeps
  <2>4. \A e \in Range(Arrivals(receivers, delay)) : e.kind = "receive"
    <3>1. \A i \in DOMAIN Arrivals(receivers, delay) : Arrivals(receivers, delay)[i].kind = "receive"
        BY ArrivalsType
    <3> QED
        BY <3>1 DEF Range
  <2>5. PitType'
      BY <1>1, <2>2 DEF PitType
  <2>6. StopsArePlanned' /\ DataIsForNow'
      BY <2>2, <2>3, <2>4, <1>1, PlainKeeps DEF Plain
  <2> QED
      BY <2>2, <2>3, <2>5, <2>6 DEF SubInv
<1>12. CASE UNCHANGED vars
    BY <1>12, <1>1 DEF vars, SubInv, PitType, StopsArePlanned, DataIsForNow
<1>13. CASE Mark
  <2>1. Due(events) /\ Next1.kind = "mark" /\ stopped' = stopped
      BY <1>13 DEF Mark, Run
  <2>2. Timer("mark", Next1.node, MarkInterval) \in TimerType /\ MarkInterval \in Nat
      BY <1>2, <2>1, SubscriptionAssumption DEF Timer, TimerType
  <2>3. Becomes(Rest) \/ Becomes(Schedule(Rest, "mark", Next1.node, MarkInterval))
      BY <1>13 DEF Mark
  <2>4. Good(EventType, events', queue') /\ Plain(events') = Plain(Tail(events))
      BY <1>1, <1>2, <2>1, <2>2, <2>3, RestIsGood, SchedulingKeeps
  <2>5. Marked(Next1.node) \in [Forwarder -> 0 .. MaxMarks]
      BY <1>1, <1>2, <2>1, MarkedType
  <2>6. PitType'
      BY <1>1, <1>13, <2>5 DEF Mark, PitType
  <2>7. StopsArePlanned' /\ DataIsForNow'
      BY <2>1, <2>4, <1>1, <1>2, PlainKeeps
  <2> QED
      BY <2>4, <2>6, <2>7 DEF SubInv
<1>14. CASE Deallocate
  <2>1. Due(events) /\ Next1.kind = "deallocate" /\ Becomes(Rest) /\ stopped' = stopped
      BY <1>14 DEF Deallocate, Run
  <2>2. Good(EventType, events', queue') /\ Plain(events') = Plain(Tail(events))
      BY <1>1, <2>1, RestIsGood
  <2>3. PitType'
      BY <1>1, <1>14 DEF Deallocate, PitType
  <2>4. StopsArePlanned' /\ DataIsForNow'
      BY <2>1, <2>2, <1>1, <1>2, PlainKeeps
  <2> QED
      BY <2>2, <2>3, <2>4 DEF SubInv
<1> QED
    BY <1>4, <1>5, <1>6, <1>7, <1>8, <1>9, <1>10, <1>11, <1>12, <1>13, <1>14 DEF Next, Dispatch

LEMMA SubInvHolds == Spec => []SubInv
<1>1. Init => SubInv
    BY InitSubInv
<1>2. SubInv /\ [Next]_vars => SubInv'
    BY NextSubInv
<1> QED
    BY <1>1, <1>2, PTL DEF Spec

-----------------------------------------------------------------------------
(* Both queues stay sorted and hold the items they should, whatever is        *)
(* scheduled and cancelled by AlertConsumer and the PIT: a wait never gets    *)
(* negative, no timer outlasts the lifetime of an interest.                   *)
THEOREM SubscriptionTypes == Spec => []TypeOK
<1>1. SubInv => TypeOK
  <2> SUFFICES ASSUME SubInv PROVE TypeOK
      OBVIOUS
  <2>1. events \in Seq(EventType) /\ Sorted(events) /\ queue \in Seq(TimerType) /\ Sorted(queue)
      BY DEF SubInv, Good
  <2>2. ASSUME NEW i \in DOMAIN events
        PROVE  /\ events[i] \in [kind : Kind, node : Forwarder, wait : Nat, valid : BOOLEAN]
               /\ events[i].kind \in {"mark", "executeEvent"} \/ events[i].node \in Node
               /\ \A j \in 1 .. i : events[j].wait <= events[i].wait
    <3>1. \A j \in 1 .. i : j \in DOMAIN events /\ j <= i
        BY <2>1
    <3>2. events[i] \in EventType
        BY <2>1
    <3>3. \A j \in 1 .. i : events[j].wait <= events[i].wait
        BY <3>1, <2>1 DEF Sorted
    <3> QED
        BY <3>2, <3>3 DEF EventType
  <2>3. ASSUME NEW i \in DOMAIN queue
        PROVE  /\ queue[i] \in TimerType
               /\ \A j \in 1 .. i : queue[j].wait <= queue[i].wait
    <3>1. \A j \in 1 .. i : j \in DOMAIN queue /\ j <= i
        BY <2>1
    <3>2. queue[i] \in TimerType
        BY <2>1
    <3>3. \A j \in 1 .. i : queue[j].wait <= queue[i].wait
        BY <3>1, <2>1 DEF Sorted
    <3> QED
        BY <3>2, <3>3
  <2> QED
      BY <2>2, <2>3 DEF SubInv, PitType, TypeOK
<1> QED
    BY <1>1, SubInvHolds, PTL

(* Scheduler::scheduleNext and executeEvent: as long as a timer is queued, a  *)
(* wake-up is scheduled for the instant in which the first one expires, on    *)
(* behalf of whichever nodes timers are added, cancelled and executed.        *)
THEOREM SchedulerIsAwake == Spec => []NoTimerStranded
<1>1. SubInv => NoTimerStranded
    BY DEF SubInv, Good, Awake, NoTimerStranded, WakeUps, Range
<1> QED
    BY <1>1, SubInvHolds, PTL

(* Face::sendData and OnOutgoingData: no data is on its way to an application *)
(* that has closed its face.  An alert that arrives in the very instant of    *)
(* the stop finds the face gone, because the stop was scheduled first.        *)
THEOREM StoppedStaySilent == Spec => []StoppedGetsNothing
<1>1. SubInv => StoppedGetsNothing
    BY DEF SubInv, DataIsForNow, StoppedGetsNothing, Range
<1> QED
    BY <1>1, SubInvHolds, PTL

-----------------------------------------------------------------------------
HelloEvent ==
    EventType \cup
    [kind : {"StartProducer", "SendAlert"}, node : Rsu, wait : 0 .. Interval, valid : {TRUE}]

LEMMA HelloEventIsSpace == EventSpace(HelloEvent)
<1> DEFINE Tick1(e) == [e EXCEPT !.wait = e.wait - 1]
           R == [kind : {"StartProducer", "SendAlert"}, node : Rsu, wait : 0 .. Interval,
                 valid : {TRUE}]
<1>1. EventSpace(EventType)
    BY EventTypeIsSpace
<1>2. HelloEvent = EventType \cup R
    BY DEF HelloEvent
<1>3. ASSUME NEW e \in R
      PROVE  /\ e \in [kind : AnyKind, node : Nat, wait : Nat, valid : BOOLEAN]
             /\ e.kind \notin {"executeEvent", "onInterestFinalize"}
  <2>1. /\ e.kind \in {"StartProducer", "SendAlert"} /\ e.node \in Rsu
        /\ e.wait \in 0 .. Interval /\ e.valid \in BOOLEAN
        /\ e = [kind |-> e.kind, node |-> e.node, wait |-> e.wait, valid |-> e.valid]
      OBVIOUS
  <2> HIDE DEF R
  <2>2. e.kind \in AnyKind
      BY <2>1 DEF AnyKind
  <2>3. Rsu \subseteq Nat /\ Interval \in Nat
      BY HelloAssumption
  <2>4. e.node \in Nat /\ e.wait \in Nat
      BY <2>1, <2>3
  <2>5. e.kind \notin {"executeEvent", "onInterestFinalize"}
      BY <2>1
  <2> QED
      BY <2>1, <2>2, <2>4, <2>5
<1>4. ASSUME NEW e \in R, e.wait # 0 PROVE Tick1(e) \in R
  <2>1. e.wait - 1 \in 0 .. Interval
      BY <1>4, HelloAssumption
  <2> QED
      BY <2>1
<1> HIDE DEF R
<1> QED
    BY <1>1, <1>2, <1>3, <1>4 DEF EventSpace

\* An event the script of the applications does not hold is added.
LEMMA EnqueueGood ==
    ASSUME NEW E, NEW evs, NEW q, Good(E, evs, q), NEW item \in E, item.wait \in Nat,
           item.kind # "StopApplication"
    PROVE  /\ Good(E, Enqueue(evs, item), q)
           /\ Range(Enqueue(evs, item)) = Range(evs) \cup {item}
           /\ InTurn(evs) /\ item.kind \notin {"OnTimeout", "receive", "onInterestFinalize"} =>
                  InTurn(Enqueue(evs, item))
<1> DEFINE new == Enqueue(evs, item)
<1>1. evs \in Seq(E) /\ Sorted(evs) /\ StopsFirst(evs)
    BY DEF Good
<1>2. new \in Seq(E) /\ Sorted(new) /\ Range(new) = Range(evs) \cup {item}
    BY <1>1, EnqueueSorted
<1>3. StopsFirst(new)
    BY <1>1, EnqueueStopsFirst
<1>5. ASSUME InTurn(evs), item.kind \notin {"OnTimeout", "receive", "onInterestFinalize"}
      PROVE  InTurn(new)
    BY <1>1, <1>5, EnqueueInTurn
<1> HIDE DEF new
<1>4. Awake([events |-> new, queue |-> q])
    BY <1>2 DEF Good, Awake
<1> QED
    BY <1>2, <1>3, <1>4, <1>5 DEF Good, new

-----------------------------------------------------------------------------
(***************************************************************************)
(* The inductive invariant.                                                *)
(***************************************************************************)
HelloType ==
    /\ entry \subseteq Node
    /\ inRecord \in [Node -> {NoRecord} \cup 0 .. LifeTime]
    /\ inReach \subseteq Rsu \X Node
    /\ available \in [Node -> BOOLEAN]
    /\ away \in [Node -> 0 .. LongAway + 1]
    /\ steady \in [Rsu \X Node -> 0 .. LongSteady + 1]

InReach(n) == \E r \in Rsu : <<r, n>> \in inReach

Is(e, kind, n) == e.kind = kind /\ e.node = n

\* While events run, a vehicle in reach has not been away.
NearIsNotAway == Due(events) => \A n \in Node : InReach(n) => away[n] = 0

\* A hello on its way, or in the hands of the application, was sent in reach.
HellosAreRecent ==
    \A n \in Node : \A e \in Range(events) :
        /\ Is(e, "receive", n) => away[n] + e.wait <= MaxDelay
        /\ Is(e, "OnData", n) => e.wait = 0 /\ away[n] <= MaxDelay

\* A belief has a timeout that ends it soon enough.
BeliefEnds ==
    \A n \in Node : available[n] =>
        \E e \in Range(events) : Is(e, "OnTimeout", n) /\ away[n] + e.wait <= LongAway

\* A consumer knows nothing before the instant in which it starts.
StartsIgnorant ==
    \A n \in Node : \A s \in Range(events) : Is(s, "StartApplication", n) =>
        /\ n \in entry => s.wait = 0
        /\ available[n] => s.wait = 0 /\ away[n] <= MaxDelay
        /\ \A e \in Range(events) :
              /\ Is(e, "OnData", n) \/ Is(e, "OnTimeout", n) => s.wait = 0
              /\ Is(e, "StartApplication", n) => s.wait = e.wait

Recent == NearIsNotAway /\ HellosAreRecent /\ BeliefEnds /\ StartsIgnorant

HelloInv == Good(HelloEvent, events, queue) /\ HelloType /\ Recent

-----------------------------------------------------------------------------
(***************************************************************************)
(* The parts of the invariant that are about events, when a step           *)
(* (a) sends hellos, hands them over or does neither;                      *)
(* (b) renews an interest.                                                 *)
(***************************************************************************)
\* What the parts are about.
Watched == {"receive", "OnData", "OnTimeout", "StartApplication"}

LEMMA HandingKeeps ==
    ASSUME Recent, Due(events), entry' \subseteq entry,
           UNCHANGED <<inReach, available, away>>,
           \A e \in Range(events') :
               \/ e \in Range(events)
               \/ e.kind \notin Watched
               \/ e.kind = "receive" /\ away[e.node] + e.wait <= MaxDelay
               \/ e.kind = "OnData" /\ e.wait = 0 /\ away[e.node] <= MaxDelay /\ e.node \in entry,
           \A e \in Range(events) : e.kind = "OnTimeout" => e \in Range(events')
    PROVE  Recent'
<1>1. NearIsNotAway'
    BY DEF Recent, NearIsNotAway, InReach
<1>2. HellosAreRecent'
    BY DEF Recent, HellosAreRecent, Is, Watched
<1>3. BeliefEnds'
    BY DEF Recent, BeliefEnds, Is
<1>4. \A e \in Range(events') : e.kind \in {"OnTimeout", "StartApplication"} => e \in Range(events)
    BY DEF Watched
<1>5. StartsIgnorant'
  <2> SUFFICES ASSUME NEW n \in Node, NEW s \in Range(events'), Is(s, "StartApplication", n)
               PROVE  /\ n \in entry => s.wait = 0
                      /\ available[n] => s.wait = 0 /\ away[n] <= MaxDelay
                      /\ \A e \in Range(events') :
                            /\ Is(e, "OnData", n) \/ Is(e, "OnTimeout", n) => s.wait = 0
                            /\ Is(e, "StartApplication", n) => s.wait = e.wait
      BY DEF StartsIgnorant
  <2>1. s \in Range(events)
      BY <1>4 DEF Is
  <2>2. /\ n \in entry => s.wait = 0
        /\ available[n] => s.wait = 0 /\ away[n] <= MaxDelay
        /\ \A e \in Range(events) :
              /\ Is(e, "OnData", n) \/ Is(e, "OnTimeout", n) => s.wait = 0
              /\ Is(e, "StartApplication", n) => s.wait = e.wait
      BY <2>1 DEF Recent, StartsIgnorant
  <2>3. \A e \in Range(events') : Is(e, "OnData", n) => e \in Range(events) \/ n \in entry
      BY DEF Is, Watched
  <2> QED
      BY <2>2, <2>3, <1>4 DEF Is
<1> QED
    BY <1>1, <1>2, <1>3, <1>5 DEF Recent

LEMMA RenewingKeeps ==
    ASSUME Recent, HelloType, Due(events), NEW n \in Node, NEW e1 \in Range(events),
           e1.node = n, e1.wait = 0, e1.kind \in {"StartApplication", "OnData", "OnTimeout"},
           entry' = entry \cup {n}, UNCHANGED <<inReach, away>>,
           available'[n] => away[n] <= MaxDelay,
           \A m \in Node : m # n => available'[m] = available[m],
           NEW t, t.kind = "OnTimeout", t.node = n, t.wait = LifeTime, t \in Range(events'),
           \A e \in Range(events') : e.kind \in Watched => e = t \/ e \in Range(events),
           \A e \in Range(events) :
               e.kind = "OnTimeout" /\ e.node # n => e \in Range(events')
    PROVE  Recent'
<1>0. LifeTime \in Nat /\ MaxDelay \in Nat
    BY SubscriptionAssumption
<1>1. NearIsNotAway'
    BY DEF Recent, NearIsNotAway, InReach
<1>2. HellosAreRecent'
  <2>1. \A e \in Range(events') : e.kind \in {"receive", "OnData"} => e \in Range(events)
      BY DEF Watched
  <2> QED
      BY <2>1 DEF Recent, HellosAreRecent, Is
<1>3. BeliefEnds'
  <2> SUFFICES ASSUME NEW m \in Node, available'[m]
               PROVE  \E e \in Range(events') : Is(e, "OnTimeout", m) /\ away[m] + e.wait <= LongAway
      BY DEF BeliefEnds
  <2>1. CASE m = n
    <3>1. away[n] \in Nat
        BY <1>0 DEF HelloType, LongAway
    <3>2. away[n] + LifeTime <= LongAway
        BY <3>1, <1>0, <2>1 DEF LongAway
    <3> QED
        BY <3>2, <2>1 DEF Is
  <2>2. CASE m # n
    <3>1. PICK e \in Range(events) : Is(e, "OnTimeout", m) /\ away[m] + e.wait <= LongAway
        BY <2>2 DEF Recent, BeliefEnds
    <3> QED
        BY <3>1, <2>2 DEF Is
  <2> QED
      BY <2>1, <2>2
<1>4. \A s \in Range(events) : Is(s, "StartApplication", n) => s.wait = 0
    BY DEF Recent, StartsIgnorant, Is
<1>5. StartsIgnorant'
  <2> SUFFICES ASSUME NEW m \in Node, NEW s \in Range(events'), Is(s, "StartApplication", m)
               PROVE  /\ m \in entry' => s.wait = 0
                      /\ available'[m] => s.wait = 0 /\ away[m] <= MaxDelay
                      /\ \A e \in Range(events') :
                            /\ Is(e, "OnData", m) \/ Is(e, "OnTimeout", m) => s.wait = 0
                            /\ Is(e, "StartApplication", m) => s.wait = e.wait
      BY DEF StartsIgnorant
  <2>1. s \in Range(events)
      BY DEF Is, Watched
  <2>2. \A e \in Range(events') : Is(e, "StartApplication", m) => e \in Range(events)
      BY DEF Is, Watched
  <2>3. CASE m = n
    <3>1. s.wait = 0 /\ \A e \in Range(events') : Is(e, "StartApplication", m) => e.wait = 0
        BY <1>4, <2>1, <2>2, <2>3
    <3> QED
        BY <3>1, <2>3
  <2>4. CASE m # n
    <3>1. /\ m \in entry => s.wait = 0
          /\ available[m] => s.wait = 0 /\ away[m] <= MaxDelay
          /\ \A e \in Range(events) :
                /\ Is(e, "OnData", m) \/ Is(e, "OnTimeout", m) => s.wait = 0
                /\ Is(e, "StartApplication", m) => s.wait = e.wait
        BY <2>1 DEF Recent, StartsIgnorant
    <3>2. \A e \in Range(events') :
              Is(e, "OnData", m) \/ Is(e, "OnTimeout", m) => e \in Range(events)
        BY <2>4 DEF Is, Watched
    <3> QED
        BY <3>1, <3>2, <2>2, <2>4
  <2> QED
      BY <2>3, <2>4
<1> QED
    BY <1>1, <1>2, <1>3, <1>5 DEF Recent

-----------------------------------------------------------------------------
LEMMA EnqueueAllGood ==
    ASSUME NEW S, NEW more \in Seq(S), NEW e \in S, e.wait \in Nat,
           e.kind \notin {"receive", "onInterestFinalize"},
           \A i \in DOMAIN more : more[i].wait \in Nat /\ more[i].kind # "StopApplication",
           AllInTurn(more)
    PROVE  LET evs == EnqueueAll(<<e>>, more)
           IN  /\ evs \in Seq(S) /\ Sorted(evs) /\ StopsFirst(evs) /\ InTurn(evs)
               /\ Range(evs) = {e} \cup Range(more)
<1> DEFINE one == <<e>>
           evs == EnqueueAll(one, more)
<1>1. one \in Seq(S) /\ Sorted(one) /\ StopsFirst(one) /\ InTurn(one)
    BY DEF Sorted, StopsFirst, InTurn
<1>2. Range(one) = {e}
    BY DEF Range
<1> HIDE DEF one
<1>3. /\ evs \in Seq(S) /\ Sorted(evs) /\ StopsFirst(evs) /\ InTurn(evs)
      /\ Range(evs) = Range(one) \cup Range(more)
    BY <1>1, EnqueueAllSorted
<1> QED
    BY <1>2, <1>3 DEF one

\* Every vehicle and every RSU waits for its start.
LEMMA InitEvents ==
    ASSUME HelloInit
    PROVE  /\ events \in Seq(HelloEvent) /\ Sorted(events) /\ StopsFirst(events) /\ InTurn(events)
           /\ \A e \in Range(events) :
                 /\ e.kind \in {"StartApplication", "StartProducer", "executeEvent"}
                 /\ e.kind = "StartApplication" => e.wait = StartTime[e.node]
                 /\ e.kind = "StartProducer" => e.wait = HelloStart[e.node]
           /\ MarkAhead(events)
           /\ \A n \in Node : \E e \in Range(events) : Is(e, "StartApplication", n)
           /\ \A r \in Rsu : \E e \in Range(events) : Is(e, "StartProducer", r)
<1> DEFINE all   == Node \cup Rsu
           order == InOrder(all)
           list  == [i \in DOMAIN order |->
                        IF order[i] \in Node
                        THEN Event("StartApplication", order[i], StartTime[order[i]])
                        ELSE Event("StartProducer", order[i], HelloStart[order[i]])]
<1>1. all \in SUBSET Forwarder
    BY SubscriptionAssumption, HelloAssumption
<1>2. all \in SUBSET Nat /\ IsFiniteSet(all)
    BY <1>1, SubscriptionAssumption, FS_Subset
<1>3. events = EnqueueAll(<<FirstWakeUp>>, list)
    BY DEF HelloInit
<1>4. /\ order \in [1 .. Cardinality(all) -> all] /\ Cardinality(all) \in Nat
      /\ Range(order) = all
    BY <1>2, InOrderListing, FS_CardinalityType
<1> HIDE DEF order
<1>5. ASSUME NEW i \in DOMAIN order
      PROVE  /\ list[i] \in HelloEvent /\ list[i].wait \in Nat
             /\ list[i].kind \in {"StartApplication", "StartProducer"}
             /\ list[i].kind = "StartApplication" => list[i].wait = StartTime[list[i].node]
             /\ list[i].kind = "StartProducer" => list[i].wait = HelloStart[list[i].node]
             /\ order[i] \in Node => Is(list[i], "StartApplication", order[i])
             /\ order[i] \notin Node => Is(list[i], "StartProducer", order[i])
  <2>1. CASE order[i] \in Node
    <3>1. /\ list[i].kind = "StartApplication" /\ list[i].node = order[i]
          /\ list[i].wait = StartTime[order[i]]
          /\ list[i] = Event("StartApplication", order[i], StartTime[order[i]])
        BY <2>1 DEF Event
    <3>2. StartTime[order[i]] \in Nat /\ "StartApplication" \in Kind
        BY <2>1, SubscriptionAssumption DEF Kind
    <3>3. list[i] \in EventType
        BY <2>1, <3>1, <3>2, SubscriptionAssumption DEF Event, EventType
    <3> QED
        BY <2>1, <3>1, <3>2, <3>3 DEF HelloEvent, Is
  <2>2. CASE order[i] \notin Node
    <3>1. order[i] \in Rsu
        BY <1>4, <2>2
    <3>2. /\ list[i].kind = "StartProducer" /\ list[i].node = order[i]
          /\ list[i].wait = HelloStart[order[i]]
          /\ list[i] = Event("StartProducer", order[i], HelloStart[order[i]])
        BY <2>2 DEF Event
    <3>3. HelloStart[order[i]] \in 0 .. Interval /\ HelloStart[order[i]] \in Nat
        BY <3>1, HelloAssumption
    <3>4. list[i] \in [kind : {"StartProducer", "SendAlert"}, node : Rsu, wait : 0 .. Interval,
                       valid : {TRUE}]
        BY <3>1, <3>2, <3>3 DEF Event
    <3> QED
        BY <2>2, <3>2, <3>3, <3>4 DEF HelloEvent, Is
  <2> QED
      BY <2>1, <2>2
<1>6. DOMAIN list = DOMAIN order /\ list \in [1 .. Cardinality(all) -> HelloEvent]
    BY <1>4, <1>5
<1>9. /\ \A n \in Node : \E e \in Range(list) : Is(e, "StartApplication", n)
      /\ \A r \in Rsu : \E e \in Range(list) : Is(e, "StartProducer", r)
  <2>1. \A x \in all : \E i \in DOMAIN order : order[i] = x
      BY <1>4 DEF Range
  <2>2. \A r \in Rsu : r \notin Node
      BY HelloAssumption
  <2>3. \A i \in DOMAIN order :
            /\ order[i] \in Node => Is(list[i], "StartApplication", order[i])
            /\ order[i] \notin Node => Is(list[i], "StartProducer", order[i])
      BY <1>5
  <2> HIDE DEF list
  <2>4. \A i \in DOMAIN order : list[i] \in Range(list)
      BY <1>6 DEF Range
  <2>5. \A n \in Node : n \in all
      OBVIOUS
  <2>6. \A r \in Rsu : r \in all
      OBVIOUS
  <2> HIDE DEF all
  <2> QED
      BY <2>1, <2>2, <2>3, <2>4, <2>5, <2>6
<1> HIDE DEF list, all
<1>7. list \in Seq(HelloEvent)
    BY <1>4, <1>6
<1>8. /\ \A i \in DOMAIN list : list[i].wait \in Nat /\ list[i].kind # "StopApplication"
      /\ AllInTurn(list)
    BY <1>5, <1>6 DEF AllInTurn
<1>10. /\ FirstWakeUp \in HelloEvent /\ FirstWakeUp.wait = MarkInterval /\ MarkInterval \in Nat
       /\ FirstWakeUp.kind = "executeEvent"
  <2>1. PICK m \in Forwarder : FirstWakeUp = Event("executeEvent", m, MarkInterval)
      BY FirstMarkIsAhead
  <2> QED
      BY <2>1, SubscriptionAssumption DEF HelloEvent, EventType, Event, Kind
<1>11. /\ events \in Seq(HelloEvent) /\ Sorted(events) /\ StopsFirst(events) /\ InTurn(events)
       /\ Range(events) = {FirstWakeUp} \cup Range(list)
    BY <1>3, <1>7, <1>8, <1>10, EnqueueAllGood
<1>13. MarkAhead(events)
    BY <1>10, <1>11 DEF MarkAhead
<1>12. \A e \in Range(events) :
          /\ e.kind \in {"StartApplication", "StartProducer", "executeEvent"}
          /\ e.kind = "StartApplication" => e.wait = StartTime[e.node]
          /\ e.kind = "StartProducer" => e.wait = HelloStart[e.node]
  <2>1. \A e \in Range(list) :
            /\ e.kind \in {"StartApplication", "StartProducer"}
            /\ e.kind = "StartApplication" => e.wait = StartTime[e.node]
            /\ e.kind = "StartProducer" => e.wait = HelloStart[e.node]
      BY <1>5, <1>6 DEF Range
  <2> QED
      BY <2>1, <1>10, <1>11
<1> QED
    BY <1>9, <1>11, <1>12, <1>13

LEMMA InitHelloInv == HelloInit => HelloInv
<1> SUFFICES ASSUME HelloInit PROVE HelloInv
    OBVIOUS
<1>1. events \in Seq(HelloEvent) /\ Sorted(events) /\ StopsFirst(events) /\ MarkAhead(events)
    BY InitEvents
<1>2. \A e \in Range(events) :
          /\ e.kind \in {"StartApplication", "StartProducer", "executeEvent"}
          /\ e.kind = "StartApplication" => e.wait = StartTime[e.node]
    BY InitEvents
<1>3. queue = FirstMarks
    BY DEF HelloInit
<1>4. Good(HelloEvent, events, queue)
    BY <1>3, <1>1, FirstMarkIsAhead DEF Good, Awake, MarkAhead
<1>5. LongAway \in Nat /\ LongSteady \in Nat
    BY SubscriptionAssumption, HelloAssumption DEF LongAway, LongSteady
<1>6. HelloType
    BY <1>5 DEF HelloInit, HelloType
<1>7. NearIsNotAway /\ HellosAreRecent /\ BeliefEnds
    BY <1>2 DEF HelloInit, NearIsNotAway, HellosAreRecent, BeliefEnds, Is
<1>8. StartsIgnorant
  <2>1. entry = {} /\ \A n \in Node : ~available[n]
      BY DEF HelloInit
  <2>2. \A n \in Node : \A e \in Range(events) :
            /\ ~Is(e, "OnData", n) /\ ~Is(e, "OnTimeout", n)
            /\ Is(e, "StartApplication", n) => e.wait = StartTime[n]
      BY <1>2 DEF Is
  <2> QED
      BY <2>1, <2>2 DEF StartsIgnorant
<1> QED
    BY <1>4, <1>6, <1>7, <1>8 DEF HelloInv, Recent

LEMMA EventsAre ==
    ASSUME NEW evs, NEW q, Good(HelloEvent, evs, q)
    PROVE  \A e \in Range(evs) : e \in HelloEvent
<1>1. \A i \in DOMAIN evs : evs[i] \in HelloEvent
    BY DEF Good
<1> QED
    BY <1>1 DEF Range

\* What the event that runs may be.
LEMMA FirstEvent ==
    ASSUME Good(HelloEvent, events, queue), Due(events)
    PROVE  /\ Next1 \in HelloEvent /\ Next1.wait = 0 /\ Next1 \in Range(events)
           /\ Next1.kind \in Kind \ {"mark", "executeEvent"} => Next1.node \in Node
           /\ Next1.kind \in {"mark", "executeEvent"} => Next1.node \in Forwarder
           /\ Next1.kind \notin Kind => Next1.node \in Rsu
           /\ Range(events) = Range(Tail(events)) \cup {Next1}
           /\ Plain(Tail(events)) \subseteq Range(events)
           /\ Next1.kind # "executeEvent" => Good(HelloEvent, Tail(events), queue)
           /\ InTurn(events) => InTurn(Tail(events))
<1> USE HelloEventIsSpace
<1>1. /\ Next1 \in HelloEvent /\ Next1.wait = 0
      /\ Range(events) = Range(Tail(events)) \cup {Next1}
      /\ InTurn(events) => InTurn(Tail(events))
    BY RestKeeps
<1>2. Next1 \in EventType \/
          (Next1.kind \in {"StartProducer", "SendAlert"} /\ Next1.node \in Rsu)
    BY <1>1 DEF HelloEvent
<1>3. Next1 \in EventType =>
          /\ Next1.kind \in Kind /\ Next1.node \in Forwarder
          /\ Next1.kind \in {"mark", "executeEvent"} \/ Next1.node \in Node
    BY DEF EventType
<1>4. Next1.kind \in {"StartProducer", "SendAlert"} => Next1.kind \notin Kind
    BY DEF Kind
<1>5. ASSUME Next1.kind # "executeEvent" PROVE Good(HelloEvent, Tail(events), queue)
  <2>1. /\ Rest \in SimType(HelloEvent) /\ SortedSim(Rest) /\ StopsFirst(Rest.events) /\ Awake(Rest)
        /\ Rest.events = Tail(events) /\ Rest.queue = queue
      BY <1>5, RestKeeps
  <2>2. Good(HelloEvent, Rest.events, Rest.queue)
      BY <2>1, GoodSim
  <2> QED
      BY <2>1, <2>2
<1> QED
    BY <1>1, <1>2, <1>3, <1>4, <1>5 DEF Plain

\* What a hello of the RSU does: "sent" is the queue with its receptions.
Sending(sent, hearers) ==
    /\ Good(HelloEvent, sent, queue)
    /\ events' = Enqueue(sent, Event("SendAlert", Next1.node, Interval))
    /\ \A e \in Range(Tail(events)) : e \in Range(sent)
    /\ \A e \in Range(sent) :
          \/ e \in Range(Tail(events))
          \/ e.kind = "receive" /\ e.node \in hearers /\ e.wait \in 1 .. MaxDelay
    /\ \A n \in hearers :
          /\ <<Next1.node, n>> \in inReach
          /\ \E e \in Range(sent) : Is(e, "receive", n) /\ e.wait \in 1 .. MaxDelay
    /\ steady' = [p \in Rsu \X Node |->
                      IF p[1] = Next1.node /\ p[2] \notin hearers THEN 0 ELSE steady[p]]
    /\ InTurn(events) => InTurn(sent)

LEMMA SendAlertSends ==
    ASSUME Good(HelloEvent, events, queue), SendAlert
    PROVE  \E hearers \in SUBSET Node, sent \in Seq(HelloEvent) : Sending(sent, hearers)
<1> USE HelloEventIsSpace
<1> DEFINE r == Next1.node
<1>1. Due(events) /\ Next1.kind = "SendAlert"
    BY DEF SendAlert, Run
<1>2. PICK hearers \in SUBSET Audience(r) :
          \E delay \in [hearers -> 1 .. MaxDelay] :
             /\ events' = Enqueue(EnqueueAll(Tail(events), Arrivals(hearers, delay)),
                                  Event("SendAlert", r, Interval))
             /\ steady' = [p \in Rsu \X Node |->
                               IF p[1] = r /\ p[2] \notin hearers THEN 0 ELSE steady[p]]
  <2>1. \A H : H \in (IF Lossy THEN SUBSET Audience(r) ELSE {Audience(r)}) =>
            H \in SUBSET Audience(r)
      OBVIOUS
  <2> HIDE DEF r
  <2> QED
      BY <2>1 DEF SendAlert, r
<1>3. PICK delay \in [hearers -> 1 .. MaxDelay] :
             /\ events' = Enqueue(EnqueueAll(Tail(events), Arrivals(hearers, delay)),
                                  Event("SendAlert", r, Interval))
             /\ steady' = [p \in Rsu \X Node |->
                               IF p[1] = r /\ p[2] \notin hearers THEN 0 ELSE steady[p]]
    BY <1>2
<1> DEFINE a    == Arrivals(hearers, delay)
           sent == EnqueueAll(Tail(events), a)
<1>4. hearers \in SUBSET Node /\ \A n \in hearers : <<r, n>> \in inReach
    BY <1>2 DEF Audience
<1>5. Good(HelloEvent, Tail(events), queue) /\ (InTurn(events) => InTurn(Tail(events)))
    BY <1>1, FirstEvent
<1>6. /\ Good(HelloEvent, sent, queue)
      /\ Range(sent) = Range(Tail(events)) \cup Range(a)
      /\ InTurn(Tail(events)) => InTurn(sent)
    BY <1>4, <1>5, SendingKeeps
<1>7. /\ \A i \in DOMAIN a : a[i].kind = "receive" /\ a[i].node \in hearers /\ a[i].wait \in 1 .. MaxDelay
      /\ \A n \in hearers : \E e \in Range(a) : e.node = n
    BY <1>4, ArrivalsType
<1> HIDE DEF a
<1>8. \A e \in Range(a) : e.kind = "receive" /\ e.node \in hearers /\ e.wait \in 1 .. MaxDelay
    BY <1>7 DEF Range
<1> HIDE DEF sent
<1>9. events' = Enqueue(sent, Event("SendAlert", r, Interval))
    BY <1>3 DEF sent, a
<1>10. \A n \in hearers : \E e \in Range(sent) : Is(e, "receive", n) /\ e.wait \in 1 .. MaxDelay
    BY <1>6, <1>7, <1>8 DEF Is
<1>11. Sending(sent, hearers)
    BY <1>3, <1>4, <1>5, <1>6, <1>8, <1>9, <1>10 DEF Sending
<1>12. sent \in Seq(HelloEvent)
    BY <1>6 DEF Good
<1> QED
    BY <1>4, <1>11, <1>12

LEMMA NextHelloInv == HelloInv /\ [HelloNext]_helloVars => HelloInv'
<1> SUFFICES ASSUME HelloInv, [HelloNext]_helloVars PROVE HelloInv'
    OBVIOUS
<1> USE HelloEventIsSpace
<1>1. Good(HelloEvent, events, queue) /\ HelloType /\ Recent
    BY DEF HelloInv
<1>2. MaxDelay \in Nat \ {0} /\ LifeTime \in Nat \ {0} /\ Interval \in Nat \ {0}
    BY SubscriptionAssumption, HelloAssumption
<1>3. ASSUME Due(events)
      PROVE  /\ Next1 \in HelloEvent /\ Next1.wait = 0 /\ Next1 \in Range(events)
             /\ Next1.kind \in Kind \ {"mark", "executeEvent"} => Next1.node \in Node
             /\ Next1.kind \in {"mark", "executeEvent"} => Next1.node \in Forwarder
             /\ Next1.kind \notin Kind => Next1.node \in Rsu
             /\ Range(events) = Range(Tail(events)) \cup {Next1}
             /\ Plain(Tail(events)) \subseteq Range(events)
    BY <1>1, <1>3, FirstEvent
<1>4. ASSUME Due(events), RegisterInterest, UNCHANGED <<inReach, away, steady>>,
             Next1.kind \in {"StartApplication", "OnData", "OnTimeout"},
             available' \in [Node -> BOOLEAN],
             available'[Next1.node] => away[Next1.node] <= MaxDelay,
             \A m \in Node : m # Next1.node => available'[m] = available[m]
      PROVE  HelloInv'
  <2> DEFINE n == Next1.node
             t == Event("OnTimeout", n, LifeTime)
  <2>1. n \in Node
      BY <1>3, <1>4 DEF Kind
  <2>2. /\ Good(HelloEvent, events', queue')
        /\ Plain(events') =
               {e \in Plain(Tail(events)) : ~(e.kind = "OnTimeout" /\ e.node = n)} \cup {t}
      BY <1>1, <1>4, <2>1, RegisterInterestKeeps
  <2>3. HelloType'
    <3>1. LifeTime \in 0 .. LifeTime
        BY <1>2
    <3> QED
        BY <3>1, <1>1, <1>4, <2>1 DEF RegisterInterest, HelloType
  <2>4. t.kind = "OnTimeout" /\ t.node = n /\ t.wait = LifeTime
      BY DEF Event
  <2>5. entry' = entry \cup {n}
      BY <1>4 DEF RegisterInterest
  <2> HIDE DEF n, t
  <2>6. t \in Range(events')
      BY <2>2 DEF Plain, Callback
  <2>7. \A e \in Range(events') : e.kind \in Watched => e = t \/ e \in Range(events)
      BY <1>3, <1>4, <2>2 DEF Plain, Callback, Watched
  <2>8. \A e \in Range(events) : e.kind = "OnTimeout" /\ e.node # n => e \in Range(events')
      BY <1>3, <1>4, <2>2 DEF Plain, Callback, n
  <2>9. Recent'
      BY <1>1, <1>3, <1>4, <2>1, <2>4, <2>5, <2>6, <2>7, <2>8, RenewingKeeps DEF n
  <2> QED
      BY <2>2, <2>3, <2>9 DEF HelloInv
<1>5. CASE StartConsumer /\ UNCHANGED <<inReach, away, steady>>
  <2>1. Due(events) /\ Next1.kind = "StartApplication" /\ RegisterInterest /\ available' = available
      BY <1>5 DEF StartConsumer, StartApplication, Run
  <2>2. available[Next1.node] => away[Next1.node] <= MaxDelay
      BY <1>1, <1>3, <2>1 DEF Recent, StartsIgnorant, Is, Kind
  <2> QED
      BY <1>1, <1>4, <1>5, <2>1, <2>2 DEF HelloType
<1>6. CASE HelloReceived /\ UNCHANGED <<inReach, away, steady>>
  <2>1. /\ Due(events) /\ Next1.kind = "OnData" /\ RegisterInterest
        /\ available' = [available EXCEPT ![Next1.node] = TRUE]
      BY <1>6 DEF HelloReceived, OnData, Run
  <2>2. away[Next1.node] <= MaxDelay
      BY <1>1, <1>3, <2>1 DEF Recent, HellosAreRecent, Is, Kind
  <2> QED
      BY <1>1, <1>4, <1>6, <2>1, <2>2 DEF HelloType
<1>7. CASE HelloMissed /\ UNCHANGED <<inReach, away, steady>>
  <2>1. /\ Due(events) /\ Next1.kind = "OnTimeout" /\ RegisterInterest
        /\ available' = [available EXCEPT ![Next1.node] = FALSE]
      BY <1>7 DEF HelloMissed, OnTimeout, Run
  <2>2. Next1.node \in Node
      BY <1>3, <2>1 DEF Kind
  <2> QED
      BY <1>1, <1>4, <1>7, <2>1, <2>2 DEF HelloType
<1>8. ASSUME Due(events), UNCHANGED <<inReach, away, steady, available>>,
             entry' \subseteq entry, inRecord' \in [Node -> {NoRecord} \cup 0 .. LifeTime],
             Good(HelloEvent, events', queue'), Next1.kind # "OnTimeout",
             Plain(events') = Plain(Tail(events))
      PROVE  HelloInv'
  <2>1. \A e \in Range(events') : e \in Range(events) \/ e.kind \notin Watched
      BY <1>3, <1>8 DEF Plain, Callback, Watched
  <2>2. \A e \in Range(events) : e.kind = "OnTimeout" => e \in Range(events')
      BY <1>3, <1>8 DEF Plain, Callback
  <2>3. Recent'
      BY <1>1, <1>8, <2>1, <2>2, HandingKeeps
  <2>4. HelloType'
      BY <1>1, <1>8 DEF HelloType
  <2> QED
      BY <1>8, <2>3, <2>4 DEF HelloInv
<1> DEFINE Same == UNCHANGED <<inReach, away, steady, available>>
<1>9. CASE DataUnsolicited /\ Same
  <2>1. Due(events) /\ Next1.kind = "receive" /\ Becomes(Rest)
      BY <1>9 DEF DataUnsolicited, Run
  <2>2. Good(HelloEvent, events', queue') /\ Plain(events') = Plain(Tail(events))
      BY <1>1, <2>1, RestIsGood
  <2> QED
      BY <1>1, <1>8, <1>9, <2>1, <2>2 DEF DataUnsolicited, HelloType
<1>10. CASE ExecuteEvent /\ Same
  <2>1. Due(events) /\ Next1.kind = "executeEvent"
      BY <1>10 DEF ExecuteEvent, Run
  <2>2. Next1.node \in Forwarder
      BY <1>3, <2>1 DEF Kind
  <2>3. Good(HelloEvent, events', queue') /\ Plain(events') = Plain(Tail(events))
      BY <1>1, <1>10, <2>2, ExecuteEventKeeps
  <2>4. entry' \subseteq entry /\ inRecord' \in [Node -> {NoRecord} \cup 0 .. LifeTime]
      BY <1>1, <1>10 DEF ExecuteEvent, HelloType
  <2> QED
      BY <1>8, <1>10, <2>1, <2>3, <2>4
<1>11. CASE OnInterestFinalize /\ Same
  <2>1. Due(events) /\ Next1.kind = "onInterestFinalize"
      BY <1>11 DEF OnInterestFinalize, Run
  <2>2. Next1.node \in Node
      BY <1>3, <2>1 DEF Kind
  <2>3. Good(HelloEvent, events', queue') /\ Plain(events') = Plain(Tail(events))
      BY <1>1, <1>11, <2>2, OnInterestFinalizeKeeps
  <2>4. entry' \subseteq entry /\ inRecord' \in [Node -> {NoRecord} \cup 0 .. LifeTime]
      BY <1>1, <1>11 DEF OnInterestFinalize, HelloType
  <2> QED
      BY <1>8, <1>11, <2>1, <2>3, <2>4
<1>21. CASE Mark /\ Same
  <2>1. Due(events) /\ Next1.kind = "mark" /\ UNCHANGED <<entry, inRecord>>
      BY <1>21 DEF Mark, Run
  <2>2. Next1.node \in Forwarder
      BY <1>3, <2>1
  <2>3. Timer("mark", Next1.node, MarkInterval) \in TimerType /\ MarkInterval \in Nat
      BY <2>2, SubscriptionAssumption DEF Timer, TimerType
  <2>4. Becomes(Rest) \/ Becomes(Schedule(Rest, "mark", Next1.node, MarkInterval))
      BY <1>21 DEF Mark
  <2>5. Good(HelloEvent, events', queue') /\ Plain(events') = Plain(Tail(events))
      BY <1>1, <2>1, <2>2, <2>3, <2>4, RestIsGood, SchedulingKeeps
  <2> QED
      BY <1>1, <1>8, <1>21, <2>1, <2>5 DEF HelloType
<1>12. CASE OnIncomingData /\ Same
  <2> DEFINE n == Next1.node
             e == Event("OnData", n, 0)
  <2>1. /\ Due(events) /\ Next1.kind = "receive" /\ n \in entry /\ entry' = entry
        /\ inRecord' = [inRecord EXCEPT ![n] = IF Pending(n) THEN NoRecord ELSE @]
      BY <1>12 DEF OnIncomingData, Run
  <2>2. n \in Node
      BY <1>3, <2>1 DEF Kind
  <2>3. /\ Good(HelloEvent, events', queue')
        /\ Plain(events') = Plain(Tail(events)) \cup (IF Pending(n) /\ n \notin stopped THEN {e} ELSE {})
      BY <1>1, <1>12, <2>2, OnIncomingDataKeeps
  <2>4. e.kind = "OnData" /\ e.wait = 0 /\ e.node = n
      BY DEF Event
  <2>5. away[n] <= MaxDelay
    <3>1. away[n] + Next1.wait <= MaxDelay /\ Next1.wait = 0
        BY <1>1, <1>3, <2>1, <2>2 DEF Recent, HellosAreRecent, Is
    <3>2. away[n] \in Int
        BY <1>1, <2>2 DEF HelloType
    <3> QED
        BY <3>1, <3>2
  <2>6. HelloType'
      BY <1>1, <1>12, <2>1, <2>2 DEF HelloType
  <2> HIDE DEF n, e
  <2>7. \A d \in Range(events') :
            \/ d \in Range(events)
            \/ d.kind \notin Watched
            \/ d.kind = "OnData" /\ d.wait = 0 /\ away[d.node] <= MaxDelay /\ d.node \in entry
    <3>1. \A d \in Range(events') : d \in Range(events) \/ d.kind \notin Watched \/ d = e
        BY <1>3, <2>1, <2>3 DEF Plain, Callback, Watched
    <3> QED
        BY <3>1, <2>1, <2>4, <2>5
  <2>8. \A d \in Range(events) : d.kind = "OnTimeout" => d \in Range(events')
      BY <1>3, <2>1, <2>3 DEF Plain, Callback
  <2>9. Recent'
      BY <1>1, <1>12, <2>1, <2>7, <2>8, HandingKeeps
  <2> QED
      BY <2>3, <2>6, <2>9 DEF HelloInv
<1>13. ASSUME Due(events), Next1.kind \in {"StartProducer", "SendAlert"},
              UNCHANGED <<queue, entry, inRecord, inReach, away, available>>,
              steady' \in [Rsu \X Node -> 0 .. LongSteady + 1],
              NEW evs, Good(HelloEvent, evs, queue), NEW w \in 0 .. Interval,
              events' = Enqueue(evs, Event("SendAlert", Next1.node, w)),
              \A e \in Range(Tail(events)) : e \in Range(evs),
              \A e \in Range(evs) :
                  \/ e \in Range(Tail(events))
                  \/ e.kind = "receive" /\ away[e.node] + e.wait <= MaxDelay
       PROVE  HelloInv'
  <2> DEFINE e1 == Event("SendAlert", Next1.node, w)
  <2>1. Next1.node \in Rsu
      BY <1>3, <1>13 DEF Kind
  <2>2. e1 \in HelloEvent /\ e1.wait \in Nat /\ e1.kind = "SendAlert"
    <3>1. e1 \in [kind : {"StartProducer", "SendAlert"}, node : Rsu, wait : 0 .. Interval,
                  valid : {TRUE}]
        BY <2>1, <1>13 DEF Event
    <3>2. e1.wait = w /\ e1.kind = "SendAlert" /\ w \in Nat
        BY <1>2, <1>13 DEF Event
    <3> QED
        BY <3>1, <3>2 DEF HelloEvent
  <2> HIDE DEF e1
  <2>3. Good(HelloEvent, Enqueue(evs, e1), queue) /\ Range(Enqueue(evs, e1)) = Range(evs) \cup {e1}
      BY <1>13, <2>2, EnqueueGood
  <2>4. events' = Enqueue(evs, e1) /\ queue' = queue
      BY <1>13 DEF e1
  <2>5. Good(HelloEvent, events', queue') /\ Range(events') = Range(evs) \cup {e1}
      BY <2>3, <2>4
  <2>6. HelloType'
      BY <1>1, <1>13 DEF HelloType
  <2>7. \A e \in Range(events') :
            \/ e \in Range(events)
            \/ e.kind \notin Watched
            \/ e.kind = "receive" /\ away[e.node] + e.wait <= MaxDelay
      BY <1>3, <1>13, <2>2, <2>5 DEF Watched
  <2>8. \A e \in Range(events) : e.kind = "OnTimeout" => e \in Range(events')
      BY <1>3, <1>13, <2>5
  <2>9. Recent'
      BY <1>1, <1>13, <2>7, <2>8, HandingKeeps
  <2> QED
      BY <2>5, <2>6, <2>9 DEF HelloInv
<1>14. ASSUME Due(events), Next1.kind # "executeEvent"
       PROVE  Good(HelloEvent, Tail(events), queue)
    BY <1>1, <1>14, FirstEvent
<1>15. CASE StartProducer /\ UNCHANGED <<inReach, away, steady>>
  <2>1. /\ Due(events) /\ Next1.kind = "StartProducer"
        /\ events' = Enqueue(Tail(events), Event("SendAlert", Next1.node, 0))
        /\ UNCHANGED <<queue, entry, inRecord, available>>
      BY <1>15 DEF StartProducer, Run
  <2>2. Good(HelloEvent, Tail(events), queue)
      BY <1>14, <2>1
  <2>3. 0 \in 0 .. Interval
      BY <1>2
  <2>4. steady' \in [Rsu \X Node -> 0 .. LongSteady + 1]
      BY <1>1, <1>15 DEF HelloType
  <2> QED
      BY <1>13, <1>15, <2>1, <2>2, <2>3, <2>4
<1>16. CASE SendAlert /\ UNCHANGED <<inReach, away>>
  <2>1. /\ Due(events) /\ Next1.kind = "SendAlert"
        /\ UNCHANGED <<queue, entry, inRecord, available>>
      BY <1>16 DEF SendAlert, Run
  <2>2. PICK hearers \in SUBSET Node, sent \in Seq(HelloEvent) : Sending(sent, hearers)
      BY <1>1, <1>16, SendAlertSends
  <2>3. Next1.node \in Rsu
      BY <1>3, <2>1 DEF Kind
  <2>4. /\ Good(HelloEvent, sent, queue)
        /\ events' = Enqueue(sent, Event("SendAlert", Next1.node, Interval))
        /\ \A e \in Range(Tail(events)) : e \in Range(sent)
      BY <2>2 DEF Sending
  <2>5. \A n \in hearers : away[n] = 0
      BY <1>1, <2>1, <2>2, <2>3 DEF Recent, NearIsNotAway, InReach, Sending
  <2>6. \A e \in Range(sent) :
            \/ e \in Range(Tail(events))
            \/ e.kind = "receive" /\ away[e.node] + e.wait <= MaxDelay
    <3> SUFFICES ASSUME NEW e \in Range(sent), e \notin Range(Tail(events))
                 PROVE  e.kind = "receive" /\ away[e.node] + e.wait <= MaxDelay
        OBVIOUS
    <3>1. e.kind = "receive" /\ away[e.node] = 0 /\ e.wait \in 1 .. MaxDelay
        BY <2>2, <2>5 DEF Sending
    <3> QED
        BY <3>1, <1>2
  <2>7. steady' \in [Rsu \X Node -> 0 .. LongSteady + 1]
    <3>1. 0 \in 0 .. LongSteady + 1
        BY <1>2 DEF LongSteady
    <3> QED
        BY <3>1, <2>2, <1>1 DEF HelloType, Sending
  <2>8. Interval \in 0 .. Interval
      BY <1>2
  <2>9. Next1.kind \in {"StartProducer", "SendAlert"}
      BY <2>1
  <2> QED
      BY <1>13, <1>16, <2>1, <2>4, <2>6, <2>7, <2>8, <2>9
<1>17. CASE HelloTick
  <2>1. Tick /\ UNCHANGED <<inReach, available>>
        /\ away' = [n \in Node |-> IF \E r \in Rsu : <<r, n>> \in inReach
                                   THEN 0 ELSE Older(away[n], LongAway)]
        /\ steady' = [p \in Rsu \X Node |-> IF p \in inReach /\ p[2] \notin lost
                                            THEN Older(steady[p], LongSteady) ELSE 0]
      BY <1>17 DEF HelloTick
  <2>2. /\ Good(HelloEvent, events', queue')
        /\ DOMAIN events' = DOMAIN events
        /\ \A i \in DOMAIN events :
              /\ events[i].wait \in Nat \ {0}
              /\ events'[i].kind = events[i].kind /\ events'[i].node = events[i].node
              /\ events'[i].wait = events[i].wait - 1
      BY <1>1, <2>1, TickKeeps
  <2>3. ASSUME NEW limit \in Nat, NEW a \in 0 .. limit + 1
        PROVE  Older(a, limit) \in 0 .. limit + 1 /\ Older(a, limit) <= a + 1
      BY DEF Older
  <2>4. LongAway \in Nat /\ LongSteady \in Nat
      BY <1>2 DEF LongAway, LongSteady
  <2>5. HelloType'
    <3>1. inRecord' \in [Node -> {NoRecord} \cup 0 .. LifeTime] /\ entry' = entry
      <4>1. \A r \in {NoRecord} \cup 0 .. LifeTime : r # NoRecord /\ r # 0 => r - 1 \in 0 .. LifeTime
          BY <1>2
      <4> QED
          BY <4>1, <1>1, <2>1 DEF Tick, HelloType, Pending
    <3>2. 0 \in 0 .. LongAway + 1 /\ 0 \in 0 .. LongSteady + 1
        BY <2>4
    <3>3. \A n \in Node : Older(away[n], LongAway) \in 0 .. LongAway + 1
        BY <2>3, <2>4, <1>1 DEF HelloType
    <3>4. \A p \in Rsu \X Node : Older(steady[p], LongSteady) \in 0 .. LongSteady + 1
        BY <2>3, <2>4, <1>1 DEF HelloType
    <3>5. away' \in [Node -> 0 .. LongAway + 1] /\ steady' \in [Rsu \X Node -> 0 .. LongSteady + 1]
        BY <2>1, <3>2, <3>3, <3>4
    <3> QED
        BY <3>1, <3>5, <2>1, <1>1 DEF HelloType
  <2>6. \A n \in Node : away[n] \in 0 .. LongAway + 1 /\ away'[n] \in 0 .. LongAway + 1
                        /\ away'[n] <= away[n] + 1
    <3> SUFFICES ASSUME NEW n \in Node
                 PROVE  away[n] \in 0 .. LongAway + 1 /\ away'[n] \in 0 .. LongAway + 1
                        /\ away'[n] <= away[n] + 1
        OBVIOUS
    <3>1. away[n] \in 0 .. LongAway + 1 /\ away'[n] \in 0 .. LongAway + 1
        BY <1>1, <2>5 DEF HelloType
    <3>2. away'[n] = 0 \/ away'[n] = Older(away[n], LongAway)
        BY <2>1
    <3>3. Older(away[n], LongAway) <= away[n] + 1
        BY <3>1, <2>3, <2>4
    <3> QED
        BY <3>1, <3>2, <3>3, <2>4
  <2>7. \A d \in Range(events') : \E e \in Range(events) :
            /\ e.wait \in Nat \ {0} /\ d.kind = e.kind /\ d.node = e.node /\ d.wait = e.wait - 1
      BY <2>2 DEF Range
  <2>8. \A e \in Range(events) :
            /\ e.wait \in Nat \ {0}
            /\ \E d \in Range(events') : d.kind = e.kind /\ d.node = e.node /\ d.wait = e.wait - 1
      BY <2>2 DEF Range
  <2>9. NearIsNotAway'
      BY <2>1 DEF NearIsNotAway, InReach
  <2>10. HellosAreRecent'
    <3> SUFFICES ASSUME NEW n \in Node, NEW d \in Range(events')
                 PROVE  /\ Is(d, "receive", n) => away'[n] + d.wait <= MaxDelay
                        /\ Is(d, "OnData", n) => d.wait = 0 /\ away'[n] <= MaxDelay
        BY DEF HellosAreRecent
    <3>1. PICK e \in Range(events) :
              /\ e.wait \in Nat \ {0} /\ d.kind = e.kind /\ d.node = e.node /\ d.wait = e.wait - 1
        BY <2>7
    <3>2. /\ Is(d, "receive", n) => away[n] + e.wait <= MaxDelay
          /\ ~Is(d, "OnData", n)
        BY <3>1, <1>1 DEF Recent, HellosAreRecent, Is
    <3> QED
        BY <3>1, <3>2, <2>6, <1>2
  <2>11. BeliefEnds'
    <3> SUFFICES ASSUME NEW n \in Node, available'[n]
                 PROVE  \E d \in Range(events') : Is(d, "OnTimeout", n) /\ away'[n] + d.wait <= LongAway
        BY DEF BeliefEnds
    <3>1. PICK e \in Range(events) : Is(e, "OnTimeout", n) /\ away[n] + e.wait <= LongAway
        BY <2>1, <1>1 DEF Recent, BeliefEnds
    <3>2. PICK d \in Range(events') : d.kind = e.kind /\ d.node = e.node /\ d.wait = e.wait - 1
        BY <2>8
    <3>3. away'[n] + d.wait <= LongAway
        BY <3>1, <3>2, <2>4, <2>6, <2>8
    <3> QED
        BY <3>1, <3>2, <3>3 DEF Is
  <2>12. StartsIgnorant'
    <3> SUFFICES ASSUME NEW n \in Node, NEW s \in Range(events'), Is(s, "StartApplication", n)
                 PROVE  /\ n \notin entry' /\ ~available'[n]
                        /\ \A d \in Range(events') :
                              /\ ~Is(d, "OnData", n) /\ ~Is(d, "OnTimeout", n)
                              /\ Is(d, "StartApplication", n) => s.wait = d.wait
        BY DEF StartsIgnorant
    <3>1. PICK s0 \in Range(events) :
              /\ s0.wait \in Nat \ {0} /\ s.kind = s0.kind /\ s.node = s0.node /\ s.wait = s0.wait - 1
        BY <2>7
    <3>2. Is(s0, "StartApplication", n)
        BY <3>1 DEF Is
    <3>3. /\ n \notin entry /\ ~available[n]
          /\ \A e \in Range(events) :
                /\ ~Is(e, "OnData", n) /\ ~Is(e, "OnTimeout", n)
                /\ Is(e, "StartApplication", n) => s0.wait = e.wait
        BY <3>1, <3>2, <1>1 DEF Recent, StartsIgnorant
    <3>4. ASSUME NEW d \in Range(events')
          PROVE  /\ ~Is(d, "OnData", n) /\ ~Is(d, "OnTimeout", n)
                 /\ Is(d, "StartApplication", n) => s.wait = d.wait
      <4>1. PICK e \in Range(events) :
                /\ e.wait \in Nat \ {0} /\ d.kind = e.kind /\ d.node = e.node /\ d.wait = e.wait - 1
          BY <2>7
      <4> QED
          BY <3>1, <3>3, <4>1 DEF Is
    <3> QED
        BY <3>3, <3>4, <2>1 DEF Tick
  <2> QED
      BY <2>2, <2>5, <2>9, <2>10, <2>11, <2>12 DEF HelloInv, Recent
<1>18. CASE Drive
  <2>1. ~Due(events) /\ UNCHANGED <<vars, available, away>>
      BY <1>18 DEF Drive
  <2>2. PICK p \in Rsu \X Driving :
            /\ inReach' = IF p \in inReach THEN inReach \ {p} ELSE inReach \cup {p}
            /\ steady' = [steady EXCEPT ![p] = 0]
      BY <1>18 DEF Drive
  <2>3. p \in Rsu \X Node
      BY HelloAssumption
  <2>4. 0 \in 0 .. LongSteady + 1
      BY <1>2 DEF LongSteady
  <2>5. inReach' \subseteq Rsu \X Node /\ steady' \in [Rsu \X Node -> 0 .. LongSteady + 1]
      BY <1>1, <2>2, <2>3, <2>4 DEF HelloType
  <2>6. HelloType'
      BY <1>1, <2>1, <2>5 DEF HelloType, vars
  <2>7. Recent'
      BY <1>1, <2>1 DEF Recent, NearIsNotAway, HellosAreRecent, BeliefEnds, StartsIgnorant, vars, Due
  <2> QED
      BY <1>1, <2>1, <2>6, <2>7 DEF HelloInv, vars
<1>19. CASE UNCHANGED helloVars
  <2>1. HelloType'
      BY <1>1, <1>19 DEF HelloType, helloVars, vars
  <2>2. Recent'
      BY <1>1, <1>19 DEF Recent, NearIsNotAway, HellosAreRecent, BeliefEnds, StartsIgnorant,
                         helloVars, vars, Due, InReach
  <2> QED
      BY <1>1, <1>19, <2>1, <2>2 DEF HelloInv, helloVars, vars
<1>20. CASE HelloDispatch
  <2>1. UNCHANGED <<inReach, away>>
        /\ (SendAlert \/ ((StartProducer \/ StartConsumer \/ HelloReceived \/ HelloMissed \/ Network)
                          /\ UNCHANGED steady))
      BY <1>20 DEF HelloDispatch
  <2>2. CASE Network /\ UNCHANGED steady
    <3>1. (DataUnsolicited \/ OnIncomingData \/ ExecuteEvent \/ OnInterestFinalize \/ Mark) /\ Same
        BY <2>1, <2>2 DEF Network
    <3> QED
        BY <3>1, <1>9, <1>10, <1>11, <1>12, <1>21
  <2> QED
      BY <2>1, <2>2, <1>5, <1>6, <1>7, <1>15, <1>16
<1> QED
    BY <1>17, <1>18, <1>19, <1>20 DEF HelloNext

LEMMA HelloInvHolds == HelloSpec => []HelloInv
<1>1. HelloInit => HelloInv
    BY InitHelloInv
<1>2. HelloInv /\ [HelloNext]_helloVars => HelloInv'
    BY NextHelloInv
<1> QED
    BY <1>1, <1>2, PTL DEF HelloSpec

-----------------------------------------------------------------------------
(* The events of RSUs and vehicles stay sorted and hold what they should, and  *)
(* so do the beliefs of vehicles, for any number of them and any losses.       *)
THEOREM HelloTypes == HelloSpec => []HelloTypeOK
<1>1. HelloInv => HelloTypeOK
  <2> SUFFICES ASSUME HelloInv PROVE HelloTypeOK
      OBVIOUS
  <2>1. events \in Seq(HelloEvent) /\ Sorted(events)
      BY DEF HelloInv, Good
  <2>2. ASSUME NEW i \in DOMAIN events
        PROVE  /\ \/ events[i] \in [kind : Kind, node : Node, wait : Nat, valid : BOOLEAN]
                  \/ events[i] \in [kind : {"executeEvent", "mark"}, node : Forwarder, wait : Nat,
                                    valid : BOOLEAN]
                  \/ events[i] \in [kind : {"StartProducer", "SendAlert"}, node : Rsu,
                                    wait : 0 .. Interval, valid : {TRUE}]
               /\ \A j \in 1 .. i : events[j].wait <= events[i].wait
    <3>1. \A j \in 1 .. i : j \in DOMAIN events /\ j <= i
        BY <2>1
    <3>2. events[i] \in HelloEvent
        BY <2>1
    <3>4. \A j \in 1 .. i : events[j].wait <= events[i].wait
        BY <3>1, <2>1 DEF Sorted
    <3> QED
        BY <3>2, <3>4 DEF HelloEvent, EventType
  <2> QED
      BY <2>2 DEF HelloInv, HelloType, HelloTypeOK
<1> QED
    BY <1>1, HelloInvHolds, PTL

(* HelloConsumer::handleTimeout: whatever hellos are lost or delayed, a vehicle  *)
(* that has left the reach of every RSU believes in one for at most the lifetime *)
(* of its interest and the delay of one hello.                                   *)
THEOREM BeliefEndsInTime == HelloSpec => []BeliefIsBounded
<1>1. HelloInv => BeliefIsBounded
  <2> SUFFICES ASSUME HelloInv, NEW n \in Node, available[n] PROVE away[n] <= LongAway
      BY DEF BeliefIsBounded
  <2>1. PICK e \in Range(events) : away[n] + e.wait <= LongAway
      BY DEF HelloInv, Recent, BeliefEnds
  <2>2. e.wait \in Nat
      BY DEF HelloInv, Good, Sorted, Range
  <2>3. LongAway \in Nat /\ away[n] \in Nat
      BY SubscriptionAssumption DEF HelloInv, HelloType, LongAway
  <2> QED
      BY <2>1, <2>2, <2>3
<1> QED
    BY <1>1, HelloInvHolds, PTL
-----------------------------------------------------------------------------
(***************************************************************************)
(* How a vehicle loses its subscription.  The scheduler they share may     *)
(* post the callback of one on behalf of another; nothing else takes a     *)
(* subscription away.                                                      *)
(***************************************************************************)
\* The events that make a consumer register its interest.
Renewing == {"StartApplication", "OnData", "OnTimeout"}

Renewed(evs, n, w) == \E e \in Range(evs) : e.kind \in Renewing /\ e.node = n /\ e.wait <= w

Waiting(n) == \E s \in Range(events) : Is(s, "StartApplication", n)

\* Before a timer or the record of the consumer runs out, it renews its interest.
KeptFor(n) ==
    /\ \A t \in Range(queue) : Expires(t, n) => Renewed(events, n, t.wait)
    /\ inRecord[n] # NoRecord => Renewed(events, n, inRecord[n])
    /\ Subscribed(n) \/ n \in lost \/ Renewed(events, n, 0) \/ Waiting(n)

Kept ==
    /\ \A n \in Node : KeptFor(n)
    /\ lost \cap entry = {}
    /\ stopped = {}

LEMMA InitKept ==
    ASSUME HelloInit
    PROVE  Kept
<1>1. \A n \in Node : Waiting(n)
    BY InitEvents DEF Waiting
<1>2. \A t \in Range(queue), n \in Node : ~Expires(t, n)
    BY FirstMarkIsAhead DEF HelloInit, Expires
<1> QED
    BY <1>1, <1>2 DEF HelloInit, Kept, KeptFor

\* A step that keeps what renews the interest of a vehicle.
LEMMA KeptStays ==
    ASSUME NEW n \in Node, KeptFor(n),
           \A e \in Range(events) : e.kind \in Renewing /\ e.node = n => e \in Range(events'),
           \A t \in Range(queue') : Expires(t, n) => t \in Range(queue) \/ Renewed(events', n, t.wait),
           inRecord'[n] \in {inRecord[n], NoRecord},
           n \in lost => n \in lost',
           \/ n \in lost'
           \/ Renewed(events', n, 0)
           \/ inRecord'[n] = inRecord[n] /\ (n \in entry => n \in entry')
    PROVE  KeptFor(n)'
<1>1. ASSUME NEW w, Renewed(events, n, w) PROVE Renewed(events', n, w)
    BY <1>1 DEF Renewed
<1>2. Waiting(n) => Waiting(n)'
    BY DEF Waiting, Is, Renewing
<1>3. \A t \in Range(queue') : Expires(t, n) => Renewed(events', n, t.wait)
    BY <1>1 DEF KeptFor
<1>4. inRecord'[n] # NoRecord => Renewed(events', n, inRecord'[n])
    BY <1>1 DEF KeptFor
<1>5. Subscribed(n)' \/ n \in lost' \/ Renewed(events', n, 0) \/ Waiting(n)'
    BY <1>1, <1>2 DEF KeptFor, Subscribed
<1> QED
    BY <1>3, <1>4, <1>5 DEF KeptFor

LEMMA NextKept ==
    ASSUME HelloInv, Kept, [HelloNext]_helloVars
    PROVE  Kept'
<1> USE HelloEventIsSpace
<1>1. Good(HelloEvent, events, queue) /\ HelloType /\ Recent
    BY DEF HelloInv
<1>2. stopped = {} /\ lost \cap entry = {} /\ \A n \in Node : KeptFor(n)
    BY DEF Kept
<1>3. ASSUME Due(events)
      PROVE  /\ Next1 \in Range(events) /\ Next1.wait = 0
             /\ Next1.kind \in Kind \ {"mark", "executeEvent"} => Next1.node \in Node
             /\ Next1.kind \in {"mark", "executeEvent"} => Next1.node \in Forwarder
             /\ Range(events) = Range(Tail(events)) \cup {Next1}
    BY <1>1, <1>3, FirstEvent
<1>4. ASSUME UNCHANGED <<entry, inRecord, stopped, lost>>,
             \A e \in Range(events) : e.kind \in Renewing => e \in Range(events'),
             \A t \in Range(queue') : t \in Range(queue) \/ t.kind = "mark"
      PROVE  Kept'
  <2>1. ASSUME NEW n \in Node PROVE KeptFor(n)'
    <3>1. \A t \in Range(queue') : Expires(t, n) => t \in Range(queue)
        BY <1>4 DEF Expires
    <3> QED
        BY <1>2, <1>4, <3>1, KeptStays
  <2> QED
      BY <1>2, <1>4, <2>1 DEF Kept
<1>5. ASSUME Due(events), RegisterInterest, Next1.kind \in Renewing
      PROVE  Kept'
  <2>0. PICK m \in Node : Next1.node = m
      BY <1>3, <1>5 DEF Renewing, Kind
  <2> DEFINE t == Event("OnTimeout", m, LifeTime)
  <2>1. m \in Node /\ Next1.kind # "executeEvent"
      BY <1>5 DEF Renewing
  <2>2. /\ Plain(events') =
               {e \in Plain(Tail(events)) : ~(e.kind = "OnTimeout" /\ e.node = m)} \cup {t}
        /\ \A d \in Range(queue') :
              (Expires(d, m) => d.wait = LifeTime) /\ (Expires(d, m) \/ d \in Range(queue))
      BY <1>1, <1>5, <2>0, <2>1, RegisterInterestKeeps
  <2>3. t.kind = "OnTimeout" /\ t.node = m /\ t.wait = LifeTime /\ LifeTime \in Nat
      BY SubscriptionAssumption DEF Event
  <2>4. /\ entry' = entry \cup {m} /\ stopped' = stopped /\ lost' = lost \ {m}
        /\ inRecord' = [inRecord EXCEPT ![m] = LifeTime]
      BY <1>5, <2>0 DEF RegisterInterest
  <2> HIDE DEF t
  <2>5. Renewed(events', m, LifeTime)
      BY <2>2, <2>3 DEF Renewed, Plain, Renewing
  <2>6. KeptFor(m)'
    <3>1. inRecord'[m] = LifeTime /\ m \in entry' /\ LifeTime # NoRecord
        BY <1>1, <2>1, <2>4, SubscriptionAssumption DEF HelloType
    <3> QED
        BY <3>1, <2>2, <2>5 DEF KeptFor, Subscribed
  <2>7. ASSUME NEW n \in Node, n # m PROVE KeptFor(n)'
    <3>1. \A e \in Range(events) : e.kind \in Renewing /\ e.node = n => e \in Range(events')
        BY <1>3, <1>5, <2>0, <2>2, <2>7 DEF Plain, Callback, Renewing
    <3>2. \A d \in Range(queue') : Expires(d, n) => d \in Range(queue)
        BY <2>2, <2>7 DEF Expires
    <3>3. inRecord'[n] = inRecord[n] /\ (n \in entry => n \in entry') /\ (n \in lost => n \in lost')
        BY <1>1, <2>4, <2>7 DEF HelloType
    <3> QED
        BY <1>2, <3>1, <3>2, <3>3, KeptStays
  <2> QED
      BY <1>2, <2>4, <2>6, <2>7 DEF Kept
<1>6. CASE StartConsumer \/ HelloReceived \/ HelloMissed
  <2>1. Due(events) /\ RegisterInterest /\ Next1.kind \in Renewing
      BY <1>6 DEF StartConsumer, HelloReceived, HelloMissed, StartApplication, OnData, OnTimeout, Run,
                  Renewing
  <2> QED
      BY <1>5, <2>1
<1>7. CASE StartProducer
  <2> DEFINE e == Event("SendAlert", Next1.node, 0)
  <2>1. /\ Due(events) /\ Next1.kind = "StartProducer"
        /\ events' = Enqueue(Tail(events), e)
        /\ UNCHANGED <<queue, entry, inRecord, stopped, lost>>
      BY <1>7 DEF StartProducer, Run
  <2>2. e.kind = "SendAlert" /\ e.wait = 0 /\ e \in HelloEvent
    <3>1. Next1.node \in Rsu
        BY <1>1, <2>1, FirstEvent DEF Kind
    <3>2. 0 \in 0 .. Interval
        BY HelloAssumption
    <3> QED
        BY <3>1, <3>2 DEF Event, HelloEvent
  <2>3. Good(HelloEvent, Tail(events), queue)
      BY <1>1, <2>1, FirstEvent
  <2> HIDE DEF e
  <2>4. Range(events') = Range(Tail(events)) \cup {e}
      BY <2>1, <2>2, <2>3, EnqueueGood
  <2>5. \A d \in Range(events) : d.kind \in Renewing => d \in Range(events')
      BY <1>3, <2>1, <2>4 DEF Renewing
  <2> QED
      BY <1>4, <2>1, <2>5
<1>8. CASE SendAlert
  <2> DEFINE e == Event("SendAlert", Next1.node, Interval)
  <2>1. /\ Due(events) /\ Next1.kind = "SendAlert"
        /\ UNCHANGED <<queue, entry, inRecord, stopped, lost>>
      BY <1>8 DEF SendAlert, Run
  <2>2. e.kind = "SendAlert" /\ e.wait \in Nat /\ e \in HelloEvent
    <3>1. Next1.node \in Rsu
        BY <1>1, <2>1, FirstEvent DEF Kind
    <3>2. Interval \in 0 .. Interval /\ Interval \in Nat
        BY HelloAssumption
    <3> QED
        BY <3>1, <3>2 DEF Event, HelloEvent
  <2>3. PICK hearers \in SUBSET Node, sent \in Seq(HelloEvent) : Sending(sent, hearers)
      BY <1>1, <1>8, SendAlertSends
  <2> HIDE DEF e
  <2>4. /\ Good(HelloEvent, sent, queue) /\ events' = Enqueue(sent, e)
        /\ \A d \in Range(Tail(events)) : d \in Range(sent)
      BY <2>3 DEF Sending, e
  <2>5. Range(events') = Range(sent) \cup {e}
      BY <2>2, <2>4, EnqueueGood
  <2>6. \A d \in Range(events) : d.kind \in Renewing => d \in Range(events')
      BY <1>3, <2>1, <2>4, <2>5 DEF Renewing
  <2> QED
      BY <1>4, <2>1, <2>6
<1>9. ASSUME Due(events), Next1.kind \notin Renewing, Plain(Tail(events)) \subseteq Plain(events')
      PROVE  \A e \in Range(events) : e.kind \in Renewing => e \in Range(events')
    BY <1>3, <1>9 DEF Plain, Callback, Renewing
<1>10. CASE DataUnsolicited
  <2>1. /\ Due(events) /\ Next1.kind = "receive" /\ Becomes(Rest)
        /\ UNCHANGED <<entry, inRecord, stopped, lost>>
      BY <1>10 DEF DataUnsolicited, Run
  <2>2. queue' = queue /\ Plain(events') = Plain(Tail(events))
      BY <1>1, <2>1, RestIsGood
  <2>3. \A e \in Range(events) : e.kind \in Renewing => e \in Range(events')
      BY <1>9, <2>1, <2>2 DEF Renewing
  <2> QED
      BY <1>4, <2>1, <2>2, <2>3
<1>11. CASE OnIncomingData
  <2> DEFINE m == Next1.node
             e1 == Event("OnData", m, 0)
  <2>1. /\ Due(events) /\ Next1.kind = "receive" /\ m \in entry
        /\ UNCHANGED <<entry, stopped, lost>>
        /\ inRecord' = [inRecord EXCEPT ![m] = IF Pending(m) THEN NoRecord ELSE @]
      BY <1>11 DEF OnIncomingData, Run
  <2>2. m \in Node
      BY <1>3, <2>1 DEF Kind
  <2>3. /\ Plain(events') = Plain(Tail(events)) \cup
               (IF Pending(m) /\ m \notin stopped THEN {e1} ELSE {})
        /\ \A t \in Range(queue') :
              (Expires(t, m) => t.wait = 0) /\ (Expires(t, m) \/ t \in Range(queue))
      BY <1>1, <1>11, <2>2, OnIncomingDataKeeps
  <2>4. \A e \in Range(events) : e.kind \in Renewing => e \in Range(events')
      BY <1>9, <2>1, <2>3 DEF Renewing
  <2>0. e1.kind = "OnData" /\ e1.wait = 0 /\ e1.node = m
      BY DEF Event
  <2> HIDE DEF m, e1
  <2>5. Renewed(events', m, 0)
    <3>1. CASE Pending(m)
      <4>1. e1 \in Range(events')
          BY <3>1, <1>2, <2>3 DEF Plain
      <4> QED
          BY <4>1, <2>0 DEF Renewed, Renewing
    <3>2. CASE ~Pending(m)
      <4>1. Renewed(events, m, 0)
        <5>1. CASE inRecord[m] = 0
          <6>1. 0 # NoRecord
              BY SubscriptionAssumption
          <6> QED
              BY <5>1, <6>1, <1>2, <2>2 DEF KeptFor
        <5>2. CASE inRecord[m] = NoRecord
          <6>1. Renewed(events, m, 0) \/ Waiting(m)
              BY <5>2, <1>2, <2>1, <2>2 DEF KeptFor, Subscribed
          <6>2. ASSUME NEW s \in Range(events), Is(s, "StartApplication", m) PROVE s.wait = 0
              BY <6>2, <1>1, <2>1, <2>2 DEF Recent, StartsIgnorant
          <6> QED
              BY <6>1, <6>2 DEF Waiting, Renewed, Renewing, Is
        <5> QED
            BY <3>2, <5>1, <5>2 DEF Pending
      <4> QED
          BY <4>1, <2>4 DEF Renewed
    <3> QED
        BY <3>1, <3>2
  <2>6. ASSUME NEW n \in Node PROVE KeptFor(n)'
    <3>1. inRecord'[n] \in {inRecord[n], NoRecord} /\ (n # m => inRecord'[n] = inRecord[n])
        BY <1>1, <2>1, <2>2 DEF HelloType
    <3>2. \A t \in Range(queue') : Expires(t, n) => t \in Range(queue) \/ Renewed(events', n, t.wait)
      <4>1. CASE n = m
          BY <4>1, <2>3, <2>5
      <4>2. CASE n # m
          BY <4>2, <2>3 DEF Expires
      <4> QED
          BY <4>1, <4>2
    <3> QED
        BY <1>2, <2>1, <2>4, <2>5, <3>1, <3>2, KeptStays
  <2> QED
      BY <1>2, <2>1, <2>6 DEF Kept
<1>12. CASE ExecuteEvent
  <2> DEFINE m == Next1.node
             erased == IF \E t \in {t \in {t \in Range(queue) : t.wait = 0} : t.node = m} : Expires(t, m)
                       THEN {m} ELSE {}
  <2>1. /\ Due(events) /\ Next1.kind = "executeEvent" /\ UNCHANGED <<stopped, lost>>
        /\ entry' = entry \ erased
        /\ inRecord' = [n \in Node |-> IF n \in erased THEN NoRecord ELSE inRecord[n]]
      BY <1>12 DEF ExecuteEvent, Run
  <2>2. m \in Forwarder
      BY <1>3, <2>1
  <2>3. /\ Plain(events') = Plain(Tail(events))
        /\ \A t \in Range(queue') : t \in Range(queue) \/ t.kind = "mark"
      BY <1>1, <1>12, <2>2, ExecuteEventKeeps
  <2>4. \A e \in Range(events) : e.kind \in Renewing => e \in Range(events')
      BY <1>9, <2>1, <2>3 DEF Renewing
  <2>5. ASSUME NEW n \in Node, n \in erased PROVE Renewed(events', n, 0)
    <3>1. n = m /\ \E t \in Range(queue) : t.wait = 0 /\ Expires(t, m)
        BY <2>5
    <3>2. Renewed(events, n, 0)
        BY <3>1, <1>2 DEF KeptFor
    <3> QED
        BY <3>2, <2>4 DEF Renewed
  <2> HIDE DEF erased
  <2>6. ASSUME NEW n \in Node PROVE KeptFor(n)'
    <3>1. /\ inRecord'[n] \in {inRecord[n], NoRecord}
          /\ \/ Renewed(events', n, 0)
             \/ inRecord'[n] = inRecord[n] /\ (n \in entry => n \in entry')
        BY <2>1, <2>5
    <3>2. \A t \in Range(queue') : Expires(t, n) => t \in Range(queue)
        BY <2>3 DEF Expires
    <3> QED
        BY <1>2, <2>1, <2>4, <3>1, <3>2, KeptStays
  <2>7. lost' \cap entry' = {} /\ stopped' = {}
      BY <1>2, <2>1
  <2> QED
      BY <2>6, <2>7 DEF Kept
<1>13. CASE OnInterestFinalize
  <2> DEFINE m == Next1.node
  <2>1. /\ Due(events) /\ Next1.kind = "onInterestFinalize" /\ stopped' = stopped
        /\ entry' = entry \ {m} /\ lost' = lost \cup {m}
        /\ inRecord' = [inRecord EXCEPT ![m] = NoRecord]
      BY <1>13 DEF OnInterestFinalize, Run
  <2>2. m \in Node
      BY <1>3, <2>1 DEF Kind
  <2>3. Plain(events') = Plain(Tail(events)) /\ Range(queue') \subseteq Range(queue)
      BY <1>1, <1>13, <2>2, OnInterestFinalizeKeeps
  <2>4. \A e \in Range(events) : e.kind \in Renewing => e \in Range(events')
      BY <1>9, <2>1, <2>3 DEF Renewing
  <2> HIDE DEF m
  <2>5. ASSUME NEW n \in Node PROVE KeptFor(n)'
    <3>1. /\ inRecord'[n] \in {inRecord[n], NoRecord}
          /\ n \in lost' \/ (inRecord'[n] = inRecord[n] /\ (n \in entry => n \in entry'))
        BY <1>1, <2>1, <2>2 DEF HelloType
    <3> QED
        BY <1>2, <2>1, <2>3, <2>4, <3>1, KeptStays
  <2>6. lost' \cap entry' = {} /\ stopped' = {}
      BY <1>2, <2>1
  <2> QED
      BY <2>5, <2>6 DEF Kept
<1>17. CASE Mark
  <2>1. /\ Due(events) /\ Next1.kind = "mark" /\ UNCHANGED <<entry, inRecord, stopped, lost>>
      BY <1>17 DEF Mark, Run
  <2>2. Next1.node \in Forwarder
      BY <1>3, <2>1
  <2>3. /\ Timer("mark", Next1.node, MarkInterval) \in TimerType /\ MarkInterval \in Nat
        /\ Timer("mark", Next1.node, MarkInterval).kind = "mark"
      BY <2>2, SubscriptionAssumption DEF Timer, TimerType
  <2>4. Becomes(Rest) \/ Becomes(Schedule(Rest, "mark", Next1.node, MarkInterval))
      BY <1>17 DEF Mark
  <2>5. /\ Plain(events') = Plain(Tail(events))
        /\ \A t \in Range(queue') : t \in Range(queue) \/ t.kind = "mark"
    <3>1. CASE Becomes(Rest)
        BY <1>1, <2>1, <3>1, RestIsGood
    <3>2. CASE Becomes(Schedule(Rest, "mark", Next1.node, MarkInterval))
        BY <1>1, <2>1, <2>2, <2>3, <3>2, SchedulingKeeps
    <3> QED
        BY <2>4, <3>1, <3>2
  <2>6. \A e \in Range(events) : e.kind \in Renewing => e \in Range(events')
      BY <1>9, <2>1, <2>5 DEF Renewing
  <2> QED
      BY <1>4, <2>1, <2>5, <2>6
<1>14. CASE HelloTick
  <2>1. /\ Tick /\ UNCHANGED <<entry, stopped, lost>> /\ ~Due(events)
        /\ inRecord' = [n \in Node |-> IF Pending(n) THEN inRecord[n] - 1 ELSE inRecord[n]]
      BY <1>14 DEF HelloTick, Tick
  <2>2. /\ DOMAIN events' = DOMAIN events
        /\ \A i \in DOMAIN events :
              /\ events[i].wait \in Nat \ {0}
              /\ events'[i].kind = events[i].kind /\ events'[i].node = events[i].node
              /\ events'[i].wait = events[i].wait - 1
        /\ \A t \in Range(queue') : \E t0 \in Range(queue) :
              t.kind = t0.kind /\ t.node = t0.node /\ t.wait = t0.wait - 1
      BY <1>1, <2>1, TickKeeps
  <2>3. \A e \in Range(events) :
            /\ e.wait \in Nat \ {0}
            /\ \E d \in Range(events') : d.kind = e.kind /\ d.node = e.node /\ d.wait = e.wait - 1
      BY <2>2 DEF Range
  <2>4. ASSUME NEW n \in Node PROVE KeptFor(n)'
    <3>1. /\ \A t \in Range(queue) : Expires(t, n) => Renewed(events, n, t.wait)
          /\ inRecord[n] # NoRecord => Renewed(events, n, inRecord[n])
          /\ Subscribed(n) \/ n \in lost \/ Renewed(events, n, 0) \/ Waiting(n)
        BY <1>2 DEF KeptFor
    <3>2. ASSUME NEW w \in Int, Renewed(events, n, w) PROVE Renewed(events', n, w - 1)
      <4>1. PICK e \in Range(events) : e.kind \in Renewing /\ e.node = n /\ e.wait <= w
          BY <3>2 DEF Renewed
      <4>2. PICK d \in Range(events') : d.kind = e.kind /\ d.node = e.node /\ d.wait = e.wait - 1
          BY <2>3
      <4>3. d.wait <= w - 1
          BY <2>3, <4>1, <4>2
      <4> QED
          BY <4>1, <4>2, <4>3 DEF Renewed
    <3>3. ~Renewed(events, n, 0)
        BY <2>3 DEF Renewed
    <3>4. \A t \in Range(queue) : t.wait \in Int
        BY <1>1 DEF Good, Sorted, Range
    <3>5. ASSUME NEW t \in Range(queue'), Expires(t, n) PROVE Renewed(events', n, t.wait)
      <4>1. PICK t0 \in Range(queue) : t.kind = t0.kind /\ t.node = t0.node /\ t.wait = t0.wait - 1
          BY <2>2
      <4>2. Renewed(events, n, t0.wait)
          BY <3>1, <3>5, <4>1 DEF Expires
      <4> QED
          BY <3>2, <3>4, <4>1, <4>2
    <3>6. inRecord[n] \in {NoRecord} \cup 0 .. LifeTime
        BY <1>1 DEF HelloType
    <3>7. inRecord'[n] # NoRecord => Renewed(events', n, inRecord'[n])
      <4>1. CASE Pending(n)
        <5>1. inRecord[n] \in Int /\ inRecord[n] # NoRecord
            BY <3>6, <4>1 DEF Pending
        <5>2. inRecord'[n] = inRecord[n] - 1
            BY <4>1, <2>1
        <5> QED
            BY <5>1, <5>2, <3>1, <3>2
      <4>2. CASE ~Pending(n)
        <5>1. inRecord'[n] = inRecord[n]
            BY <4>2, <2>1
        <5>2. inRecord[n] = NoRecord \/ inRecord[n] = 0
            BY <4>2 DEF Pending
        <5> QED
            BY <5>1, <5>2, <3>1, <3>3
      <4> QED
          BY <4>1, <4>2
    <3>8. Subscribed(n)' \/ n \in lost' \/ Waiting(n)'
      <4>1. CASE Subscribed(n)
        <5>1. inRecord[n] # NoRecord => inRecord[n] - 1 # NoRecord \/ inRecord[n] = 0
            BY <3>6, SubscriptionAssumption
        <5> QED
            BY <4>1, <5>1, <2>1 DEF Subscribed, Pending
      <4>2. CASE Waiting(n)
          BY <4>2, <2>3 DEF Waiting, Is
      <4> QED
          BY <4>1, <4>2, <2>1, <3>1, <3>3
    <3> QED
        BY <3>5, <3>7, <3>8 DEF KeptFor
  <2> QED
      BY <1>2, <2>1, <2>4 DEF Kept
<1>15. CASE UNCHANGED vars
    BY <1>15 DEF vars, Kept, KeptFor, Subscribed, Waiting
<1>16. Drive \/ UNCHANGED helloVars => UNCHANGED vars
    BY DEF Drive, helloVars
<1> QED
    BY <1>6, <1>7, <1>8, <1>10, <1>11, <1>12, <1>13, <1>14, <1>15, <1>16, <1>17
    DEF HelloNext, HelloDispatch, Network

(* AlertConsumer::OnData and OnTimeout, with the timers of the PIT: nothing but *)
(* a posted callback takes the subscription of a hello consumer away, in all    *)
(* orders of its timeout, the expiry of its entry, the marks and the arrival of *)
(* hellos, for any number of vehicles on one scheduler.                         *)
THEOREM OnlyPostingLoses == HelloSpec => []LostByPostingOnly
<1>1. HelloInit => HelloInv /\ Kept
    BY InitHelloInv, InitKept
<1>2. HelloInv /\ Kept /\ [HelloNext]_helloVars => HelloInv' /\ Kept'
    BY NextHelloInv, NextKept
<1>3. HelloInv /\ Kept => LostByPostingOnly
  <2> SUFFICES ASSUME HelloInv, Kept, ~Due(events), NEW n \in Node, Started(n)
               PROVE  Subscribed(n) \/ n \in lost
      BY DEF LostByPostingOnly
  <2>1. events \in Seq(HelloEvent) /\ Sorted(events)
      BY DEF HelloInv, Good
  <2>2. \A i \in DOMAIN events : events[i].wait \in Nat \ {0}
    <3> SUFFICES ASSUME NEW i \in DOMAIN events PROVE events[i].wait \in Nat \ {0}
        OBVIOUS
    <3>1. events # <<>> /\ 1 \in DOMAIN events /\ 1 <= i
        BY <2>1
    <3> QED
        BY <3>1, <2>1 DEF Due, Sorted
  <2>3. ~Renewed(events, n, 0)
      BY <2>2 DEF Renewed, Range
  <2>4. ~Waiting(n)
      BY DEF Started, Waiting, Is, Range
  <2> QED
      BY <2>3, <2>4 DEF Kept, KeptFor
<1> QED
    BY <1>1, <1>2, <1>3, PTL DEF HelloSpec

-----------------------------------------------------------------------------
(***************************************************************************)
(* Vehicles that start with the simulation, and a lifetime long enough for *)
(* an interval and a delay: each of the last two hellos of an RSU in reach *)
(* is on its way, or the vehicle has heard it and believes in the RSU for  *)
(* the rest of the lifetime, unless it has lost its subscription.          *)
(***************************************************************************)
\* A hello sent b ticks ago.
Heard(n, b) ==
    \/ \E e \in Range(events) : Is(e, "receive", n) /\ e.wait + b <= MaxDelay
    \/ \E e \in Range(events) : Is(e, "OnData", n)
    \/ available[n] /\ \A e \in Range(events) : Is(e, "OnTimeout", n) => LifeTime <= e.wait + b

\* The ages of the last two hellos if the next one is due in w.
Ages(w) == {Interval - w, 2 * Interval - w}

HellosHeard ==
    \A r \in Rsu, n \in Node : \A e \in Range(events) : Is(e, "SendAlert", r) =>
        \A b \in Ages(e.wait) : b < LifeTime /\ b < steady[<<r, n>>] => Heard(n, b)

ProducersGoOn ==
    \A r \in Rsu :
        /\ \E e \in Range(events) : Is(e, "SendAlert", r) \/ Is(e, "StartProducer", r)
        /\ \A e \in Range(events) : Is(e, "StartProducer", r) =>
               \A n \in Node : steady[<<r, n>>] + e.wait <= HelloStart[r]

\* A hello that finds the subscription lost ends the history of its vehicle.
LostIsNotSteady ==
    \A n \in lost : \A e \in Range(events) : Is(e, "receive", n) /\ e.wait = 0 =>
        \A r \in Rsu : steady[<<r, n>>] = 0

\* The consumer is subscribed when the first hello arrives.
QuietStart ==
    \A s \in Range(events) : s.kind = "StartApplication" =>
        s.wait = 0 /\ \A e \in Range(events) : e.kind = "receive" => e.wait # 0

SteadyInv == InTurn(events) /\ QuietStart /\ ProducersGoOn /\ HellosHeard /\ LostIsNotSteady

LEMMA InitSteady ==
    ASSUME \A n \in Node : StartTime[n] = 0, HelloInit
    PROVE  SteadyInv
<1>1. /\ InTurn(events)
      /\ \A e \in Range(events) :
            /\ e.kind \in {"StartApplication", "StartProducer", "executeEvent"}
            /\ e.kind = "StartApplication" => e.wait = StartTime[e.node]
            /\ e.kind = "StartProducer" => e.wait = HelloStart[e.node]
      /\ \A r \in Rsu : \E e \in Range(events) : Is(e, "StartProducer", r)
    BY InitEvents
<1>2. HelloInv
    BY InitHelloInv
<1>3. \A e \in Range(events) : e.kind = "StartApplication" => e.node \in Node
  <2>1. \A i \in DOMAIN events : events[i] \in HelloEvent
      BY <1>2 DEF HelloInv, Good
  <2> QED
      BY <2>1 DEF HelloEvent, EventType, Range
<1>4. QuietStart
    BY <1>1, <1>3 DEF QuietStart
<1>5. ProducersGoOn
  <2>1. \A r \in Rsu : HelloStart[r] \in Nat
      BY HelloAssumption
  <2>2. \A r \in Rsu, n \in Node : steady[<<r, n>>] = 0
      BY DEF HelloInit
  <2>3. \A r \in Rsu : \A e \in Range(events) : Is(e, "StartProducer", r) => e.wait = HelloStart[r]
      BY <1>1 DEF Is
  <2> QED
      BY <1>1, <2>1, <2>2, <2>3 DEF ProducersGoOn
<1>6. HellosHeard
    BY <1>1 DEF HellosHeard, Is
<1>7. LostIsNotSteady
    BY DEF HelloInit, LostIsNotSteady
<1> QED
    BY <1>1, <1>4, <1>5, <1>6, <1>7 DEF SteadyInv

LEMMA EventFields ==
    ASSUME NEW e \in HelloEvent
    PROVE  /\ e.wait \in Nat
           /\ e.kind \in Kind => e.node \in Node \/ e.kind \in {"mark", "executeEvent"}
           /\ e.kind \notin Kind => e.node \in Rsu /\ e.wait \in 0 .. Interval
<1>1. Interval \in Nat
    BY HelloAssumption
<1>2. CASE e \in EventType
    BY <1>2 DEF EventType
<1>3. CASE e \notin EventType
  <2>1. e \in [kind : {"StartProducer", "SendAlert"}, node : Rsu, wait : 0 .. Interval, valid : {TRUE}]
      BY <1>3 DEF HelloEvent
  <2>2. e.kind \in {"StartProducer", "SendAlert"} /\ e.node \in Rsu /\ e.wait \in 0 .. Interval
      BY <2>1
  <2> QED
      BY <2>2, <1>1 DEF Kind
<1> QED
    BY <1>2, <1>3

LEMMA HeardStays ==
    ASSUME NEW n \in Node, NEW b, Heard(n, b), available'[n] = available[n],
           \A e \in Range(events) :
               e.kind \in {"receive", "OnData"} /\ e.node = n => e \in Range(events'),
           \A e \in Range(events') : e.kind = "OnTimeout" => e \in Range(events)
    PROVE  Heard(n, b)'
  BY DEF Heard, Is

\* A step of a vehicle: what RSUs do is left alone, what was heard stays heard.
LEMMA SteadyKeeps ==
    ASSUME SteadyInv, InTurn(events'), steady' = steady, HelloInv,
           \A e \in Range(events') :
               e.kind \in {"SendAlert", "StartProducer", "receive", "StartApplication"} =>
                   e \in Range(events),
           \A e \in Range(events) :
               e.kind \in {"SendAlert", "StartProducer"} => e \in Range(events'),
           lost' \subseteq lost \/ \A e \in Range(events) : e.kind = "receive" => e.wait # 0,
           \A n \in Node :
               \/ \A r \in Rsu : steady[<<r, n>>] = 0
               \/ \A b \in Nat : b < LifeTime /\ Heard(n, b) => Heard(n, b)'
    PROVE  SteadyInv'
<1>1. QuietStart'
    BY DEF SteadyInv, QuietStart
<1>2. ProducersGoOn'
  <2> SUFFICES ASSUME NEW r \in Rsu
               PROVE  /\ \E e \in Range(events') : Is(e, "SendAlert", r) \/ Is(e, "StartProducer", r)
                      /\ \A e \in Range(events') : Is(e, "StartProducer", r) =>
                             \A n \in Node : steady'[<<r, n>>] + e.wait <= HelloStart[r]
      BY DEF ProducersGoOn
  <2> QED
      BY DEF SteadyInv, ProducersGoOn, Is
<1>3. HellosHeard'
  <2> SUFFICES ASSUME NEW r \in Rsu, NEW n \in Node, NEW e \in Range(events'), Is(e, "SendAlert", r),
                      NEW b \in Ages(e.wait), b < LifeTime, b < steady'[<<r, n>>]
               PROVE  Heard(n, b)'
      BY DEF HellosHeard
  <2>1. e \in Range(events) /\ e.wait \in 0 .. Interval
    <3>1. e \in Range(events)
        BY DEF Is
    <3>2. \A i \in DOMAIN events : events[i] \in HelloEvent
        BY DEF HelloInv, Good
    <3>3. e \in HelloEvent /\ e.kind = "SendAlert"
        BY <3>1, <3>2 DEF Range, Is
    <3>4. e \notin EventType
        BY <3>3 DEF EventType, Kind
    <3> QED
        BY <3>1, <3>3, <3>4 DEF HelloEvent
  <2>2. Heard(n, b)
      BY <2>1 DEF SteadyInv, HellosHeard
  <2>3. b \in Nat
      BY <2>1, HelloAssumption DEF Ages
  <2>4. ~\A q \in Rsu : steady[<<q, n>>] = 0
      BY <2>3
  <2> QED
      BY <2>2, <2>3, <2>4
<1>4. LostIsNotSteady'
    BY DEF SteadyInv, LostIsNotSteady, Is
<1> QED
    BY <1>1, <1>2, <1>3, <1>4 DEF SteadyInv

LEMMA NextSteady ==
    ASSUME MaxDelay <= Interval, Interval + MaxDelay <= LifeTime,
           HelloInv, Kept, SteadyInv, [HelloNext]_helloVars
    PROVE  SteadyInv'
<1> USE HelloEventIsSpace
<1>1. Good(HelloEvent, events, queue) /\ HelloType /\ Recent
    BY DEF HelloInv
<1>2. /\ MaxDelay \in Nat \ {0} /\ LifeTime \in Nat \ {0} /\ Interval \in Nat \ {0}
      /\ MaxDelay < LifeTime
    BY SubscriptionAssumption, HelloAssumption
<1>3. InTurn(events) /\ QuietStart /\ ProducersGoOn /\ HellosHeard /\ LostIsNotSteady
    BY DEF SteadyInv
<1>4. ASSUME Due(events)
      PROVE  /\ Next1 \in Range(events) /\ Next1.wait = 0
             /\ Next1.kind \in Kind \ {"mark", "executeEvent"} => Next1.node \in Node
             /\ Next1.kind \in {"mark", "executeEvent"} => Next1.node \in Forwarder
             /\ Next1.kind \notin Kind => Next1.node \in Rsu
             /\ Range(events) = Range(Tail(events)) \cup {Next1}
             /\ InTurn(Tail(events))
             /\ Next1.kind # "executeEvent" => Good(HelloEvent, Tail(events), queue)
    BY <1>1, <1>3, <1>4, FirstEvent
<1>5. \A e \in Range(events) : e.kind = "receive" => e.wait < LifeTime
  <2> SUFFICES ASSUME NEW e \in Range(events), e.kind = "receive" PROVE e.wait < LifeTime
      OBVIOUS
  <2>1. e \in HelloEvent
      BY <1>1, EventsAre
  <2>2. e.node \in Node /\ e.wait \in Nat
      BY <2>1, EventFields DEF Kind
  <2>3. away[e.node] + e.wait <= MaxDelay /\ away[e.node] \in Nat
      BY <1>1, <1>2, <2>2 DEF Recent, HellosAreRecent, HelloType, Is, LongAway
  <2> QED
      BY <1>2, <2>2, <2>3
<1>6. ASSUME Due(events), RegisterInterest, steady' = steady, Next1.kind \in Renewing,
             NEW v \in Node, Next1.node = v,
             Next1.kind = "OnData" => available'[v],
             Next1.kind = "StartApplication" => available'[v] = available[v],
             \A n \in Node : n # v => available'[n] = available[n]
      PROVE  SteadyInv'
  <2> DEFINE t == Event("OnTimeout", v, LifeTime)
  <2>1. Next1.node = v /\ Next1.kind # "executeEvent"
      BY <1>6 DEF Renewing
  <2>2. /\ Plain(events') = {e \in Plain(Tail(events)) : ~(e.kind = "OnTimeout" /\ e.node = v)} \cup {t}
        /\ InTurn(events')
      BY <1>1, <1>3, <1>5, <1>6, <2>1, RegisterInterestKeeps
  <2>3. t.kind = "OnTimeout" /\ t.wait = LifeTime /\ t.node = v
      BY DEF Event
  <2>9. lost' \subseteq lost
      BY <1>6 DEF RegisterInterest
  <2> HIDE DEF t
  <2>4. \A e \in Range(events') :
            e.kind \in {"SendAlert", "StartProducer", "receive", "StartApplication"} =>
                e \in Range(events)
      BY <1>4, <1>6, <2>2, <2>3 DEF Plain, Callback
  <2>5. \A e \in Range(events) :
            e.kind \in {"SendAlert", "StartProducer", "receive"} => e \in Range(events')
      BY <1>4, <1>6, <2>2 DEF Plain, Callback, Renewing
  <2>6. \A e \in Range(events') : Is(e, "OnTimeout", v) => e.wait = LifeTime
      BY <2>2, <2>3 DEF Plain, Callback, Is
  <2>7. ASSUME NEW b \in Nat, b < LifeTime, Heard(v, b) PROVE Heard(v, b)'
    <3>1. CASE \E e \in Range(events) : Is(e, "receive", v) /\ e.wait + b <= MaxDelay
        BY <3>1, <2>5 DEF Heard, Is
    <3>2. CASE available'[v]
        BY <3>2, <1>2, <2>6 DEF Heard
    <3>3. CASE ~available'[v] /\ \E e \in Range(events) : Is(e, "OnData", v)
      <4>1. PICK e \in Range(events) : Is(e, "OnData", v)
          BY <3>3
      <4>2. e # Next1
          BY <3>3, <4>1, <1>6 DEF Is
      <4>3. e \in Range(events')
          BY <4>1, <4>2, <1>4, <1>6, <2>2 DEF Plain, Callback, Is
      <4> QED
          BY <4>1, <4>3 DEF Heard
    <3>4. CASE /\ ~available'[v] /\ available[v]
               /\ \A e \in Range(events) : Is(e, "OnTimeout", v) => LifeTime <= e.wait + b
      <4>1. Next1.kind = "OnTimeout"
          BY <3>4, <1>6 DEF Renewing
      <4>2. LifeTime <= 0 + b
          BY <3>4, <4>1, <1>4, <1>6, <2>1 DEF Is
      <4> QED
          BY <4>2, <2>7, <1>2
    <3> QED
        BY <3>1, <3>2, <3>3, <3>4, <2>7 DEF Heard
  <2>8. ASSUME NEW n \in Node, n # v, NEW b \in Nat, Heard(n, b) PROVE Heard(n, b)'
    <3>1. \A e \in Range(events) :
              e.kind \in {"receive", "OnData"} /\ e.node = n => e \in Range(events')
        BY <1>4, <1>6, <2>2, <2>8 DEF Plain, Callback
    <3>2. \A e \in Range(events') : Is(e, "OnTimeout", n) => e \in Range(events)
      <4>1. \A e \in Range(events') : Is(e, "OnTimeout", n) => e \in Plain(events') /\ e # t
          BY <2>3, <2>8 DEF Plain, Is, Callback
      <4>2. \A e \in Plain(events') : e # t => e \in Range(Tail(events))
          BY <2>2 DEF Plain
      <4> QED
          BY <1>4, <1>6, <4>1, <4>2
    <3>3. available'[n] = available[n]
        BY <1>6, <2>8
    <3> QED
        BY <2>8, <3>1, <3>2, <3>3 DEF Heard, Is
  <2> QED
      BY <1>6, <2>2, <2>4, <2>5, <2>7, <2>8, <2>9, SteadyKeeps
<1>7. CASE (StartConsumer \/ HelloReceived \/ HelloMissed) /\ steady' = steady
  <2>1. Due(events) /\ RegisterInterest /\ Next1.kind \in Renewing
      BY <1>7 DEF StartConsumer, HelloReceived, HelloMissed, StartApplication, OnData, OnTimeout, Run,
                  Renewing
  <2>2. /\ Next1.kind = "OnData" => available' = [available EXCEPT ![Next1.node] = TRUE]
        /\ Next1.kind = "StartApplication" => available' = available
      BY <1>7 DEF StartConsumer, HelloReceived, HelloMissed, StartApplication, OnData, OnTimeout, Run
  <2>4. PICK v \in Node : Next1.node = v
      BY <1>4, <2>1 DEF Renewing, Kind
  <2>3. /\ Next1.kind = "OnData" => available'[v]
        /\ \A n \in Node : n # v => available'[n] = available[n]
    <3>1. \/ available' = [available EXCEPT ![v] = TRUE]
          \/ available' = [available EXCEPT ![v] = FALSE]
          \/ available' = available
        BY <1>7, <2>4 DEF StartConsumer, HelloReceived, HelloMissed
    <3> QED
        BY <1>1, <2>2, <2>4, <3>1 DEF HelloType
  <2> QED
      BY <1>6, <1>7, <2>1, <2>2, <2>3, <2>4
<1>8. ASSUME Due(events), steady' = steady, InTurn(events'),
             Next1.kind \in {"receive", "executeEvent", "onInterestFinalize", "mark"},
             Plain(Tail(events)) \subseteq Plain(events'),
             \A e \in Plain(events') : e \in Plain(Tail(events)) \/ e.kind = "OnData",
             lost' \subseteq lost \/ \A e \in Range(events) : e.kind = "receive" => e.wait # 0,
             \A n \in Node :
                 \/ \A r \in Rsu : steady[<<r, n>>] = 0
                 \/ \A b \in Nat : b < LifeTime /\ Heard(n, b) => Heard(n, b)'
      PROVE  SteadyInv'
  <2>1. \A e \in Range(events') :
            e.kind \in {"SendAlert", "StartProducer", "receive", "StartApplication"} =>
                e \in Range(events)
      BY <1>4, <1>8 DEF Plain, Callback
  <2>2. \A e \in Range(events) : e.kind \in {"SendAlert", "StartProducer"} => e \in Range(events')
      BY <1>4, <1>8 DEF Plain, Callback
  <2> QED
      BY <1>8, <2>1, <2>2, SteadyKeeps
<1>9. ASSUME Due(events), Next1.kind = "receive", NEW v, Renewed(events, v, 0),
             Plain(Tail(events)) \subseteq Plain(events')
      PROVE  \E e \in Range(events') : Is(e, "OnData", v)
  <2>1. PICK e \in Range(events) : e.kind \in Renewing /\ e.node = v /\ e.wait <= 0
      BY <1>9 DEF Renewed
  <2>2. e \in HelloEvent
      BY <1>1, EventsAre
  <2>3. e.wait = 0 /\ e.node = v
    <3>1. e.wait \in Nat
        BY <2>2, EventFields
    <3> QED
        BY <3>1, <2>1
  <2>4. e.kind # "StartApplication"
      BY <1>3, <1>4, <1>9, <2>1 DEF QuietStart
  <2>5. e.kind # "OnTimeout"
    <3> SUFFICES ASSUME e.kind = "OnTimeout" PROVE FALSE
        OBVIOUS
    <3>1. PICK j \in DOMAIN events : events[j] = e
        BY DEF Range
    <3>2. events \in Seq(HelloEvent) /\ events # <<>>
        BY <1>1, <1>9 DEF Good, Due
    <3>3. 1 \in DOMAIN events /\ Next1 = events[1] /\ 1 <= j
        BY <3>1, <3>2 DEF Next1
    <3>4. j # 1
        BY <3>1, <3>3, <1>9
    <3>5. 1 < j
        BY <3>1, <3>2, <3>3, <3>4
    <3>6. events[1].wait < events[j].wait
        BY <3>1, <3>3, <3>5, <1>3, <1>9 DEF InTurn
    <3> QED
        BY <3>1, <3>3, <3>6, <2>3, <1>4, <1>9
  <2>6. e.kind = "OnData" /\ e # Next1
      BY <2>1, <2>4, <2>5, <1>9 DEF Renewing
  <2> QED
      BY <2>3, <2>6, <1>4, <1>9 DEF Plain, Callback, Is
<1>10. ASSUME Due(events), Next1.kind = "receive", NEW v
       PROVE  ~Waiting(v)
  <2>1. \A s \in Range(events) : s.kind = "StartApplication" => Next1.wait # 0
      BY <1>3, <1>4, <1>10 DEF QuietStart
  <2> QED
      BY <2>1, <1>4, <1>10 DEF Waiting, Is
<1>21. \A n \in Node :
           /\ inRecord[n] # NoRecord => Renewed(events, n, inRecord[n])
           /\ Subscribed(n) \/ n \in lost \/ Renewed(events, n, 0) \/ Waiting(n)
    BY DEF Kept, KeptFor
<1>22. ASSUME Due(events), Next1.kind = "receive", NEW v \in Node, Next1.node = v,
              Plain(Tail(events)) \subseteq Plain(events'),
              \A e \in Plain(events') : e \in Plain(Tail(events)) \/ e.kind = "OnData",
              available' = available
       PROVE  \A n \in Node : n # v => \A b \in Nat : Heard(n, b) => Heard(n, b)'
  <2>1. ASSUME NEW n \in Node, n # v, NEW b \in Nat, Heard(n, b) PROVE Heard(n, b)'
    <3>1. \A e \in Range(events) :
              e.kind \in {"receive", "OnData"} /\ e.node = n => e \in Range(events')
        BY <1>4, <1>22, <2>1 DEF Plain, Callback
    <3>2. \A e \in Range(events') : e.kind = "OnTimeout" => e \in Range(events)
        BY <1>4, <1>22 DEF Plain, Callback
    <3> QED
        BY <1>22, <2>1, <3>1, <3>2, HeardStays
  <2> QED
      BY <2>1
<1>11. CASE DataUnsolicited /\ steady' = steady /\ available' = available
  <2>1. /\ Due(events) /\ Next1.kind = "receive" /\ Becomes(Rest) /\ Next1.node \notin entry
        /\ lost' = lost
      BY <1>11 DEF DataUnsolicited, Run
  <2>2. events' = Tail(events)
      BY <2>1 DEF Becomes, Rest
  <2>3. PICK v \in Node : Next1.node = v
      BY <1>4, <2>1 DEF Kind
  <2>4. (\A r \in Rsu : steady[<<r, v>>] = 0) \/ \A b : Heard(v, b)'
    <3>1. CASE v \in lost
        BY <3>1, <1>3, <1>4, <2>1, <2>3 DEF LostIsNotSteady, Is
    <3>2. CASE v \notin lost
      <4>1. Renewed(events, v, 0)
          BY <3>2, <1>10, <1>21, <2>1, <2>3 DEF Subscribed
      <4>2. \E e \in Range(events') : Is(e, "OnData", v)
          BY <1>9, <2>1, <2>2, <4>1
      <4> QED
          BY <4>2 DEF Heard
    <3> QED
        BY <3>1, <3>2
  <2>5. \A n \in Node : n # v => \A b \in Nat : Heard(n, b) => Heard(n, b)'
      BY <1>11, <1>22, <2>1, <2>2, <2>3
  <2>6. \A n \in Node :
            \/ \A r \in Rsu : steady[<<r, n>>] = 0
            \/ \A b \in Nat : b < LifeTime /\ Heard(n, b) => Heard(n, b)'
      BY <2>4, <2>5
  <2>7. Plain(events') = Plain(Tail(events)) /\ InTurn(events')
      BY <1>4, <2>1, <2>2
  <2> QED
      BY <1>8, <1>11, <2>1, <2>6, <2>7
<1>12. CASE OnIncomingData /\ steady' = steady /\ available' = available
  <2>1. Due(events) /\ Next1.kind = "receive" /\ Next1.node \in entry /\ lost' = lost
      BY <1>12 DEF OnIncomingData, Run
  <2>2. PICK v \in Node : Next1.node = v
      BY <1>4, <2>1 DEF Kind
  <2>3. /\ Plain(events') = Plain(Tail(events)) \cup
               (IF Pending(v) /\ v \notin stopped THEN {Event("OnData", v, 0)} ELSE {})
        /\ InTurn(events')
      BY <1>1, <1>3, <1>12, <2>2, OnIncomingDataKeeps
  <2>4. \E e \in Range(events') : Is(e, "OnData", v)
    <3>1. CASE Pending(v)
      <4>1. Event("OnData", v, 0) \in Range(events')
          BY <3>1, <2>3 DEF Plain, Kept
      <4> QED
          BY <4>1 DEF Event, Is
    <3>2. CASE ~Pending(v)
      <4>1. Renewed(events, v, 0)
        <5>1. CASE inRecord[v] = 0
            BY <5>1, <1>21, SubscriptionAssumption
        <5>2. CASE inRecord[v] = NoRecord
            BY <5>2, <1>10, <1>21, <2>1, <2>2 DEF Kept, Subscribed
        <5> QED
            BY <3>2, <5>1, <5>2 DEF Pending
      <4> QED
          BY <4>1, <1>9, <2>1, <2>3
    <3> QED
        BY <3>1, <3>2
  <2>5. \A b : Heard(v, b)'
      BY <2>4 DEF Heard
  <2>6. \A e \in Plain(events') : e \in Plain(Tail(events)) \/ e.kind = "OnData"
      BY <2>3 DEF Event
  <2>7. \A n \in Node : n # v => \A b \in Nat : Heard(n, b) => Heard(n, b)'
      BY <1>12, <1>22, <2>1, <2>2, <2>3, <2>6
  <2>8. \A n \in Node : \A b \in Nat : b < LifeTime /\ Heard(n, b) => Heard(n, b)'
      BY <2>5, <2>7
  <2> QED
      BY <1>8, <1>12, <2>1, <2>3, <2>6, <2>8
<1>23. ASSUME Due(events), steady' = steady, available' = available, InTurn(events'),
              Next1.kind \in {"executeEvent", "onInterestFinalize", "mark"},
              lost' \subseteq lost \/ \A e \in Range(events) : e.kind = "receive" => e.wait # 0,
              Plain(events') = Plain(Tail(events))
       PROVE  SteadyInv'
  <2>1. \A e : e.kind \in {"receive", "OnData", "OnTimeout"} =>
            (e \in Range(events) <=> e \in Range(events'))
      BY <1>4, <1>23 DEF Plain, Callback
  <2>2. \A n \in Node : \A b \in Nat : Heard(n, b) => Heard(n, b)'
      BY <1>23, <2>1, HeardStays
  <2> QED
      BY <1>8, <1>23, <2>2
<1>13. CASE ExecuteEvent /\ steady' = steady /\ available' = available
  <2>1. Due(events) /\ Next1.kind = "executeEvent" /\ lost' = lost
      BY <1>13 DEF ExecuteEvent, Run
  <2>2. Next1.node \in Forwarder
      BY <1>4, <2>1
  <2>3. Plain(events') = Plain(Tail(events)) /\ InTurn(events')
      BY <1>1, <1>3, <1>13, <2>2, ExecuteEventKeeps
  <2> QED
      BY <1>13, <1>23, <2>1, <2>3
<1>14. CASE OnInterestFinalize /\ steady' = steady /\ available' = available
  <2>1. Due(events) /\ Next1.kind = "onInterestFinalize"
      BY <1>14 DEF OnInterestFinalize, Run
  <2>2. Next1.node \in Node
      BY <1>4, <2>1 DEF Kind
  <2>3. Plain(events') = Plain(Tail(events)) /\ InTurn(events')
      BY <1>1, <1>3, <1>14, <2>2, OnInterestFinalizeKeeps
  <2>4. ASSUME NEW e \in Range(events), e.kind = "receive" PROVE e.wait # 0
    <3>1. PICK j \in DOMAIN events : events[j] = e
        BY DEF Range
    <3>2. events \in Seq(HelloEvent) /\ events # <<>>
        BY <1>1, <2>1 DEF Good, Due
    <3>3. 1 \in DOMAIN events /\ Next1 = events[1] /\ 1 <= j
        BY <3>1, <3>2 DEF Next1
    <3>4. j # 1
        BY <3>1, <3>3, <2>1, <2>4
    <3>5. 1 < j
        BY <3>1, <3>2, <3>3, <3>4
    <3>6. events[1].wait < events[j].wait
        BY <3>1, <3>3, <3>5, <1>3, <2>1, <2>4 DEF InTurn
    <3> QED
        BY <3>1, <3>3, <3>6, <1>4, <2>1
  <2> QED
      BY <1>14, <1>23, <2>1, <2>3, <2>4
<1>24. CASE Mark /\ steady' = steady /\ available' = available
  <2>1. Due(events) /\ Next1.kind = "mark" /\ lost' = lost
      BY <1>24 DEF Mark, Run
  <2>2. Next1.node \in Forwarder
      BY <1>4, <2>1
  <2>3. Timer("mark", Next1.node, MarkInterval) \in TimerType /\ MarkInterval \in Nat
      BY <2>2, SubscriptionAssumption DEF Timer, TimerType
  <2>4. Becomes(Rest) \/ Becomes(Schedule(Rest, "mark", Next1.node, MarkInterval))
      BY <1>24 DEF Mark
  <2>5. Plain(events') = Plain(Tail(events)) /\ InTurn(events')
    <3>1. CASE Becomes(Rest)
        BY <1>1, <1>3, <2>1, <3>1, RestIsGood
    <3>2. CASE Becomes(Schedule(Rest, "mark", Next1.node, MarkInterval))
        BY <1>1, <1>3, <2>1, <2>2, <2>3, <3>2, SchedulingKeeps
    <3> QED
        BY <2>4, <3>1, <3>2
  <2> QED
      BY <1>23, <1>24, <2>1, <2>5
<1>15. CASE StartProducer /\ steady' = steady /\ available' = available
  <2> DEFINE e1 == Event("SendAlert", Next1.node, 0)
  <2>1. /\ Due(events) /\ Next1.kind = "StartProducer" /\ events' = Enqueue(Tail(events), e1)
        /\ lost' = lost
      BY <1>15 DEF StartProducer, Run
  <2>2. Next1.node \in Rsu
      BY <1>4, <2>1 DEF Kind
  <2>3. e1.kind = "SendAlert" /\ e1.wait = 0 /\ e1.node = Next1.node /\ e1 \in HelloEvent
    <3>1. 0 \in 0 .. Interval
        BY <1>2
    <3> QED
        BY <2>2, <3>1 DEF Event, HelloEvent
  <2> HIDE DEF e1
  <2>4. Range(events') = Range(Tail(events)) \cup {e1} /\ InTurn(events')
      BY <1>4, <2>1, <2>3, EnqueueGood
  <2>5. QuietStart'
      BY <1>3, <1>4, <2>1, <2>3, <2>4 DEF QuietStart
  <2>6. ProducersGoOn'
    <3> SUFFICES ASSUME NEW r \in Rsu
                 PROVE  /\ \E e \in Range(events') : Is(e, "SendAlert", r) \/ Is(e, "StartProducer", r)
                        /\ \A e \in Range(events') : Is(e, "StartProducer", r) =>
                               \A n \in Node : steady'[<<r, n>>] + e.wait <= HelloStart[r]
        BY DEF ProducersGoOn
    <3>1. \E e \in Range(events) : Is(e, "SendAlert", r) \/ Is(e, "StartProducer", r)
        BY <1>3 DEF ProducersGoOn
    <3>2. \E e \in Range(events') : Is(e, "SendAlert", r) \/ Is(e, "StartProducer", r)
        BY <3>1, <1>4, <2>1, <2>3, <2>4 DEF Is
    <3>3. \A e \in Range(events') : Is(e, "StartProducer", r) => e \in Range(events)
        BY <1>4, <2>1, <2>3, <2>4 DEF Is
    <3> QED
        BY <3>2, <3>3, <1>3, <1>15 DEF ProducersGoOn
  <2>7. HellosHeard'
    <3> SUFFICES ASSUME NEW r \in Rsu, NEW n \in Node, NEW e \in Range(events'), Is(e, "SendAlert", r),
                        NEW b \in Ages(e.wait), b < LifeTime, b < steady[<<r, n>>]
                 PROVE  Heard(n, b)'
        BY <1>15 DEF HellosHeard
    <3>1. CASE e = e1
      <4>1. r = Next1.node /\ b \in {Interval, 2 * Interval}
          BY <3>1, <2>3, <1>2 DEF Ages, Is
      <4>2. steady[<<r, n>>] + 0 <= HelloStart[r]
          BY <4>1, <1>3, <1>4, <2>1 DEF ProducersGoOn, Is
      <4>3. HelloStart[r] \in 0 .. Interval - 1 /\ steady[<<r, n>>] \in Int
          BY <1>1, HelloAssumption DEF HelloType
      <4> QED
          BY <4>1, <4>2, <4>3, <1>2
    <3>2. CASE e # e1
      <4>1. e \in Range(events)
          BY <3>2, <1>4, <2>1, <2>4
      <4>2. Heard(n, b)
          BY <4>1, <1>3 DEF HellosHeard
      <4>3. \A d : d.kind \in {"receive", "OnData", "OnTimeout"} =>
                (d \in Range(events) <=> d \in Range(events'))
          BY <1>4, <2>1, <2>3, <2>4
      <4> QED
          BY <4>2, <4>3, <1>15, HeardStays
    <3> QED
        BY <3>1, <3>2
  <2>8. LostIsNotSteady'
    <3>1. \A e \in Range(events') : e.kind = "receive" => e \in Range(events)
        BY <1>4, <2>1, <2>3, <2>4
    <3> QED
        BY <3>1, <1>3, <1>15, <2>1 DEF LostIsNotSteady, Is
  <2> QED
      BY <2>4, <2>5, <2>6, <2>7, <2>8 DEF SteadyInv
<1>16. CASE SendAlert
  <2> DEFINE e1 == Event("SendAlert", Next1.node, Interval)
             r1 == Next1.node
  <2>1. Due(events) /\ Next1.kind = "SendAlert" /\ available' = available /\ lost' = lost
      BY <1>16 DEF SendAlert, Run
  <2>2. r1 \in Rsu
      BY <1>4, <2>1 DEF Kind
  <2>3. e1.kind = "SendAlert" /\ e1.wait = Interval /\ e1.node = r1 /\ e1 \in HelloEvent
    <3>1. Interval \in 0 .. Interval
        BY <1>2
    <3> QED
        BY <2>2, <3>1 DEF Event, HelloEvent
  <2>4. PICK hearers \in SUBSET Node, sent \in Seq(HelloEvent) : Sending(sent, hearers)
      BY <1>1, <1>16, SendAlertSends
  <2> HIDE DEF e1
  <2>5. /\ Good(HelloEvent, sent, queue) /\ events' = Enqueue(sent, e1) /\ InTurn(sent)
        /\ \A e \in Range(Tail(events)) : e \in Range(sent)
        /\ \A e \in Range(sent) :
              e \in Range(Tail(events)) \/ (e.kind = "receive" /\ e.wait \in 1 .. MaxDelay)
        /\ \A n \in hearers : \E e \in Range(sent) : Is(e, "receive", n) /\ e.wait \in 1 .. MaxDelay
      BY <1>3, <2>4 DEF Sending, e1
  <2>6. \A r \in Rsu, n \in Node :
            /\ steady'[<<r, n>>] = steady[<<r, n>>] \/ steady'[<<r, n>>] = 0
            /\ r = r1 /\ n \notin hearers => steady'[<<r, n>>] = 0
      BY <2>4 DEF Sending
  <2> HIDE DEF r1
  <2>7. Range(events') = Range(sent) \cup {e1} /\ InTurn(events')
      BY <1>2, <2>3, <2>5, EnqueueGood
  <2>7a. \A e \in Range(events') :
            e \in Range(events) \/ e = e1 \/ (e.kind = "receive" /\ e.wait \in 1 .. MaxDelay)
    <3>1. \A e \in Range(Tail(events)) : e \in Range(events)
        BY <1>4, <2>1
    <3> QED
        BY <3>1, <2>5, <2>7
  <2>8. QuietStart'
    <3>1. ASSUME NEW e \in Range(events'), e.kind # "SendAlert"
          PROVE  e \in Range(events) \/ (e.kind = "receive" /\ e.wait \in 1 .. MaxDelay)
        BY <3>1, <2>3, <2>7a
    <3>2. \A s \in Range(events') : s.kind = "StartApplication" => s \in Range(events)
        BY <3>1
    <3>3. \A e \in Range(events') : e.kind = "receive" => e \in Range(events) \/ e.wait \in 1 .. MaxDelay
        BY <3>1
    <3> QED
        BY <3>2, <3>3, <1>3 DEF QuietStart
  <2>9. ProducersGoOn'
    <3> SUFFICES ASSUME NEW r \in Rsu
                 PROVE  /\ \E e \in Range(events') : Is(e, "SendAlert", r) \/ Is(e, "StartProducer", r)
                        /\ \A e \in Range(events') : Is(e, "StartProducer", r) =>
                               \A n \in Node : steady'[<<r, n>>] + e.wait <= HelloStart[r]
        BY DEF ProducersGoOn
    <3>1. \E e \in Range(events) : Is(e, "SendAlert", r) \/ Is(e, "StartProducer", r)
        BY <1>3 DEF ProducersGoOn
    <3>2. \E e \in Range(events') : Is(e, "SendAlert", r) \/ Is(e, "StartProducer", r)
      <4>1. CASE r = r1
          BY <4>1, <2>3, <2>7 DEF Is
      <4>2. CASE r # r1
          BY <4>2, <3>1, <1>4, <2>1, <2>5, <2>7 DEF Is, r1
      <4> QED
          BY <4>1, <4>2
    <3>3. \A e \in Range(events') : Is(e, "StartProducer", r) => e \in Range(events)
        BY <1>4, <2>1, <2>3, <2>5, <2>7 DEF Is
    <3>4. ASSUME NEW e \in Range(events'), Is(e, "StartProducer", r), NEW n \in Node
          PROVE  steady'[<<r, n>>] + e.wait <= HelloStart[r]
      <4>1. steady[<<r, n>>] + e.wait <= HelloStart[r] /\ e \in HelloEvent
          BY <3>3, <3>4, <1>1, <1>3, EventsAre DEF ProducersGoOn
      <4>2. e.wait \in Nat
          BY <4>1, EventFields
      <4>3. HelloStart[r] \in Int
          BY HelloAssumption
      <4>4. steady[<<r, n>>] \in Nat
          BY <1>1, <1>2 DEF HelloType, LongSteady
      <4>5. steady'[<<r, n>>] = steady[<<r, n>>] \/ steady'[<<r, n>>] = 0
          BY <2>6, <3>4
      <4>6. steady[<<r, n>>] + e.wait <= HelloStart[r]
          BY <4>1
      <4>7. e.wait <= HelloStart[r]
          BY <4>2, <4>3, <4>4, <4>6
      <4>8. CASE steady'[<<r, n>>] = steady[<<r, n>>]
          BY <4>6, <4>8
      <4>9. CASE steady'[<<r, n>>] = 0
          BY <4>2, <4>7, <4>9
      <4> QED
          BY <4>5, <4>8, <4>9
    <3> QED
        BY <3>2, <3>4
  <2>10. \A n \in Node : \A b : Heard(n, b) => Heard(n, b)'
    <3>1. \A d : d.kind \in {"receive", "OnData"} => (d \in Range(events) => d \in Range(events'))
        BY <1>4, <2>1, <2>5, <2>7
    <3>2. \A d : d.kind = "OnTimeout" => (d \in Range(events') => d \in Range(events))
        BY <2>3, <2>7a
    <3> QED
        BY <3>1, <3>2, <2>1, HeardStays
  <2>11. HellosHeard'
    <3> SUFFICES ASSUME NEW r \in Rsu, NEW n \in Node, NEW e \in Range(events'), Is(e, "SendAlert", r),
                        NEW b \in Ages(e.wait), b < LifeTime, b < steady'[<<r, n>>]
                 PROVE  Heard(n, b)'
        BY DEF HellosHeard
    <3>1. e \in Range(events) \/ e = e1
        BY <2>7a DEF Is
    <3>2. e \in HelloEvent
        BY <3>1, <1>1, <2>3, EventsAre
    <3>3. e.wait \in 0 .. Interval
      <4>1. e \notin EventType
          BY DEF Is, EventType, Kind
      <4> QED
          BY <3>2, <4>1 DEF HelloEvent
    <3>4. b \in Nat
        BY <3>3, <1>2 DEF Ages
    <3>5. steady'[<<r, n>>] = steady[<<r, n>>]
        BY <2>6, <3>4
    <3>6. CASE e \in Range(events)
        BY <3>5, <3>6, <1>3, <2>10 DEF HellosHeard
    <3>7. CASE e = e1 /\ b = Interval
      <4>1. r = r1 /\ Is(Next1, "SendAlert", r) /\ Interval - Next1.wait = Interval
          BY <3>7, <2>1, <2>3, <1>2, <1>4 DEF Is, r1
      <4>2. b \in Ages(Next1.wait)
          BY <4>1, <3>7 DEF Ages
      <4> QED
          BY <4>1, <4>2, <3>5, <1>3, <1>4, <2>1, <2>10 DEF HellosHeard
    <3>8. CASE e = e1 /\ b = 0
      <4>1. r = r1 /\ n \in hearers
          BY <3>8, <2>3, <2>6 DEF Is
      <4>2. PICK d \in Range(sent) : Is(d, "receive", n) /\ d.wait \in 1 .. MaxDelay
          BY <4>1, <2>5
      <4>3. d.wait + b <= MaxDelay /\ d \in Range(events')
          BY <4>2, <3>8, <2>7, <1>2
      <4> QED
          BY <4>2, <4>3 DEF Heard
    <3>9. e = e1 => b = 0 \/ b = Interval
        BY <2>3, <1>2 DEF Ages
    <3> QED
        BY <3>1, <3>6, <3>7, <3>8, <3>9
  <2>12. LostIsNotSteady'
    <3> SUFFICES ASSUME NEW n \in lost, NEW e \in Range(events'), Is(e, "receive", n), e.wait = 0,
                        NEW r \in Rsu
                 PROVE  steady'[<<r, n>>] = 0
        BY <2>1 DEF LostIsNotSteady
    <3>1. e \in Range(events)
        BY <1>2, <2>3, <2>7a DEF Is
    <3>2. steady[<<r, n>>] = 0 /\ n \in Node
      <4>1. e \in HelloEvent /\ e.kind = "receive" /\ e.node = n
          BY <3>1, <1>1, EventsAre DEF Is
      <4> QED
          BY <3>1, <4>1, <1>3, EventFields DEF LostIsNotSteady, Kind
    <3> QED
        BY <3>2, <2>6
  <2> QED
      BY <2>7, <2>8, <2>9, <2>11, <2>12 DEF SteadyInv
<1>17. CASE HelloTick
  <2>1. /\ Tick /\ ~Due(events) /\ available' = available /\ lost' = lost
        /\ steady' = [p \in Rsu \X Node |-> IF p \in inReach /\ p[2] \notin lost
                                            THEN Older(steady[p], LongSteady) ELSE 0]
      BY <1>17 DEF HelloTick, Tick
  <2>2. /\ DOMAIN events' = DOMAIN events
        /\ \A i \in DOMAIN events :
              /\ events[i].wait \in Nat \ {0}
              /\ events'[i].kind = events[i].kind /\ events'[i].node = events[i].node
              /\ events'[i].wait = events[i].wait - 1
        /\ InTurn(events')
      BY <1>1, <1>3, <2>1, TickKeeps
  <2>3. \A e \in Range(events) :
            /\ e.wait \in Nat \ {0}
            /\ \E d \in Range(events') : d.kind = e.kind /\ d.node = e.node /\ d.wait = e.wait - 1
      BY <2>2 DEF Range
  <2>4. \A d \in Range(events') : \E e \in Range(events) :
            /\ e.wait \in Nat \ {0} /\ d.kind = e.kind /\ d.node = e.node /\ d.wait = e.wait - 1
      BY <2>2 DEF Range
  <2>5. ASSUME NEW r \in Rsu, NEW n \in Node
        PROVE  steady[<<r, n>>] \in Nat /\ steady'[<<r, n>>] \in Nat
               /\ steady'[<<r, n>>] <= steady[<<r, n>>] + 1
    <3>1. steady[<<r, n>>] \in Nat
        BY <1>1, <1>2 DEF HelloType, LongSteady
    <3>2. steady'[<<r, n>>] = 0 \/ steady'[<<r, n>>] = Older(steady[<<r, n>>], LongSteady)
        BY <2>1
    <3> QED
        BY <3>1, <3>2 DEF Older
  <2>6. QuietStart'
      BY <1>3, <2>3, <2>4 DEF QuietStart
  <2>7. ProducersGoOn'
    <3> SUFFICES ASSUME NEW r \in Rsu
                 PROVE  /\ \E e \in Range(events') : Is(e, "SendAlert", r) \/ Is(e, "StartProducer", r)
                        /\ \A e \in Range(events') : Is(e, "StartProducer", r) =>
                               \A n \in Node : steady'[<<r, n>>] + e.wait <= HelloStart[r]
        BY DEF ProducersGoOn
    <3>1. \E e \in Range(events') : Is(e, "SendAlert", r) \/ Is(e, "StartProducer", r)
      <4>1. PICK e \in Range(events) : Is(e, "SendAlert", r) \/ Is(e, "StartProducer", r)
          BY <1>3 DEF ProducersGoOn
      <4>2. PICK d \in Range(events') : d.kind = e.kind /\ d.node = e.node
          BY <2>3
      <4>3. Is(d, "SendAlert", r) \/ Is(d, "StartProducer", r)
          BY <4>1, <4>2 DEF Is
      <4> QED
          BY <4>3
    <3>2. ASSUME NEW d \in Range(events'), Is(d, "StartProducer", r), NEW n \in Node
          PROVE  steady'[<<r, n>>] + d.wait <= HelloStart[r]
      <4>1. PICK e \in Range(events) :
                e.wait \in Nat \ {0} /\ d.kind = e.kind /\ d.node = e.node /\ d.wait = e.wait - 1
          BY <2>4
      <4>2. steady[<<r, n>>] + e.wait <= HelloStart[r]
          BY <4>1, <3>2, <1>3 DEF ProducersGoOn, Is
      <4>3. HelloStart[r] \in Int
          BY HelloAssumption
      <4> QED
          BY <4>1, <4>2, <4>3, <2>5
    <3> QED
        BY <3>1, <3>2
  <2>8. HellosHeard'
    <3> SUFFICES ASSUME NEW r \in Rsu, NEW n \in Node, NEW d \in Range(events'), Is(d, "SendAlert", r),
                        NEW b \in Ages(d.wait), b < LifeTime, b < steady'[<<r, n>>]
                 PROVE  Heard(n, b)'
        BY DEF HellosHeard
    <3>1. PICK e \in Range(events) :
              e.wait \in Nat \ {0} /\ d.kind = e.kind /\ d.node = e.node /\ d.wait = e.wait - 1
        BY <2>4
    <3>2. b \in Int /\ b - 1 \in Ages(e.wait)
        BY <3>1, <1>2 DEF Ages
    <3>3. b - 1 < LifeTime /\ b - 1 < steady[<<r, n>>]
        BY <3>2, <2>5, <1>2
    <3>4. Heard(n, b - 1)
        BY <3>1, <3>2, <3>3, <1>3 DEF HellosHeard, Is
    <3>5. CASE \E c \in Range(events) : Is(c, "receive", n) /\ c.wait + (b - 1) <= MaxDelay
      <4>1. PICK c \in Range(events) : Is(c, "receive", n) /\ c.wait + (b - 1) <= MaxDelay
          BY <3>5
      <4>2. PICK c1 \in Range(events') : c1.kind = c.kind /\ c1.node = c.node /\ c1.wait = c.wait - 1
          BY <2>3
      <4>3. c1.wait + b <= MaxDelay /\ Is(c1, "receive", n)
          BY <4>1, <4>2, <3>2, <2>3, <1>2 DEF Is
      <4> QED
          BY <4>3 DEF Heard
    <3>6. \A c \in Range(events) : ~Is(c, "OnData", n)
        BY <1>1, <2>3 DEF Recent, HellosAreRecent
    <3>7. CASE /\ available[n]
               /\ \A c \in Range(events) : Is(c, "OnTimeout", n) => LifeTime <= c.wait + (b - 1)
      <4>1. ASSUME NEW c1 \in Range(events'), Is(c1, "OnTimeout", n) PROVE LifeTime <= c1.wait + b
        <5>1. PICK c \in Range(events) :
                  c.wait \in Nat \ {0} /\ c1.kind = c.kind /\ c1.node = c.node /\ c1.wait = c.wait - 1
            BY <2>4
        <5>2. Is(c, "OnTimeout", n)
            BY <5>1, <4>1 DEF Is
        <5>3. LifeTime <= c.wait + (b - 1)
            BY <5>2, <3>7
        <5> QED
            BY <5>1, <5>3, <3>2, <1>2
      <4> QED
          BY <4>1, <3>7, <2>1 DEF Heard
    <3> QED
        BY <3>4, <3>5, <3>6, <3>7 DEF Heard
  <2>9. LostIsNotSteady'
    <3> SUFFICES ASSUME NEW n \in lost, NEW e \in Range(events'), Is(e, "receive", n), NEW r \in Rsu
                 PROVE  steady'[<<r, n>>] = 0
        BY <2>1 DEF LostIsNotSteady
    <3>1. PICK c \in Range(events) : c.kind = "receive" /\ c.node = n
        BY <2>4 DEF Is
    <3>2. n \in Node
        BY <3>1, <1>1, EventsAre, EventFields DEF Kind
    <3> QED
        BY <3>2, <2>1
  <2> QED
      BY <2>2, <2>6, <2>7, <2>8, <2>9 DEF SteadyInv
<1>18. CASE Drive
  <2>1. UNCHANGED <<vars, available, away>>
      BY <1>18 DEF Drive
  <2>2. PICK p \in Rsu \X Driving : steady' = [steady EXCEPT ![p] = 0]
      BY <1>18 DEF Drive
  <2>3. \A r \in Rsu, n \in Node :
            /\ steady[<<r, n>>] \in Nat
            /\ steady'[<<r, n>>] = steady[<<r, n>>] \/ steady'[<<r, n>>] = 0
      BY <1>1, <1>2, <2>2 DEF HelloType, LongSteady
  <2>4. events' = events /\ lost' = lost
      BY <2>1 DEF vars
  <2>5. InTurn(events') /\ QuietStart'
      BY <1>3, <2>4 DEF QuietStart
  <2>6. ProducersGoOn'
    <3> SUFFICES ASSUME NEW r \in Rsu
                 PROVE  /\ \E e \in Range(events) : Is(e, "SendAlert", r) \/ Is(e, "StartProducer", r)
                        /\ \A e \in Range(events) : Is(e, "StartProducer", r) =>
                               \A n \in Node : steady'[<<r, n>>] + e.wait <= HelloStart[r]
        BY <2>4 DEF ProducersGoOn
    <3>1. \E e \in Range(events) : Is(e, "SendAlert", r) \/ Is(e, "StartProducer", r)
        BY <1>3 DEF ProducersGoOn
    <3>2. ASSUME NEW e \in Range(events), Is(e, "StartProducer", r), NEW n \in Node
          PROVE  steady'[<<r, n>>] + e.wait <= HelloStart[r]
      <4>1. steady[<<r, n>>] + e.wait <= HelloStart[r] /\ e \in HelloEvent
          BY <3>2, <1>1, <1>3, EventsAre DEF ProducersGoOn
      <4>2. e.wait \in Nat
          BY <4>1, EventFields
      <4>3. HelloStart[r] \in Int
          BY HelloAssumption
      <4> QED
          BY <4>1, <4>2, <4>3, <2>3
    <3> QED
        BY <3>1, <3>2
  <2>7. HellosHeard'
    <3> SUFFICES ASSUME NEW r \in Rsu, NEW n \in Node, NEW e \in Range(events), Is(e, "SendAlert", r),
                        NEW b \in Ages(e.wait), b < LifeTime, b < steady'[<<r, n>>]
                 PROVE  Heard(n, b)'
        BY <2>4 DEF HellosHeard
    <3>1. e \in HelloEvent
        BY <1>1, EventsAre
    <3>2. e.wait \in 0 .. Interval
      <4>1. e \notin EventType
          BY DEF Is, EventType, Kind
      <4> QED
          BY <3>1, <4>1 DEF HelloEvent
    <3>3. b \in Nat
        BY <3>2, <1>2 DEF Ages
    <3>4. b < steady[<<r, n>>]
        BY <3>3, <2>3
    <3>5. Heard(n, b)
        BY <3>4, <1>3 DEF HellosHeard
    <3> QED
        BY <3>5, <2>1, <2>4, HeardStays
  <2>8. LostIsNotSteady'
    <3> SUFFICES ASSUME NEW n \in lost, NEW e \in Range(events), Is(e, "receive", n), e.wait = 0,
                        NEW r \in Rsu
                 PROVE  steady'[<<r, n>>] = 0
        BY <2>4 DEF LostIsNotSteady
    <3>1. steady[<<r, n>>] = 0
        BY <1>3 DEF LostIsNotSteady
    <3>2. n \in Node
        BY <1>1, EventsAre, EventFields DEF Kind, Is
    <3> QED
        BY <3>1, <3>2, <2>3
  <2> QED
      BY <2>5, <2>6, <2>7, <2>8 DEF SteadyInv
<1>19. CASE UNCHANGED helloVars
    BY <1>3, <1>19 DEF helloVars, vars, SteadyInv, InTurn, QuietStart, ProducersGoOn, HellosHeard,
                       Heard, LostIsNotSteady
<1>20. CASE HelloDispatch
  <2>1. SendAlert \/ ((StartProducer \/ StartConsumer \/ HelloReceived \/ HelloMissed \/ Network)
                      /\ steady' = steady)
      BY <1>20 DEF HelloDispatch
  <2>2. CASE Network /\ steady' = steady
      BY <2>2, <1>11, <1>12, <1>13, <1>14, <1>24 DEF Network
  <2>3. CASE StartProducer /\ steady' = steady
    <3>1. available' = available
        BY <2>3 DEF StartProducer
    <3> QED
        BY <2>3, <3>1, <1>15
  <2> QED
      BY <2>1, <2>2, <2>3, <1>7, <1>16
<1> QED
    BY <1>17, <1>18, <1>19, <1>20 DEF HelloNext

(* HelloConsumer::doReceive and handleTimeout, with the lifetimes of           *)
(* caf-stack-helper.cpp: a vehicle that stays in the reach of an RSU for an    *)
(* interval and a delay, and misses no hello of it and not its own             *)
(* subscription, believes in the RSU at the end of every instant, for any      *)
(* number of vehicles on one scheduler.  Vehicles start with the simulation,   *)
(* hellos must arrive before the next one is sent, and the lifetime cover an   *)
(* interval and a delay.                                                       *)
THEOREM SteadyBelief ==
    ASSUME \A n \in Node : StartTime[n] = 0, MaxDelay <= Interval, Interval + MaxDelay <= LifeTime
    PROVE  HelloSpec => []SteadyReachIsBelieved
<1>1. HelloInit => HelloInv /\ Kept /\ SteadyInv
    BY InitHelloInv, InitKept, InitSteady
<1>2. HelloInv /\ Kept /\ SteadyInv /\ [HelloNext]_helloVars => HelloInv' /\ Kept' /\ SteadyInv'
    BY NextHelloInv, NextKept, NextSteady
<1>3. HelloInv /\ SteadyInv => SteadyReachIsBelieved
  <2> SUFFICES ASSUME HelloInv, SteadyInv, ~Due(events), NEW r \in Rsu, NEW n \in Node,
                      steady[<<r, n>>] >= LongSteady
               PROVE  available[n]
      BY DEF SteadyReachIsBelieved
  <2>1. /\ MaxDelay \in Nat \ {0} /\ LifeTime \in Nat /\ Interval \in Nat \ {0}
        /\ HelloStart[r] \in 0 .. Interval - 1
      BY SubscriptionAssumption, HelloAssumption
  <2>2. steady[<<r, n>>] \in Nat /\ steady[<<r, n>>] >= Interval + MaxDelay
      BY <2>1 DEF HelloInv, HelloType, LongSteady
  <2>3. events \in Seq(HelloEvent) /\ Sorted(events)
      BY DEF HelloInv, Good
  <2>4. \A e \in Range(events) : e.wait \in Nat \ {0} /\ e \in HelloEvent
    <3>1. \A i \in DOMAIN events : events[i].wait \in Nat \ {0}
      <4> SUFFICES ASSUME NEW i \in DOMAIN events PROVE events[i].wait \in Nat \ {0}
          OBVIOUS
      <4>1. events # <<>> /\ 1 \in DOMAIN events /\ 1 <= i
          BY <2>3
      <4> QED
          BY <4>1, <2>3 DEF Due, Sorted
    <3> QED
        BY <3>1, EventsAre DEF Range, HelloInv
  <2>5. PICK e \in Range(events) : Is(e, "SendAlert", r)
    <3>1. PICK e \in Range(events) : Is(e, "SendAlert", r) \/ Is(e, "StartProducer", r)
        BY DEF SteadyInv, ProducersGoOn
    <3>2. ~Is(e, "StartProducer", r)
      <4> SUFFICES ASSUME Is(e, "StartProducer", r) PROVE FALSE
          OBVIOUS
      <4>1. steady[<<r, n>>] + e.wait <= HelloStart[r]
          BY DEF SteadyInv, ProducersGoOn
      <4> QED
          BY <4>1, <2>1, <2>2, <2>4
    <3> QED
        BY <3>1, <3>2
  <2>6. e.wait \in 1 .. Interval
    <3>1. e.wait \in 0 .. Interval
        BY <2>4, <2>5, EventFields DEF Is, Kind
    <3>2. Interval \in Nat
        BY HelloAssumption
    <3> QED
        BY <3>1, <3>2, <2>4
  <2>7. PICK b \in Ages(e.wait) : b \in MaxDelay .. Interval + MaxDelay - 1
    <3>1. CASE Interval - e.wait >= MaxDelay
        BY <3>1, <2>1, <2>6 DEF Ages
    <3>2. CASE Interval - e.wait < MaxDelay
      <4>1. 2 * Interval - e.wait = Interval + (Interval - e.wait)
          BY <2>1, <2>6
      <4>2. 2 * Interval - e.wait \in MaxDelay .. Interval + MaxDelay - 1
          BY <3>2, <4>1, <2>1, <2>6
      <4> QED
          BY <4>2 DEF Ages
    <3> QED
        BY <3>1, <3>2, <2>1, <2>6
  <2>8. b < LifeTime /\ b < steady[<<r, n>>]
      BY <2>1, <2>2, <2>7
  <2>9. Heard(n, b)
      BY <2>5, <2>7, <2>8 DEF SteadyInv, HellosHeard
  <2>10. ~\E d \in Range(events) : Is(d, "receive", n) /\ d.wait + b <= MaxDelay
      BY <2>1, <2>4, <2>7
  <2>11. ~\E d \in Range(events) : Is(d, "OnData", n)
      BY <2>4 DEF HelloInv, Recent, HellosAreRecent
  <2> QED
      BY <2>9, <2>10, <2>11 DEF Heard
<1> QED
    BY <1>1, <1>2, <1>3, PTL DEF HelloSpec
=============================================================================
