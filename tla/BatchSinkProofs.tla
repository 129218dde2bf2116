-------------------------- MODULE BatchSinkProofs --------------------------
(***************************************************************************)
(* Theorems about BatchSink, for both sinks, any capacities and batch size,*)
(* any number of items and restarts, and every fault.                      *)
(***************************************************************************)
EXTENDS BatchSink, FiniteSetTheorems, TLAPS

-----------------------------------------------------------------------------
(* Sequences.                                                              *)

\* Append adds one element at the end, and is seen in the set of elements.
LEMMA AppendElements ==
    ASSUME NEW s \in Seq(Items), NEW e \in Items
    PROVE  /\ Append(s, e) \in Seq(Items)
           /\ Len(Append(s, e)) = Len(s) + 1
           /\ \A i \in 1..Len(s) : Append(s, e)[i] = s[i]
           /\ Append(s, e)[Len(s) + 1] = e
OBVIOUS

\* The head and the tail of a queue of items.
LEMMA TailElements ==
    ASSUME NEW s \in Seq(Items), s # <<>>
    PROVE  /\ Head(s) \in Items /\ Head(s) = s[1]
           /\ Tail(s) \in Seq(Items)
           /\ Len(s) \in Nat \ {0}
           /\ Len(Tail(s)) = Len(s) - 1
           /\ \A i \in 1..Len(Tail(s)) : Tail(s)[i] = s[i + 1]
OBVIOUS

\* The same of a queue of batches.
LEMMA AppendBatches ==
    ASSUME NEW s \in Seq(Seq(Items)), NEW e \in Seq(Items)
    PROVE  /\ Append(s, e) \in Seq(Seq(Items))
           /\ Len(Append(s, e)) = Len(s) + 1
           /\ \A i \in 1..Len(s) : Append(s, e)[i] = s[i]
           /\ Append(s, e)[Len(s) + 1] = e
OBVIOUS

LEMMA TailBatches ==
    ASSUME NEW s \in Seq(Seq(Items)), s # <<>>
    PROVE  /\ Head(s) \in Seq(Items) /\ Head(s) = s[1]
           /\ Tail(s) \in Seq(Seq(Items))
           /\ Len(s) \in Nat \ {0}
           /\ Len(Tail(s)) = Len(s) - 1
           /\ \A i \in 1..Len(Tail(s)) : Tail(s)[i] = s[i + 1]
OBVIOUS

\* And of the entries.
LEMMA TailEntries ==
    ASSUME NEW s \in Seq(Entries), s # <<>>
    PROVE  /\ Head(s) \in Entries /\ Head(s) = s[1]
           /\ Tail(s) \in Seq(Entries)
           /\ Len(s) \in Nat \ {0}
           /\ Len(Tail(s)) = Len(s) - 1
           /\ \A i \in 1..Len(Tail(s)) : Tail(s)[i] = s[i + 1]
OBVIOUS

-----------------------------------------------------------------------------
(* The way of the items.                                                   *)

\* The counters are numbers.
LEMMA Counters ==
    ASSUME TypeOK
    PROVE  /\ put \in Nat /\ id \in Nat /\ born \in Nat /\ waitedFor \in Nat
           /\ Len(putCh) \in Nat /\ Len(buffer) \in Nat /\ Len(batchCh) \in Nat
           /\ Len(entries) \in Nat
           /\ Received \in Int /\ Sent \in Int /\ Taken \in Int /\ Done \in Int
BY BatchSinkAssumption DEF TypeOK, Received, Sent, Taken, Done

\* The request is the entries, or the first of those that are sent one by one.
LEMMA RequestIs ==
    ASSUME TypeOK, GoroutineInv, writer # "idle"
    PROVE  /\ Request \in Seq(Entries) /\ Request # <<>>
           /\ Len(Request) \in 1..Len(entries)
           /\ Len(Request) = IF writer = "split" THEN 1 ELSE Len(entries)
           /\ \A i \in 1..Len(Request) : Request[i] = entries[i]
<1>1. entries \in Seq(Entries) /\ entries # <<>>
  BY DEF TypeOK, GoroutineInv
<1>2. CASE writer = "split"
  <2>1. Request = <<Head(entries)>>  BY <1>2 DEF Request
  <2>2. Head(entries) \in Entries /\ Head(entries) = entries[1]
        /\ Len(entries) \in Nat \ {0}
    BY <1>1, TailEntries
  <2>3. QED  BY <1>2, <2>1, <2>2
<1>3. CASE writer # "split"
  <2>1. Request = entries  BY <1>3 DEF Request
  <2>2. Len(entries) \in Nat \ {0}  BY <1>1, TailEntries
  <2>3. QED  BY <1>1, <1>3, <2>1, <2>2
<1>4. QED  BY <1>2, <1>3

\* Once the request is done with, the entries begin behind it.
LEMMA AnsweredMoves ==
    ASSUME TypeOK, GoroutineInv, writer # "idle", NEW failed, Answered(failed)
    PROVE  /\ entries' \in Seq(Entries)
           /\ Len(entries') = Len(entries) - Len(Request)
           /\ \A i \in 1..Len(entries') : entries'[i] = entries[i + Len(Request)]
           /\ writer' \in {"idle", "batch", "split"}
           /\ writer' = "idle" <=> entries' = <<>>
           /\ UNCHANGED <<sink, put, putCh, buffer, batcher, batchCh, id, stop,
                          waitedFor, born, up, restarts>>
<1> USE DEF batchVars, stopVars, processVars
<1>1. entries \in Seq(Entries) /\ entries # <<>>
  BY DEF TypeOK, GoroutineInv
<1>2. UNCHANGED <<sink, put, putCh, buffer, batcher, batchCh, id, stop,
                  waitedFor, born, up, restarts>>
  BY DEF Answered
<1>3. CASE writer = "split" /\ Len(entries) > 1
  <2>1. entries' = Tail(entries) /\ writer' = "split"
    BY <1>3 DEF Answered
  <2>2. Len(Request) = 1  BY <1>3, RequestIs
  <2>3. /\ entries' \in Seq(Entries)
        /\ Len(entries') = Len(entries) - 1
        /\ \A i \in 1..Len(entries') : entries'[i] = entries[i + 1]
    BY <1>1, <2>1, TailEntries
  <2>4. entries' # <<>>  BY <1>1, <1>3, <2>3
  <2>5. QED  BY <1>2, <2>1, <2>2, <2>3, <2>4
<1>4. CASE ~(writer = "split" /\ Len(entries) > 1)
  <2>1. entries' = <<>> /\ writer' = "idle"
    BY <1>4 DEF Answered
  <2>2. Len(Request) = Len(entries)
    <3>1. Len(entries) \in Nat \ {0}  BY <1>1, TailEntries
    <3>2. QED  BY <1>4, <3>1, RequestIs
  <2>3. entries' \in Seq(Entries) /\ Len(entries') = 0  BY <2>1
  <2>4. Len(entries) \in Nat  BY <1>1
  <2>5. QED  BY <1>2, <2>1, <2>2, <2>3, <2>4
<1>5. QED  BY <1>3, <1>4

\* Two sequences of items, one behind the other.
LEMMA ConcatElements ==
    ASSUME NEW s \in Seq(Items), NEW t \in Seq(Items)
    PROVE  /\ s \o t \in Seq(Items)
           /\ Len(s \o t) = Len(s) + Len(t)
           /\ \A i \in 1..Len(s) : (s \o t)[i] = s[i]
           /\ \A i \in 1..Len(t) : (s \o t)[Len(s) + i] = t[i]
           /\ \A i \in 1..Len(s \o t) :
                 i \in 1..Len(s) \/ \E j \in 1..Len(t) : i = Len(s) + j
<1>1. /\ s \o t \in Seq(Items)
      /\ Len(s \o t) = Len(s) + Len(t)
      /\ \A i \in 1..Len(s) : (s \o t)[i] = s[i]
      /\ \A i \in 1..Len(t) : (s \o t)[Len(s) + i] = t[i]
  OBVIOUS
<1>2. ASSUME NEW i \in 1..Len(s \o t), i \notin 1..Len(s)
      PROVE  \E j \in 1..Len(t) : i = Len(s) + j
  <2>1. Len(s) \in Nat /\ Len(t) \in Nat  OBVIOUS
  <2>2. i - Len(s) \in 1..Len(t) /\ i = Len(s) + (i - Len(s))
    BY <1>1, <1>2, <2>1
  <2>3. QED  BY <2>2
<1>3. QED  BY <1>1, <1>2

\* A sequence of items is a prefix of what it is followed by.
LEMMA ConcatPrefix ==
    ASSUME NEW s \in Seq(Items), NEW t \in Seq(Items)
    PROVE  D!IsPrefix(s, s \o t)
BY ConcatElements DEF D!IsPrefix

\* What the service stores of a request that it did not have is added to what was
\* delivered, in the request's order.
LEMMA StoreAppends ==
    ASSUME TypeOK, GoroutineInv, FlowInv, writer # "idle", NEW taken, Store(taken)
    PROVE  \E new \in Seq(Items) :
              /\ delivered' = delivered \o new
              /\ \A i \in 1..Len(new) : \E n \in Fresh(taken) : new[i] = Request[n].item
              /\ \A n \in Fresh(taken) : \E i \in 1..Len(new) : new[i] = Request[n].item
              /\ \A i, j \in 1..Len(new) : i < j => new[i] < new[j]
<1> DEFINE S == Fresh(taken)
           k == Cardinality(S)
<1>1. PICK order \in [1..k -> S] :
        /\ \A m, n \in DOMAIN order : m < n => order[m] < order[n]
        /\ delivered' = delivered \o [n \in DOMAIN order |-> Request[order[n]].item]
  BY DEF Store
<1>2. /\ Request \in Seq(Entries)
      /\ \A n \in 1..Len(Request) : Request[n].item = Done + n
      /\ Len(Request) \in Nat
  <2>1. /\ Request \in Seq(Entries) /\ Len(Request) \in 1..Len(entries)
        /\ \A n \in 1..Len(Request) : Request[n] = entries[n]
    BY RequestIs
  <2>2. 1..Len(Request) \subseteq DOMAIN entries  BY <2>1 DEF TypeOK
  <2>3. QED  BY <2>1, <2>2 DEF FlowInv
<1>3. S \subseteq 1..Len(Request)  BY <1>2 DEF Fresh, Stored
<1>4. IsFiniteSet(S) /\ k \in Nat
  <2>1. IsFiniteSet(1..Len(Request))  BY <1>2, FS_Interval
  <2>2. QED  BY <1>3, <2>1, FS_Subset, FS_CardinalityType
<1> DEFINE new == [n \in 1..k |-> Request[order[n]].item]
<1>5. \A n \in 1..k : order[n] \in S /\ order[n] \in 1..Len(Request)
  BY <1>1, <1>3
<1>6. \A n \in 1..k : new[n] \in Items
  <2>1. \A n \in 1..Len(Request) : Request[n] \in Entries  BY <1>2
  <2>2. QED  BY <1>5, <2>1 DEF Entries
<1>7. new \in Seq(Items) /\ Len(new) = k
  <2> HIDE DEF k
  <2>1. new \in [1..k -> Items]  BY <1>6
  <2>2. QED  BY <1>4, <2>1
<1>8. delivered' = delivered \o new  BY <1>1
<1>9. \A n \in S : \E i \in 1..k : order[i] = n
  <2>1. order \in Injection(1..k, S)
    <3>1. \A m, n \in 1..k : order[m] = order[n] => m = n
      BY <1>1, <1>4, <1>5
    <3>2. QED  BY <1>1, <3>1 DEF Injection, IsInjective
  <2>2. Cardinality(1..k) = k
    BY <1>4, FS_Interval
  <2>3. order \in Surjection(1..k, S)
    BY <1>4, <2>1, <2>2, FS_Injection
  <2>4. QED  BY <2>3 DEF Surjection
<1>10. \A i, j \in 1..k : i < j => new[i] < new[j]
  <2>1. \A i \in 1..k : new[i] = Done + order[i] /\ order[i] \in Nat
    BY <1>2, <1>5
  <2>2. \A i, j \in 1..k : i < j => order[i] < order[j]  BY <1>1
  <2> HIDE DEF new, k
  <2>3. QED  BY <2>1, <2>2, Counters
<1>11. /\ \A i \in 1..k : \E n \in S : new[i] = Request[n].item
       /\ \A n \in S : \E i \in 1..k : new[i] = Request[n].item
  BY <1>5, <1>9
<1> HIDE DEF new, k, S
<1>12. QED  BY <1>7, <1>8, <1>10, <1>11 DEF S

\* The entries of a request have items and ids in their ranges.
LEMMA RequestTyped ==
    ASSUME TypeOK, GoroutineInv, FlowInv, writer # "idle", NEW e \in ToSet(Request)
    PROVE  e.item \in Items /\ e.id \in 0..MaxItems
<1>1. PICK n \in 1..Len(Request) : e = entries[n] /\ n \in 1..Len(entries)
  <2>1. /\ Request \in Seq(Entries) /\ Len(Request) \in 1..Len(entries)
        /\ \A n \in 1..Len(Request) : Request[n] = entries[n]
    BY RequestIs
  <2>2. DOMAIN Request = 1..Len(Request)  BY <2>1
  <2>3. QED  BY <2>1, <2>2 DEF ToSet
<1>2. entries[n] \in Entries  BY <1>1 DEF TypeOK
<1>3. entries[n].item = Done + n /\ entries[n].id = Done + n - born - 1 /\ born <= Done
  BY <1>1 DEF FlowInv, TypeOK
<1>4. e.item \in Items  BY <1>1, <1>2 DEF Entries
<1>5. e.id \in 0..MaxItems
  <2>1. e.item \in 1..MaxItems /\ e.item = Done + n /\ e.id = Done + n - born - 1
        /\ n \in 1..Len(entries)
    BY <1>1, <1>3, <1>4 DEF Items
  <2>2. MaxItems \in Nat /\ Done \in Int /\ born \in Nat /\ Len(entries) \in Nat
        /\ born <= Done
    BY <1>3, Counters, BatchSinkAssumption
  <2>3. QED  BY ONLY <2>1, <2>2
<1>6. QED  BY <1>4, <1>5

\* What may be refused is a part of the request.
LEMMA RefusalsAre == Refusals \subseteq SUBSET ToSet(Request)
BY DEF Refusals

\* What the service stores has its type.
LEMMA StoreTyped ==
    ASSUME TypeOK, GoroutineInv, FlowInv, writer # "idle",
           NEW taken, taken \subseteq ToSet(Request), Store(taken)
    PROVE  delivered' \in Seq(Items) /\ repeated' \subseteq Items
           /\ seen' \subseteq 0..MaxItems
<1>1. delivered' \in Seq(Items)
  <2>1. PICK new \in Seq(Items) : delivered' = delivered \o new
    BY StoreAppends
  <2>2. QED  BY <2>1, ConcatElements DEF TypeOK
<1>2. repeated' \subseteq Items
  <2>1. \A i \in Stored(taken) : Request[i].item \in Items
    BY RequestTyped DEF Stored, ToSet
  <2>2. QED  BY <2>1 DEF Store, TypeOK
<1>3. seen' \subseteq 0..MaxItems
  <2>1. \A e \in taken : e.id \in 0..MaxItems  BY RequestTyped
  <2>2. seen \subseteq 0..MaxItems  BY DEF TypeOK
  <2>3. seen' \subseteq seen \cup {e.id : e \in taken}  BY DEF Store
  <2>4. QED  BY <2>1, <2>2, <2>3
<1>4. QED  BY <1>1, <1>2, <1>3

\* The items of a request are items.
LEMMA ItemsTyped ==
    ASSUME TypeOK, GoroutineInv, FlowInv, writer # "idle"
    PROVE  ItemsOf(Request) \subseteq Items
BY RequestTyped DEF ItemsOf, ToSet

\* The next batch holds the next items, and gets the next ids.
LEMMA NextBatch ==
    ASSUME TypeOK, GoroutineInv, FlowInv, BatchesInv, TakeBatch
    PROVE  /\ Head(batchCh) \in Seq(Items) /\ Len(Head(batchCh)) \in 1..BatchSize
           /\ \A j \in 1..Len(Head(batchCh)) : Head(batchCh)[j] = Taken + j
           /\ entries' \in Seq(Entries) /\ Len(entries') = Len(Head(batchCh))
           /\ \A j \in 1..Len(entries') :
                 entries'[j].item = Taken + j /\ entries'[j].id = id + j - 1
           /\ id' = id + Len(Head(batchCh)) /\ id' \in 0..MaxItems
           /\ Len(entries) = 0 /\ Done = Taken
<1> DEFINE h == Head(batchCh)
<1>1. batchCh \in Seq(Seq(Items)) /\ batchCh # <<>>
  BY DEF TypeOK, TakeBatch
<1>2. /\ h \in Seq(Items) /\ h = batchCh[1] /\ 1 \in DOMAIN batchCh
  <2>1. DOMAIN batchCh = 1..Len(batchCh)  BY <1>1
  <2>2. QED  BY <1>1, <2>1, TailBatches
<1>3. /\ h # <<>> /\ Len(h) <= BatchSize /\ Len(h) \in Nat /\ Len(h) # 0
      /\ \A j \in 1..Len(h) : h[j] = Taken + j
  <2>1. h # <<>> /\ Len(h) <= BatchSize
    BY <1>2 DEF BatchesInv
  <2>2. DOMAIN h = 1..Len(h) /\ Len(h) \in Nat  BY <1>2
  <2>3. \A j \in 1..Len(h) : h[j] = First(1) + j - 1
    BY <1>2, <2>2 DEF BatchesInv
  <2>4. First(1) = Taken + 1  BY DEF BatchesInv
  <2>6. Len(h) # 0  BY <1>2, <2>1
  <2> HIDE DEF h
  <2>5. \A j \in 1..Len(h) : h[j] = Taken + j
    <3>1. Taken \in Int  BY Counters
    <3>2. QED  BY ONLY <2>2, <2>3, <2>4, <3>1
  <2>7. QED  BY <2>1, <2>2, <2>5, <2>6
<1>4. entries' = [j \in 1..Len(h) |-> [item |-> h[j], id |-> id + j - 1]]
      /\ id' = id + Len(h)
  BY DEF TakeBatch
<1> HIDE DEF h
<1>5. \A j \in 1..Len(h) : [item |-> h[j], id |-> id + j - 1] \in Entries
  <2>1. ASSUME NEW j \in 1..Len(h)
        PROVE  h[j] \in Items /\ id + j - 1 \in Nat
    <3>1. h[j] \in Items  BY <1>2, <2>1
    <3>2. id \in Nat /\ Len(h) \in Nat  BY <1>3, Counters
    <3>3. id + j - 1 \in Nat  BY ONLY <2>1, <3>2
    <3>4. QED  BY <3>1, <3>3
  <2>2. QED  BY <2>1 DEF Entries
<1>6. entries' \in Seq(Entries) /\ Len(entries') = Len(h)
  <2>1. entries' \in [1..Len(h) -> Entries]  BY <1>4, <1>5
  <2>2. QED  BY <1>3, <2>1
<1>7. \A j \in 1..Len(entries') :
         entries'[j].item = Taken + j /\ entries'[j].id = id + j - 1
  BY <1>3, <1>4, <1>6
<1>8. id' \in 0..MaxItems
  <2>1. h[Len(h)] \in Items /\ h[Len(h)] = Taken + Len(h)
    BY <1>2, <1>3
  <2>2. Taken = born + id  BY DEF Taken
  <2>3. Taken + Len(h) \in 1..MaxItems  BY <2>1 DEF Items
  <2>4. MaxItems \in Nat /\ born \in Nat /\ id \in Nat /\ Len(h) \in Nat
    BY <1>3, Counters, BatchSinkAssumption
  <2>5. QED  BY ONLY <1>4, <2>2, <2>3, <2>4
<1>9. Len(entries) = 0 /\ Done = Taken
  <2>1. entries = <<>>  BY DEF TakeBatch, GoroutineInv
  <2>2. Len(entries) = 0  BY <2>1
  <2>3. QED  BY <2>2, Counters DEF Done
<1>10. Len(h) \in 1..BatchSize  BY <1>3, BatchSinkAssumption
<1>11. QED  BY <1>2, <1>3, <1>4, <1>6, <1>7, <1>8, <1>9, <1>10 DEF h

\* Every variable keeps its type.
LEMMA TypeStep ==
    ASSUME TypeOK, GoroutineInv, FlowInv, BatchesInv, [Next]_vars
    PROVE  TypeOK'
<1> USE BatchSinkAssumption
    DEF TypeOK, batchVars, writeVars, serviceVars, reportVars, stopVars, processVars
<1>1. CASE Put
  <2>1. put + 1 \in Items  BY <1>1 DEF Put, Items
  <2>2. putCh' \in Seq(Items) /\ Len(putCh') = Len(putCh) + 1
    BY <1>1, <2>1, AppendElements DEF Put
  <2>3. Len(putCh') <= Capacity  BY <1>1, <2>2 DEF Put
  <2>4. put' \in 0..MaxItems  BY <1>1 DEF Put
  <2>5. QED  BY <1>1, <2>2, <2>3, <2>4 DEF Put
<1>2. CASE Receive
  <2>1. /\ Head(putCh) \in Items
        /\ putCh' \in Seq(Items) /\ Len(putCh') = Len(putCh) - 1
    BY <1>2, TailElements DEF Receive
  <2>2. buffer' \in Seq(Items) /\ Len(buffer') = Len(buffer) + 1
    BY <1>2, <2>1, AppendElements DEF Receive
  <2>3. Len(buffer') <= BatchSize
    BY <1>2, <2>2 DEF Receive, GoroutineInv
  <2>4. Len(putCh') <= Capacity  BY <2>1
  <2>5. batcher' \in {"collect", "full"}  BY <1>2 DEF Receive
  <2>6. QED  BY <1>2, <2>1, <2>2, <2>3, <2>4, <2>5 DEF Receive
<1>3. CASE Tick  BY <1>3 DEF Tick
<1>4. CASE HandOver
  <2>1. batchCh' \in Seq(Seq(Items)) /\ Len(batchCh') = Len(batchCh) + 1
    BY <1>4, AppendBatches DEF HandOver
  <2>2. Len(batchCh') <= BatchCapacity  BY <1>4, <2>1 DEF HandOver
  <2>3. buffer' \in Seq(Items) /\ Len(buffer') <= BatchSize
    BY <1>4 DEF HandOver
  <2>4. QED  BY <1>4, <2>1, <2>2, <2>3 DEF HandOver
<1>5. CASE TakeBatch
  <2>1. batchCh' \in Seq(Seq(Items)) /\ Len(batchCh') = Len(batchCh) - 1
    BY <1>5, TailBatches DEF TakeBatch
  <2>2. Len(batchCh') <= BatchCapacity  BY <2>1
  <2>3. entries' \in Seq(Entries) /\ Len(entries') <= BatchSize /\ id' \in 0..MaxItems
    <3> HIDE DEF TypeOK
    <3>1. QED  BY <1>5, NextBatch
  <2>4. QED  BY <1>5, <2>1, <2>2, <2>3 DEF TakeBatch
<1>a. ASSUME writer # "idle", NEW failed, Answered(failed)
      PROVE  /\ entries' \in Seq(Entries) /\ Len(entries') <= BatchSize
             /\ writer' \in {"idle", "batch", "split"}
             /\ UNCHANGED <<sink, put, putCh, buffer, batcher, batchCh, id, stop,
                            waitedFor, born, up, restarts>>
  <2>1. Len(entries') = Len(entries) - Len(Request) /\ Len(Request) \in 1..Len(entries)
    BY <1>a, AnsweredMoves, RequestIs
  <2>2. Len(entries') <= BatchSize  BY <2>1
  <2>3. QED  BY <1>a, <2>2, AnsweredMoves
<1>6. CASE SendOk
  <2>1. PICK no \in SUBSET ToSet(Request) :
          /\ Store(ToSet(Request) \ no)
          /\ refused' = refused \cup {e.item : e \in no}
    BY <1>6, RefusalsAre DEF SendOk
  <2>2. writer # "idle" /\ Answered(FALSE)  BY <1>6 DEF SendOk
  <2>3. delivered' \in Seq(Items) /\ repeated' \subseteq Items
        /\ seen' \subseteq 0..MaxItems
    BY <2>1, <2>2, StoreTyped
  <2>4. \A e \in no : e.item \in Items  BY <2>2, RequestTyped
  <2>5. refused' \subseteq Items  BY <2>1, <2>4
  <2>6. queued' \subseteq Items
    BY <1>6, <2>2, ItemsTyped DEF SendOk
  <2>7. UNCHANGED <<dropped, patched>>  BY <1>6 DEF SendOk
  <2>8. QED  BY <1>a, <2>2, <2>3, <2>5, <2>6, <2>7
<1>7. CASE SendAgain
  <2>1. \E no \in Refusals : Store(ToSet(Request) \ no)  BY <1>7 DEF SendAgain
  <2>2. delivered' \in Seq(Items) /\ repeated' \subseteq Items
        /\ seen' \subseteq 0..MaxItems
    BY <1>7, <2>1, StoreTyped DEF SendAgain
  <2>3. QED  BY <1>7, <2>2 DEF SendAgain
<1>8. CASE SendFails
  <2>1. dropped' \subseteq Items  BY <1>8, ItemsTyped DEF SendFails
  <2>2. writer # "idle" /\ Answered(TRUE)
        /\ UNCHANGED <<delivered, repeated, seen, patched, queued, refused>>
    BY <1>8 DEF SendFails
  <2>3. QED  BY <1>a, <2>1, <2>2
<1>9. CASE SendTooLong  BY <1>9 DEF SendTooLong
<1>10. CASE StopCalled  BY <1>10 DEF StopCalled
<1>11. CASE StopReturns  BY <1>11 DEF StopReturns
<1>12. CASE ProcessEnds
  <2>1. putCh' = <<>> /\ buffer' = <<>> /\ batchCh' = <<>> /\ entries' = <<>>
    BY <1>12 DEF ProcessEnds
  <2>2. /\ putCh' \in Seq(Items) /\ Len(putCh') <= Capacity
        /\ buffer' \in Seq(Items) /\ Len(buffer') <= BatchSize
        /\ batchCh' \in Seq(Seq(Items)) /\ Len(batchCh') <= BatchCapacity
        /\ entries' \in Seq(Entries) /\ Len(entries') <= BatchSize
    BY <2>1
  <2>3. /\ batcher' = "collect" /\ writer' = "idle" /\ stop' = "no" /\ up' = FALSE
        /\ id' = 0 /\ waitedFor' = 0 /\ born' = put
        /\ queued' = {} /\ refused' = {}
        /\ UNCHANGED <<sink, put, delivered, repeated, seen, patched, dropped, restarts>>
    BY <1>12 DEF ProcessEnds
  <2>4. 0 \in 0..MaxItems  OBVIOUS
  <2>5. QED  BY <2>2, <2>3, <2>4
<1>13. CASE Restart  BY <1>13 DEF Restart
<1>14. CASE Forget  BY <1>14 DEF Forget
<1>15. CASE UNCHANGED vars  BY <1>15 DEF vars
<1>16. QED
  BY <1>1, <1>2, <1>3, <1>4, <1>5, <1>6, <1>7, <1>8, <1>9, <1>10, <1>11, <1>12, <1>13,
     <1>14, <1>15 DEF Next, Batch, Write

\* Where no batch comes or goes, the batches stay as they are.
LEMMA BatchesStay ==
    ASSUME BatchesInv, batchCh' = batchCh, Sent' = Sent, Taken' = Taken
    PROVE  BatchesInv'
<1>1. \A i : First(i)' = First(i)  BY DEF First
<1>2. QED  BY <1>1 DEF BatchesInv

\* Every item stays in its place: the queues and goroutines hold consecutive items.
LEMMA FlowStep ==
    ASSUME TypeOK, GoroutineInv, FlowInv, BatchesInv, TypeOK', [Next]_vars
    PROVE  FlowInv'
<1> DEFINE Queue == \A i \in 1..Len(putCh) : putCh[i] = Received + i
           Buffer == \A i \in 1..Len(buffer) : buffer[i] = Sent + i
           Sending == \A i \in 1..Len(entries) :
                         /\ entries[i].item = Done + i
                         /\ entries[i].id = Done + i - born - 1
<1>0. /\ Queue /\ Buffer /\ Sending /\ born <= Done
      /\ Queue' /\ Buffer' /\ Sending' /\ born' <= Done' => FlowInv'
  <2>1. /\ DOMAIN putCh = 1..Len(putCh) /\ DOMAIN buffer = 1..Len(buffer)
        /\ DOMAIN entries = 1..Len(entries)
    BY DEF TypeOK
  <2>2. /\ DOMAIN putCh' = 1..Len(putCh') /\ DOMAIN buffer' = 1..Len(buffer')
        /\ DOMAIN entries' = 1..Len(entries')
    BY DEF TypeOK
  <2>3. QED  BY <2>1, <2>2 DEF FlowInv
<1>q. UNCHANGED <<putCh, Received>> => Queue'  BY <1>0
<1>b. UNCHANGED <<buffer, Sent>> => Buffer'  BY <1>0
<1>e. UNCHANGED <<entries, Done, born>> => Sending' /\ born' <= Done'  BY <1>0
<1>c. UNCHANGED <<id, born, entries>> => UNCHANGED <<Taken, Done>>
  BY DEF Taken, Done
<1>r. UNCHANGED <<put, putCh>> => UNCHANGED Received
  BY DEF Received
<1>s. UNCHANGED <<put, putCh, buffer>> => UNCHANGED Sent
  BY DEF Received, Sent
<1> USE DEF batchVars, writeVars, serviceVars, reportVars, stopVars, processVars
<1>1. CASE Put
  <2>1. UNCHANGED <<buffer, id, born, entries>>  BY <1>1 DEF Put
  <2>2. put + 1 \in Items  BY <1>1, BatchSinkAssumption DEF Put, Items, TypeOK
  <2>3. /\ Len(putCh') = Len(putCh) + 1 /\ putCh'[Len(putCh) + 1] = put + 1
        /\ \A i \in 1..Len(putCh) : putCh'[i] = putCh[i]
    BY <1>1, <2>2, AppendElements DEF Put, TypeOK
  <2>4. Received' = Received
    BY <1>1, <2>3, Counters DEF Put, Received
  <2>5. Sent' = Sent  BY <2>1, <2>4 DEF Sent
  <2>6. Queue'
    <3>1. ASSUME NEW i \in 1..Len(putCh')
          PROVE  putCh'[i] = Received + i
      <4>1. CASE i \in 1..Len(putCh)  BY <1>0, <2>3, <4>1
      <4>2. CASE i = Len(putCh) + 1
        BY <2>3, <4>2, Counters DEF Received
      <4>3. QED  BY <2>3, <3>1, <4>1, <4>2, Counters
    <3>2. QED  BY <2>4, <3>1
  <2>7. QED  BY <1>0, <1>b, <1>e, <1>c, <2>1, <2>5, <2>6
<1>2. CASE Receive
  <2>1. UNCHANGED <<put, id, born, entries>>  BY <1>2 DEF Receive
  <2>2. /\ Head(putCh) \in Items /\ Head(putCh) = putCh[1]
        /\ Len(putCh) \in Nat \ {0} /\ Len(putCh') = Len(putCh) - 1
        /\ \A i \in 1..Len(putCh') : putCh'[i] = putCh[i + 1]
    BY <1>2, TailElements DEF Receive, TypeOK
  <2>3. Received' = Received + 1  BY <2>1, <2>2, Counters DEF Received
  <2>4. /\ Len(buffer') = Len(buffer) + 1 /\ buffer'[Len(buffer) + 1] = putCh[1]
        /\ \A i \in 1..Len(buffer) : buffer'[i] = buffer[i]
    BY <1>2, <2>2, AppendElements DEF Receive, TypeOK
  <2>5. Sent' = Sent  BY <2>3, <2>4, Counters DEF Sent
  <2>6. Queue'
    <3>1. ASSUME NEW i \in 1..Len(putCh')
          PROVE  putCh'[i] = Received + 1 + i
      <4>1. i + 1 \in 1..Len(putCh)  BY <2>2
      <4>2. putCh[i + 1] = Received + (i + 1)  BY <1>0, <4>1
      <4>3. QED  BY <2>2, <4>2, Counters
    <3>2. QED  BY <2>3, <3>1
  <2>7. Buffer'
    <3>1. ASSUME NEW i \in 1..Len(buffer')
          PROVE  buffer'[i] = Sent + i
      <4>1. CASE i \in 1..Len(buffer)  BY <1>0, <2>4, <4>1
      <4>2. CASE i = Len(buffer) + 1
        <5>1. putCh[1] = Received + 1  BY <1>0, <2>2
        <5>2. QED  BY <2>4, <4>2, <5>1, Counters DEF Sent
      <4>3. QED  BY <2>4, <3>1, <4>1, <4>2, Counters
    <3>2. QED  BY <2>5, <3>1
  <2>8. QED  BY <1>0, <1>e, <1>c, <2>1, <2>6, <2>7
<1>3. CASE Tick
  <2>1. UNCHANGED <<put, putCh, buffer, id, born, entries>>  BY <1>3 DEF Tick
  <2>2. QED  BY <1>0, <1>q, <1>b, <1>e, <1>c, <1>r, <1>s, <2>1
<1>4. CASE HandOver
  <2>1. UNCHANGED <<put, putCh, id, born, entries>> /\ buffer' = <<>>
    BY <1>4 DEF HandOver
  <2>2. Buffer'  BY <2>1
  <2>3. QED  BY <1>0, <1>q, <1>e, <1>c, <1>r, <2>1, <2>2
<1>5. CASE TakeBatch
  <2>1. UNCHANGED <<put, putCh, buffer, born>>  BY <1>5 DEF TakeBatch
  <2>2. /\ Len(entries') = Len(Head(batchCh)) /\ id' = id + Len(Head(batchCh))
        /\ Len(Head(batchCh)) \in 1..BatchSize /\ Len(entries) = 0 /\ Done = Taken
        /\ \A j \in 1..Len(entries') :
              entries'[j].item = Taken + j /\ entries'[j].id = id + j - 1
    BY <1>5, NextBatch
  <2>3. Done' = Taken
    <3>1. PICK n \in Nat : id' = id + n /\ Len(entries') = n
      BY <2>2
    <3>2. Taken' = Taken + n /\ Taken \in Int
      BY <2>1, <3>1, Counters DEF Taken
    <3>3. QED  BY <3>1, <3>2 DEF Done
  <2>4. Sending' /\ born' <= Done'
    <3>1. \A j \in 1..Len(entries') : id + j - 1 = Taken + j - born - 1
      BY Counters DEF Taken
    <3>2. QED  BY <1>0, <2>1, <2>2, <2>3, <3>1
  <2>5. QED  BY <1>0, <1>q, <1>b, <1>r, <1>s, <2>1, <2>4
<1>a. ASSUME writer # "idle", NEW failed, Answered(failed)
      PROVE  FlowInv'
  <2>1. /\ UNCHANGED <<put, putCh, buffer, id, born>>
        /\ entries' \in Seq(Entries)
        /\ Len(entries') = Len(entries) - Len(Request)
        /\ \A i \in 1..Len(entries') : entries'[i] = entries[i + Len(Request)]
    BY <1>a, AnsweredMoves
  <2>2. Len(Request) \in 1..Len(entries)  BY <1>a, RequestIs
  <2>3. Done' = Done + Len(Request)
    BY <2>1, <2>2, Counters DEF Done, Taken
  <2>4. ASSUME NEW i \in 1..Len(entries')
        PROVE  /\ entries'[i].item = Done' + i
               /\ entries'[i].id = Done' + i - born' - 1
    <3>1. i + Len(Request) \in 1..Len(entries)  BY <2>1, <2>2, Counters
    <3>2. /\ entries[i + Len(Request)].item = Done + (i + Len(Request))
          /\ entries[i + Len(Request)].id = Done + (i + Len(Request)) - born - 1
      BY <1>0, <3>1
    <3>3. Done + (i + Len(Request)) = Done' + i
      BY <2>2, <2>3, Counters
    <3>4. entries'[i] = entries[i + Len(Request)]  BY <2>1, <2>4
    <3>5. born' = born  BY <2>1
    <3>6. Done \in Int /\ born \in Int /\ i \in Int /\ Len(Request) \in Int
      BY <2>2, <2>4, Counters
    <3>7. Done' \in Int  BY <2>3, <3>6
    <3>8. QED  BY ONLY <3>2, <3>3, <3>4, <3>5, <3>6, <3>7
  <2>5. born' <= Done'  BY <1>0, <2>1, <2>2, <2>3, Counters
  <2>6. QED  BY <1>0, <1>q, <1>b, <1>r, <1>s, <2>1, <2>4, <2>5
<1>6. CASE SendOk
  BY <1>6, <1>a DEF SendOk
<1>7. CASE SendAgain
  <2>1. UNCHANGED <<put, putCh, buffer, id, born, entries>>  BY <1>7 DEF SendAgain
  <2>2. QED  BY <1>0, <1>q, <1>b, <1>e, <1>c, <1>r, <1>s, <2>1
<1>8. CASE SendFails
  BY <1>8, <1>a DEF SendFails
<1>9. CASE SendTooLong \/ StopCalled \/ StopReturns \/ Restart \/ Forget \/ UNCHANGED vars
  <2>1. UNCHANGED <<put, putCh, buffer, id, born, entries>>
    BY <1>9 DEF SendTooLong, StopCalled, StopReturns, Restart, Forget, vars
  <2>2. QED  BY <1>0, <1>q, <1>b, <1>e, <1>c, <1>r, <1>s, <2>1
<1>10. CASE ProcessEnds
  <2>1. /\ putCh' = <<>> /\ buffer' = <<>> /\ entries' = <<>> /\ id' = 0
        /\ born' = put
    BY <1>10 DEF ProcessEnds
  <2>2. Queue' /\ Buffer' /\ Sending'  BY <2>1
  <2>3. Done' = born'  BY <2>1, Counters DEF Done, Taken
  <2>4. born' \in Int  BY <2>1, Counters
  <2>5. QED  BY <1>0, <2>2, <2>3, <2>4
<1>11. QED
  BY <1>1, <1>2, <1>3, <1>4, <1>5, <1>6, <1>7, <1>8, <1>9, <1>10
  DEF Next, Batch, Write

\* The buffer becomes the last batch.
LEMMA HandOverAppends ==
    ASSUME TypeOK, GoroutineInv, FlowInv, BatchesInv, HandOver
    PROVE  BatchesInv'
<1>n. PICK n \in Nat : n = Len(batchCh)  BY Counters
<1>b. PICK b \in Nat : b = Len(buffer)  BY Counters
<1>1. /\ buffer \in Seq(Items) /\ buffer # <<>>
      /\ b \in Nat \ {0} /\ b <= BatchSize /\ n \in Nat
      /\ DOMAIN batchCh = 1..n /\ DOMAIN buffer = 1..b
      /\ BatchSize \in Nat \ {0}
  <2>1. buffer \in Seq(Items) /\ buffer # <<>> /\ b <= BatchSize
        /\ batchCh \in Seq(Seq(Items))
    BY <1>b DEF TypeOK, GoroutineInv, HandOver
  <2>2. b \in Nat \ {0}  BY <1>b, <2>1, TailElements
  <2>3. QED  BY <1>n, <1>b, <2>1, <2>2, BatchSinkAssumption
<1>2. /\ Len(batchCh') = n + 1 /\ DOMAIN batchCh' = 1..(n + 1)
      /\ \A i \in 1..n : batchCh'[i] = batchCh[i]
      /\ batchCh'[n + 1] = buffer
  <2>1. batchCh' \in Seq(Seq(Items)) /\ Len(batchCh') = n + 1
        /\ (\A i \in 1..n : batchCh'[i] = batchCh[i]) /\ batchCh'[n + 1] = buffer
    BY <1>1, <1>n, AppendBatches DEF HandOver, TypeOK
  <2>2. QED  BY <2>1
<1>3. Sent' = Sent + b /\ Taken' = Taken
  <2>1. UNCHANGED <<put, putCh, id, born>> /\ buffer' = <<>>
    BY DEF HandOver, writeVars, processVars
  <2>2. Received' = Received /\ Taken' = Taken  BY <2>1 DEF Received, Taken
  <2>3. Len(buffer') = 0  BY <2>1
  <2>4. QED  BY <1>1, <1>b, <2>2, <2>3, Counters DEF Sent
<1>4. Sent \in Int /\ Taken \in Int  BY Counters
<1>5. buffer[1] = Sent + 1 /\ \A j \in 1..b : buffer[j] = Sent + j
  BY <1>1 DEF FlowInv
<1>6. /\ \A i \in 1..(n + 1) : First(i)' = First(i)
      /\ First(n + 1) = Sent + 1 /\ First(n + 2)' = Sent' + 1
  <2>1. /\ First(n + 1)' = buffer[1] /\ First(n + 1) = Sent + 1
        /\ First(n + 2)' = Sent' + 1
    BY <1>1, <1>2 DEF First
  <2>2. \A i \in 1..n : First(i)' = First(i)
    BY <1>1, <1>2 DEF First
  <2>3. \A i \in 1..(n + 1) : i \in 1..n \/ i = n + 1  BY <1>1
  <2>4. QED  BY <1>5, <2>1, <2>2, <2>3
<1>7. First(1)' = Taken' + 1
  BY <1>1, <1>3, <1>6 DEF BatchesInv
<1>8. ASSUME NEW i \in 1..n
      PROVE  /\ batchCh'[i] # <<>> /\ Len(batchCh'[i]) <= BatchSize
             /\ \A j \in DOMAIN batchCh'[i] : batchCh'[i][j] = First(i)' + j - 1
             /\ First(i + 1)' = First(i)' + Len(batchCh'[i])
             /\ \A k \in i..(n + 1) : First(i + 1)' <= First(k + 1)'
             /\ Sent' + 1 - First(i)' <= (n + 2 - i) * BatchSize
  <2>1. batchCh'[i] = batchCh[i] /\ First(i)' = First(i) /\ First(i + 1)' = First(i + 1)
    BY <1>1, <1>2, <1>6
  <2>2. /\ batchCh[i] # <<>> /\ Len(batchCh[i]) <= BatchSize
        /\ \A j \in DOMAIN batchCh[i] : batchCh[i][j] = First(i) + j - 1
        /\ First(i + 1) = First(i) + Len(batchCh[i])
        /\ \A k \in i..n : First(i + 1) <= First(k + 1)
        /\ Sent + 1 - First(i) <= (n + 1 - i) * BatchSize
    BY <1>1, <1>n DEF BatchesInv
  <2>3. First(i + 1) <= Sent + 1  BY <1>1, <1>6, <2>2
  <2>4. First(i) \in Int
    <3>1. batchCh[i] \in Seq(Items) /\ 1 \in DOMAIN batchCh[i]
      BY <1>1, <2>2 DEF TypeOK
    <3>2. batchCh[i][1] \in Items  BY <3>1
    <3>3. QED  BY <1>1, <3>2 DEF First, Items
  <2>5. First(i + 1) \in Int
    BY <2>2, <2>4, <1>1 DEF TypeOK
  <2>6. ASSUME NEW k \in i..(n + 1)
        PROVE  First(i + 1)' <= First(k + 1)'
    <3>1. CASE k \in i..n
      <4>1. k + 1 \in 1..(n + 1)  BY <1>1, <3>1
      <4>2. First(k + 1)' = First(k + 1)  BY <1>6, <4>1
      <4>3. QED  BY <2>1, <2>2, <3>1, <4>2
    <3>2. CASE k = n + 1
      <4>1. First(k + 1)' = Sent' + 1  BY <1>1, <1>6, <3>2
      <4>2. QED  BY <1>1, <1>3, <1>4, <2>1, <2>3, <2>5, <4>1
    <3>3. QED  BY <1>1, <2>6, <3>1, <3>2
  <2>7. Sent' + 1 - First(i)' <= (n + 2 - i) * BatchSize
    <3>1. (n + 2 - i) * BatchSize = (n + 1 - i) * BatchSize + BatchSize
      BY <1>1
    <3>2. (n + 1 - i) * BatchSize \in Int  BY <1>1
    <3>3. Sent' + 1 - First(i)' = (Sent + 1 - First(i)) + b
      BY <1>1, <1>3, <1>4, <2>1, <2>4
    <3>4. QED  BY <1>1, <1>4, <2>2, <2>4, <3>1, <3>2, <3>3
  <2>8. QED  BY <2>1, <2>2, <2>6, <2>7
<1>9. /\ batchCh'[n + 1] # <<>> /\ Len(batchCh'[n + 1]) <= BatchSize
      /\ \A j \in DOMAIN batchCh'[n + 1] : batchCh'[n + 1][j] = First(n + 1)' + j - 1
      /\ First(n + 2)' = First(n + 1)' + Len(batchCh'[n + 1])
      /\ Sent' + 1 - First(n + 1)' <= (n + 2 - (n + 1)) * BatchSize
  <2>1. First(n + 1)' = Sent + 1 /\ First(n + 2)' = Sent + b + 1
    BY <1>1, <1>3, <1>6
  <2>2. (n + 2 - (n + 1)) * BatchSize = BatchSize  BY <1>1
  <2>3. \A j \in 1..b : buffer[j] = Sent + 1 + j - 1  BY <1>1, <1>4, <1>5
  <2>4. Sent + b + 1 = Sent + 1 + b  BY <1>1, <1>4
  <2>5. Sent' + 1 - First(n + 1)' = b  BY <1>1, <1>3, <1>4, <2>1
  <2>6. Len(buffer) = b  BY <1>b
  <2>7. QED  BY <1>1, <1>2, <2>1, <2>2, <2>3, <2>4, <2>5, <2>6
<1>10. (Taken' + 1)..Sent' \subseteq UNION {ToSet(batchCh'[i]) : i \in DOMAIN batchCh'}
  <2>1. ASSUME NEW x \in (Taken + 1)..(Sent + b)
        PROVE  \E i \in 1..(n + 1) : x \in ToSet(batchCh'[i])
    <3>1. CASE x \in (Taken + 1)..Sent
      <4>1. PICK i \in 1..n : x \in ToSet(batchCh[i])
        BY <1>1, <3>1 DEF BatchesInv
      <4>2. i \in 1..(n + 1) /\ x \in ToSet(batchCh'[i])  BY <1>1, <1>2, <4>1
      <4>3. QED  BY <4>2
    <3>2. CASE x \notin (Taken + 1)..Sent
      <4>1. x - Sent \in 1..b  BY <1>1, <1>4, <2>1, <3>2
      <4>2. buffer[x - Sent] = x  BY <1>4, <1>5, <2>1, <4>1
      <4>3. x \in ToSet(buffer)  BY <1>1, <4>1, <4>2 DEF ToSet
      <4>4. n + 1 \in 1..(n + 1)  BY <1>1
      <4>5. QED  BY <1>2, <4>3, <4>4
    <3>3. QED  BY <3>1, <3>2
  <2>2. QED  BY <1>2, <1>3, <2>1
<1>11. \A i \in 1..(n + 1) : i \in 1..n \/ i = n + 1  BY <1>1
<1>12. /\ \A k \in (n + 1)..(n + 1) : k = n + 1
       /\ First(n + 2)' \in Int /\ (n + 1) + 1 = n + 2
       /\ (n + 1) + 1 - (n + 1) = n + 2 - (n + 1)
       /\ \A i \in 1..n : (n + 1) + 1 - i = n + 2 - i
  BY <1>1, <1>3, <1>4, <1>6
<1>13. ASSUME NEW i \in 1..(n + 1)
       PROVE  /\ batchCh'[i] # <<>> /\ Len(batchCh'[i]) <= BatchSize
              /\ \A j \in DOMAIN batchCh'[i] : batchCh'[i][j] = First(i)' + j - 1
              /\ First(i + 1)' = First(i)' + Len(batchCh'[i])
              /\ \A k \in i..(n + 1) : First(i + 1)' <= First(k + 1)'
              /\ Sent' + 1 - First(i)' <= (n + 1 + 1 - i) * BatchSize
  <2>1. CASE i \in 1..n  BY <1>8, <1>12, <2>1
  <2>2. CASE i = n + 1  BY <1>9, <1>12, <2>2
  <2>3. QED  BY <1>11, <2>1, <2>2
<1>14. QED  BY <1>2, <1>7, <1>10, <1>13 DEF BatchesInv

\* The first batch goes, and the others move up.
LEMMA TakeBatchShifts ==
    ASSUME TypeOK, GoroutineInv, FlowInv, BatchesInv, TakeBatch
    PROVE  BatchesInv'
<1>n. PICK n \in Nat : n = Len(batchCh)  BY Counters
<1>1. /\ batchCh # <<>> /\ n \in Nat \ {0}
      /\ DOMAIN batchCh = 1..n
      /\ Len(batchCh') = n - 1 /\ DOMAIN batchCh' = 1..(n - 1)
      /\ \A i \in 1..(n - 1) : batchCh'[i] = batchCh[i + 1]
  <2>1. /\ Len(batchCh) \in Nat \ {0} /\ batchCh' \in Seq(Seq(Items))
        /\ Len(batchCh') = Len(batchCh) - 1
        /\ \A i \in 1..Len(batchCh') : batchCh'[i] = batchCh[i + 1]
    BY TailBatches DEF TakeBatch, TypeOK
  <2>2. batchCh # <<>> /\ batchCh \in Seq(Seq(Items))  BY DEF TakeBatch, TypeOK
  <2>3. QED  BY <1>n, <2>1, <2>2
<1>2. UNCHANGED <<put, putCh, buffer, born>>
  BY DEF TakeBatch, processVars
<1>3. Sent' = Sent  BY <1>2 DEF Sent, Received
<1>4. PICK l \in Nat : /\ l = Len(Head(batchCh)) /\ id' = id + l
                       /\ \A j \in 1..l : batchCh[1][j] = Taken + j
                       /\ DOMAIN batchCh[1] = 1..l /\ Len(batchCh[1]) = l
  <2>1. /\ Head(batchCh) \in Seq(Items) /\ Len(Head(batchCh)) \in 1..BatchSize
        /\ \A j \in 1..Len(Head(batchCh)) : Head(batchCh)[j] = Taken + j
        /\ id' = id + Len(Head(batchCh))
    BY NextBatch
  <2>2. Head(batchCh) = batchCh[1]  BY <1>1, TailBatches DEF TypeOK
  <2>3. QED  BY <2>1, <2>2
<1>5. Taken' = Taken + l
  BY <1>2, <1>4, Counters DEF Taken
<1>6. \A i \in 1..n : First(i)' = First(i + 1)
  <2>1. ASSUME NEW i \in 1..n  PROVE First(i)' = First(i + 1)
    <3>1. CASE i \in 1..(n - 1)
      <4>1. i + 1 \in 1..n  BY <3>1
      <4>2. QED  BY <1>1, <3>1, <4>1 DEF First
    <3>2. CASE i = n
      <4>1. i \notin 1..(n - 1) /\ i + 1 \notin 1..n  BY <3>2
      <4>2. QED  BY <1>1, <1>3, <4>1 DEF First
    <3>3. QED  BY <2>1, <3>1, <3>2
  <2>2. QED  BY <2>1
<1>7. /\ First(1) = Taken + 1
      /\ First(2) = First(1) + l
  <2>1. 1 \in DOMAIN batchCh /\ 1 + 1 = 2  BY <1>1
  <2>2. First(2) = First(1) + Len(batchCh[1])  BY <2>1 DEF BatchesInv
  <2>3. QED  BY <1>4, <2>2 DEF BatchesInv
<1>8. First(1)' = Taken' + 1
  <2>1. First(1)' = First(2)
    <3>1. 1 \in 1..n /\ 1 + 1 = 2  BY <1>1
    <3>2. QED  BY <1>6, <3>1
  <2>2. QED  BY <1>5, <1>7, <2>1, Counters
<1>9. ASSUME NEW i \in 1..(n - 1)
      PROVE  /\ batchCh'[i] # <<>> /\ Len(batchCh'[i]) <= BatchSize
             /\ \A j \in DOMAIN batchCh'[i] : batchCh'[i][j] = First(i)' + j - 1
             /\ First(i + 1)' = First(i)' + Len(batchCh'[i])
             /\ \A k \in i..(n - 1) : First(i + 1)' <= First(k + 1)'
             /\ Sent' + 1 - First(i)' <= (n - 1 + 1 - i) * BatchSize
  <2>1. i + 1 \in 1..n /\ i \in 1..n  OBVIOUS
  <2>2. /\ batchCh[i + 1] # <<>> /\ Len(batchCh[i + 1]) <= BatchSize
        /\ \A j \in DOMAIN batchCh[i + 1] : batchCh[i + 1][j] = First(i + 1) + j - 1
        /\ First((i + 1) + 1) = First(i + 1) + Len(batchCh[i + 1])
        /\ \A k \in (i + 1)..n : First((i + 1) + 1) <= First(k + 1)
        /\ Sent + 1 - First(i + 1) <= (n + 1 - (i + 1)) * BatchSize
    BY <1>1, <1>n, <2>1 DEF BatchesInv
  <2>3. /\ batchCh'[i] = batchCh[i + 1] /\ First(i)' = First(i + 1)
        /\ First(i + 1)' = First((i + 1) + 1)
    BY <1>1, <1>6, <2>1
  <2>4. ASSUME NEW k \in i..(n - 1)
        PROVE  First(i + 1)' <= First(k + 1)'
    <3>1. k + 1 \in (i + 1)..n /\ k + 1 \in 1..n  BY <2>4
    <3>2. First(k + 1)' = First((k + 1) + 1)  BY <1>6, <3>1
    <3>3. QED  BY <2>2, <2>3, <3>1, <3>2
  <2>5. n + 1 - (i + 1) = n - 1 + 1 - i  OBVIOUS
  <2>6. QED  BY <1>3, <2>2, <2>3, <2>4, <2>5
<1>10. (Taken' + 1)..Sent' \subseteq UNION {ToSet(batchCh'[i]) : i \in DOMAIN batchCh'}
  <2>1. ASSUME NEW x \in (Taken + l + 1)..Sent
        PROVE  \E i \in 1..(n - 1) : x \in ToSet(batchCh'[i])
    <3>1. x \in (Taken + 1)..Sent  BY <2>1, Counters
    <3>2. PICK i \in 1..n : x \in ToSet(batchCh[i])
      BY <1>1, <3>1 DEF BatchesInv
    <3>3. i # 1
      <4>1. ASSUME i = 1  PROVE FALSE
        <5>1. PICK j \in 1..l : x = batchCh[1][j]
          BY <1>4, <3>2, <4>1 DEF ToSet
        <5>2. x = Taken + j  BY <1>4, <5>1
        <5>3. QED  BY <2>1, <5>2, Counters
      <4>2. QED  BY <4>1
    <3>4. i - 1 \in 1..(n - 1) /\ (i - 1) + 1 = i  BY <3>3
    <3>5. batchCh'[i - 1] = batchCh[i]  BY <1>1, <3>4
    <3>6. QED  BY <3>2, <3>4, <3>5
  <2>2. QED  BY <1>1, <1>3, <1>5, <2>1
<1>11. QED  BY <1>1, <1>8, <1>9, <1>10 DEF BatchesInv

\* The batches between the goroutines stay in order, and none is left out.
LEMMA BatchesStep ==
    ASSUME TypeOK, GoroutineInv, FlowInv, BatchesInv, [Next]_vars
    PROVE  BatchesInv'
<1> USE DEF batchVars, writeVars, serviceVars, reportVars, stopVars, processVars
<1>t. UNCHANGED <<id, born>> => UNCHANGED Taken  BY DEF Taken
<1>1. CASE Put
  <2>1. UNCHANGED <<buffer, batchCh, id, born>>  BY <1>1 DEF Put
  <2>2. put + 1 \in Items  BY <1>1, BatchSinkAssumption DEF Put, Items, TypeOK
  <2>3. Len(putCh') = Len(putCh) + 1
    BY <1>1, <2>2, AppendElements DEF Put, TypeOK
  <2>4. Sent' = Sent
    BY <1>1, <2>1, <2>3, Counters DEF Put, Received, Sent
  <2>5. QED  BY <1>t, <2>1, <2>4, BatchesStay
<1>2. CASE Receive
  <2>1. UNCHANGED <<put, batchCh, id, born>>  BY <1>2 DEF Receive
  <2>2. Head(putCh) \in Items /\ Len(putCh') = Len(putCh) - 1
    BY <1>2, TailElements DEF Receive, TypeOK
  <2>3. Len(buffer') = Len(buffer) + 1
    BY <1>2, <2>2, AppendElements DEF Receive, TypeOK
  <2>4. Received' = Received + 1  BY <2>1, <2>2, Counters DEF Received
  <2>5. Sent' = Sent  BY <2>3, <2>4, Counters DEF Sent
  <2>6. QED  BY <1>t, <2>1, <2>5, BatchesStay
<1>3. CASE HandOver  BY <1>3, HandOverAppends
<1>4. CASE TakeBatch  BY <1>4, TakeBatchShifts
<1>5. CASE Tick \/ SendOk \/ SendAgain \/ SendFails \/ SendTooLong \/ StopCalled
           \/ StopReturns \/ Restart \/ Forget \/ UNCHANGED vars
  <2>1. UNCHANGED <<put, putCh, buffer, batchCh, id, born>>
    BY <1>5 DEF Tick, SendOk, SendAgain, SendFails, SendTooLong, Answered, StopCalled,
                StopReturns, Restart, Forget, vars
  <2>2. Sent' = Sent  BY <2>1 DEF Sent, Received
  <2>3. QED  BY <1>t, <2>1, <2>2, BatchesStay
<1>6. CASE ProcessEnds
  <2>1. /\ putCh' = <<>> /\ buffer' = <<>> /\ batchCh' = <<>> /\ id' = 0
        /\ born' = put /\ put' = put
    BY <1>6 DEF ProcessEnds
  <2>2. Sent' = put /\ Taken' = put
    BY <2>1, Counters DEF Sent, Received, Taken
  <2>3. DOMAIN batchCh' = {}  BY <2>1
  <2>4. First(1)' = put + 1  BY <2>2, <2>3 DEF First
  <2>5. (put + 1)..put = {}  BY Counters
  <2>6. QED  BY <2>2, <2>3, <2>4, <2>5 DEF BatchesInv
<1>7. QED
  BY <1>1, <1>2, <1>3, <1>4, <1>5, <1>6 DEF Next, Batch, Write

\* The goroutines wait only where they should.
LEMMA GoroutineStep ==
    ASSUME TypeOK, GoroutineInv, FlowInv, BatchesInv, TypeOK', [Next]_vars
    PROVE  GoroutineInv'
<1> USE DEF batchVars, writeVars, serviceVars, reportVars, stopVars, processVars
<1>r. UNCHANGED <<put, putCh>> => UNCHANGED Received  BY DEF Received
<1>1. CASE Put
  <2>1. put + 1 \in Items  BY <1>1, BatchSinkAssumption DEF Put, Items, TypeOK
  <2>2. Len(putCh') = Len(putCh) + 1
    BY <1>1, <2>1, AppendElements DEF Put, TypeOK
  <2>3. Received' = Received  BY <1>1, <2>2, Counters DEF Put, Received
  <2>4. waitedFor <= put' BY <1>1, Counters DEF Put, GoroutineInv
  <2>5. QED  BY <1>1, <2>3, <2>4 DEF Put, GoroutineInv
<1>2. CASE Receive
  <2>1. Head(putCh) \in Items /\ Len(putCh') = Len(putCh) - 1
    BY <1>2, TailElements DEF Receive, TypeOK
  <2>2. Received' = Received + 1  BY <1>2, <2>1, Counters DEF Receive, Received
  <2>3. Len(buffer') = Len(buffer) + 1 /\ buffer' # <<>>
    BY <1>2, <2>1, AppendElements DEF Receive, TypeOK
  <2>4. batcher' = "collect" => Len(buffer') < BatchSize
    BY <1>2, <2>3, Counters, BatchSinkAssumption DEF Receive, GoroutineInv
  <2>5. stop = "done" => waitedFor <= Received'
    BY <2>2, Counters DEF GoroutineInv
  <2>6. UNCHANGED <<writer, entries, waitedFor, put, stop, restarts, up, born>>
    BY <1>2 DEF Receive
  <2>7. QED  BY <2>3, <2>4, <2>5, <2>6 DEF GoroutineInv
<1>3. CASE Tick
  BY <1>3, <1>r DEF Tick, GoroutineInv
<1>4. CASE HandOver
  <2>1. Len(buffer') < BatchSize
    BY <1>4, BatchSinkAssumption DEF HandOver
  <2>2. UNCHANGED <<writer, entries, waitedFor, put, putCh, stop, restarts, up, born>>
        /\ batcher' = "collect"
    BY <1>4 DEF HandOver
  <2>3. QED  BY <1>r, <2>1, <2>2 DEF GoroutineInv
<1>5. CASE TakeBatch
  <2>1. entries' # <<>>
    <3>1. Len(entries') # 0  BY <1>5, NextBatch
    <3>2. QED  BY <3>1
  <2>2. writer' = "batch"
        /\ UNCHANGED <<batcher, buffer, waitedFor, put, putCh, stop, restarts, up, born>>
    BY <1>5 DEF TakeBatch
  <2>3. QED  BY <1>r, <2>1, <2>2 DEF GoroutineInv
<1>6. CASE SendOk \/ SendFails
  <2>1. PICK failed \in BOOLEAN : writer # "idle" /\ Answered(failed)
    BY <1>6 DEF SendOk, SendFails
  <2>2. writer' = "idle" <=> entries' = <<>>  BY <2>1, AnsweredMoves
  <2>3. UNCHANGED <<batcher, buffer, waitedFor, put, putCh, stop, restarts, up, born>>
    BY <2>1, AnsweredMoves
  <2>4. QED  BY <1>r, <2>2, <2>3 DEF GoroutineInv
<1>7. CASE SendAgain \/ SendTooLong \/ Forget \/ UNCHANGED vars
  <2>1. UNCHANGED <<batcher, buffer, waitedFor, put, putCh, stop, restarts, up, born,
                    entries>>
        /\ (writer' = "idle" <=> writer = "idle")
    BY <1>7 DEF SendAgain, SendTooLong, Forget, vars
  <2>2. QED  BY <1>r, <2>1 DEF GoroutineInv
<1>8. CASE StopCalled
  <2>1. put <= put  BY Counters
  <2>2. QED  BY <1>8, <2>1, <1>r DEF StopCalled, GoroutineInv
<1>9. CASE StopReturns
  <2>1. Len(putCh) = 0  BY <1>9 DEF StopReturns
  <2>2. Received' = put  BY <1>9, <2>1, Counters DEF StopReturns, Received
  <2>3. QED  BY <1>9, <2>2 DEF StopReturns, GoroutineInv
<1>10. CASE ProcessEnds
  <2>1. /\ batcher' = "collect" /\ buffer' = <<>> /\ writer' = "idle"
        /\ entries' = <<>> /\ waitedFor' = 0 /\ put' = put /\ stop' = "no" /\ up' = FALSE
    BY <1>10 DEF ProcessEnds
  <2>2. Len(buffer') < BatchSize /\ waitedFor' <= put'
    BY <2>1, Counters, BatchSinkAssumption
  <2>3. QED  BY <2>1, <2>2 DEF GoroutineInv
<1>11. CASE Restart
  <2>1. restarts' # 0  BY <1>11 DEF Restart, TypeOK
  <2>2. QED  BY <1>11, <1>r, <2>1 DEF Restart, GoroutineInv
<1>12. QED
  BY <1>1, <1>2, <1>3, <1>4, <1>5, <1>6, <1>7, <1>8, <1>9, <1>10, <1>11
  DEF Next, Batch, Write

\* Where every item is.
WayInv == TypeOK /\ FlowInv /\ BatchesInv /\ GoroutineInv

\* It holds at the start.
LEMMA WayInit ==
    ASSUME Init
    PROVE  WayInv
<1>1. /\ put = 0 /\ id = 0 /\ born = 0 /\ waitedFor = 0 /\ restarts = 0
      /\ putCh = <<>> /\ buffer = <<>> /\ batchCh = <<>> /\ entries = <<>>
      /\ delivered = <<>> /\ batcher = "collect" /\ writer = "idle" /\ stop = "no"
  BY DEF Init
<1>2. 0 \in 0..MaxItems /\ 0 \in 0..MaxRestarts  BY BatchSinkAssumption
<1>3. /\ putCh \in Seq(Items) /\ Len(putCh) = 0
      /\ buffer \in Seq(Items) /\ Len(buffer) = 0
      /\ batchCh \in Seq(Seq(Items)) /\ Len(batchCh) = 0
      /\ entries \in Seq(Entries) /\ Len(entries) = 0
      /\ delivered \in Seq(Items)
  BY <1>1
<1>4. 0 <= Capacity /\ 0 <= BatchSize /\ 0 < BatchSize /\ 0 <= BatchCapacity
  BY BatchSinkAssumption
<1>5. TypeOK
  BY <1>1, <1>2, <1>3, <1>4 DEF Init, TypeOK
<1>6. Received = 0 /\ Sent = 0 /\ Taken = 0 /\ Done = 0
  <2>1. Received = 0
    <3>1. put = 0 /\ Len(putCh) = 0  BY <1>1, <1>3
    <3>2. QED  BY ONLY <3>1 DEF Received
  <2>2. Taken = 0  BY <1>1 DEF Taken
  <2>3. QED  BY <1>3, <2>1, <2>2 DEF Sent, Done
<1>7. FlowInv
  <2>1. DOMAIN putCh = {} /\ DOMAIN buffer = {} /\ DOMAIN entries = {}  BY <1>1
  <2>2. QED  BY <1>1, <1>6, <2>1 DEF FlowInv
<1>8. BatchesInv
  <2>1. DOMAIN batchCh = {}  BY <1>1
  <2>2. First(1) = Taken + 1  BY <1>6, <2>1 DEF First
  <2>3. (Taken + 1)..Sent = {}  BY <1>6
  <2>4. QED  BY <2>1, <2>2, <2>3 DEF BatchesInv
<1>9. GoroutineInv
  BY <1>1, <1>3, <1>4 DEF GoroutineInv
<1>10. QED  BY <1>5, <1>7, <1>8, <1>9 DEF WayInv

\* And in every state.
LEMMA WayHolds == Spec => []WayInv
<1>1. Init => WayInv  BY WayInit
<1>2. WayInv /\ [Next]_vars => WayInv'
  BY TypeStep, FlowStep, BatchesStep, GoroutineStep DEF WayInv
<1>3. QED  BY <1>1, <1>2, PTL DEF Spec

\* Every variable keeps its type: no batch is longer than the services take.
THEOREM TypeCorrect == Spec => []TypeOK
BY WayHolds, PTL DEF WayInv

-----------------------------------------------------------------------------
(* What is on its way.                                                     *)

\* The batches hold what was sent to batchCh and not taken yet.
LEMMA BatchesHold ==
    ASSUME WayInv
    PROVE  /\ Taken <= Sent
           /\ UNION {ToSet(batchCh[i]) : i \in DOMAIN batchCh} = (Taken + 1)..Sent
           /\ Sent - Taken <= Len(batchCh) * BatchSize
<1>n. PICK n \in Nat : n = Len(batchCh)  BY Counters DEF WayInv
<1>1. DOMAIN batchCh = 1..n /\ Taken \in Int /\ Sent \in Int
      /\ BatchSize \in Nat
  BY <1>n, Counters, BatchSinkAssumption DEF WayInv, TypeOK
<1>2. First(1) = Taken + 1 /\ First(n + 1) = Sent + 1
  BY <1>1 DEF WayInv, BatchesInv, First
<1>3. ASSUME NEW i \in 1..n
      PROVE  /\ Len(batchCh[i]) \in Nat /\ First(i) \in Int
             /\ \A j \in 1..Len(batchCh[i]) : batchCh[i][j] = First(i) + j - 1
             /\ DOMAIN batchCh[i] = 1..Len(batchCh[i])
             /\ First(i) + Len(batchCh[i]) <= Sent + 1
  <2>1. batchCh[i] \in Seq(Items)  BY <1>1 DEF WayInv, TypeOK
  <2>2. batchCh[i] # <<>> /\ First(i + 1) = First(i) + Len(batchCh[i])
        /\ First(i + 1) <= First(n + 1)
        /\ \A j \in DOMAIN batchCh[i] : batchCh[i][j] = First(i) + j - 1
    <3>1. i \in DOMAIN batchCh /\ n \in i..Len(batchCh)  BY <1>1, <1>n
    <3>2. \A k \in i..Len(batchCh) : First(i + 1) <= First(k + 1)
      BY <3>1 DEF WayInv, BatchesInv
    <3>3. First(i + 1) <= First(n + 1)  BY <3>1, <3>2
    <3>4. QED  BY <3>1, <3>3 DEF WayInv, BatchesInv
  <2>3. DOMAIN batchCh[i] = 1..Len(batchCh[i]) /\ Len(batchCh[i]) \in Nat
    BY <2>1
  <2>4. First(i) \in Int
    <3>1. 1 \in DOMAIN batchCh[i]  BY <2>1, <2>2
    <3>2. batchCh[i][1] \in Items  BY <2>1, <3>1
    <3>3. QED  BY <1>1, <3>2 DEF First, Items
  <2>5. QED  BY <1>2, <2>2, <2>3, <2>4
<1>4. ASSUME NEW i \in 1..n
      PROVE  Taken + 1 <= First(i)
  <2>1. CASE i = 1  BY <1>1, <1>2, <2>1
  <2>2. CASE i # 1
    <3>1. 1 \in 1..n /\ i - 1 \in 1..n /\ (i - 1) + 1 = i /\ 1 + 1 = 2  BY <2>2
    <3>2. First(2) = First(1) + Len(batchCh[1]) /\ First(2) <= First(i)
      BY <1>1, <1>n, <3>1 DEF WayInv, BatchesInv
    <3>3. Len(batchCh[1]) \in Nat  BY <1>3, <3>1
    <3>4. QED  BY <1>1, <1>2, <1>3, <3>2, <3>3
  <2>3. QED  BY <2>1, <2>2
<1>5. ASSUME NEW i \in 1..n, NEW x \in ToSet(batchCh[i])
      PROVE  x \in (Taken + 1)..Sent
  <2>1. PICK j \in 1..Len(batchCh[i]) : x = batchCh[i][j]
    BY <1>3, <1>5 DEF ToSet
  <2>2. x = First(i) + j - 1  BY <1>3, <2>1
  <2>3. First(i) \in Int /\ Len(batchCh[i]) \in Nat /\ Taken + 1 <= First(i)
        /\ First(i) + Len(batchCh[i]) <= Sent + 1
    BY <1>3, <1>4
  <2>4. QED  BY ONLY <1>1, <2>1, <2>2, <2>3
<1>6. (Taken + 1)..Sent \subseteq UNION {ToSet(batchCh[i]) : i \in DOMAIN batchCh}
  BY DEF WayInv, BatchesInv
<1>7. UNION {ToSet(batchCh[i]) : i \in DOMAIN batchCh} = (Taken + 1)..Sent
  BY <1>1, <1>5, <1>6
<1>8. Taken <= Sent /\ Sent - Taken <= n * BatchSize
  <2>1. CASE n = 0
    <3>1. Sent = Taken  BY <1>1, <1>2, <2>1
    <3>2. n * BatchSize = 0  BY <1>1, <2>1
    <3>3. QED  BY <1>1, <3>1, <3>2
  <2>2. CASE n # 0
    <3>1. 1 \in 1..n  BY <2>2
    <3>2. Sent + 1 - First(1) <= (n + 1 - 1) * BatchSize
      BY <1>1, <1>n, <3>1 DEF WayInv, BatchesInv
    <3>3. n + 1 - 1 = n /\ Sent + 1 - First(1) = Sent - Taken  BY <1>1, <1>2
    <3>4. First(1) + Len(batchCh[1]) <= Sent + 1 /\ Len(batchCh[1]) \in Nat
      BY <1>3, <3>1
    <3>5. QED  BY <1>1, <1>2, <3>2, <3>3, <3>4
  <2>3. QED  BY <2>1, <2>2
<1>9. QED  BY <1>n, <1>7, <1>8

\* Whatever is accepted and not done with is on its way, past putCh if it was
\* received.
LEMMA OnItsWay ==
    ASSUME WayInv
    PROVE  /\ Batched = (Done + 1)..Received
           /\ ToSet(putCh) = (Received + 1)..put
           /\ born <= Done /\ Done <= Taken /\ Sent <= Received /\ Received <= put
<1>1. /\ put \in Nat /\ born \in Nat
      /\ Len(putCh) \in Nat /\ Len(buffer) \in Nat /\ Len(entries) \in Nat
      /\ Received \in Int /\ Sent \in Int /\ Taken \in Int /\ Done \in Int
      /\ DOMAIN putCh = 1..Len(putCh) /\ DOMAIN buffer = 1..Len(buffer)
      /\ DOMAIN entries = 1..Len(entries)
  BY Counters DEF WayInv, TypeOK
<1>2. /\ put = Received + Len(putCh) /\ Received = Sent + Len(buffer)
      /\ Taken = Done + Len(entries)
  BY <1>1 DEF Received, Sent, Done
<1>3. ToSet(putCh) = (Received + 1)..put
  <2>1. \A i \in 1..Len(putCh) : putCh[i] = Received + i
    BY <1>1 DEF WayInv, FlowInv
  <2>2. \A x \in (Received + 1)..put : x - Received \in 1..Len(putCh)
                                      /\ x = Received + (x - Received)
    BY <1>1, <1>2
  <2>3. \A i \in 1..Len(putCh) : Received + i \in (Received + 1)..put
    BY <1>1, <1>2
  <2>4. QED  BY <1>1, <2>1, <2>2, <2>3 DEF ToSet
<1>4. ToSet(buffer) = (Sent + 1)..Received
  <2>1. \A i \in 1..Len(buffer) : buffer[i] = Sent + i
    BY <1>1 DEF WayInv, FlowInv
  <2>2. \A x \in (Sent + 1)..Received : x - Sent \in 1..Len(buffer)
                                       /\ x = Sent + (x - Sent)
    BY <1>1, <1>2
  <2>3. \A i \in 1..Len(buffer) : Sent + i \in (Sent + 1)..Received
    BY <1>1, <1>2
  <2>4. QED  BY <1>1, <2>1, <2>2, <2>3 DEF ToSet
<1>5. ItemsOf(entries) = (Done + 1)..Taken
  <2>1. \A i \in 1..Len(entries) : entries[i].item = Done + i
    BY <1>1 DEF WayInv, FlowInv
  <2>2. \A x \in (Done + 1)..Taken : x - Done \in 1..Len(entries)
                                    /\ x = Done + (x - Done)
    BY <1>1, <1>2
  <2>3. \A i \in 1..Len(entries) : Done + i \in (Done + 1)..Taken
    BY <1>1, <1>2
  <2>4. ItemsOf(entries) = {entries[i].item : i \in 1..Len(entries)}
    BY <1>1 DEF ItemsOf
  <2>5. ASSUME NEW x \in (Done + 1)..Taken
        PROVE  x \in ItemsOf(entries)
    <3>1. x - Done \in 1..Len(entries) /\ entries[x - Done].item = x
      BY <2>1, <2>2, <2>5
    <3>2. QED  BY <2>4, <3>1
  <2>6. ASSUME NEW x \in ItemsOf(entries)
        PROVE  x \in (Done + 1)..Taken
    <3>1. PICK i \in 1..Len(entries) : x = entries[i].item  BY <2>4, <2>6
    <3>2. QED  BY <2>1, <2>3, <3>1
  <2>7. QED  BY <2>5, <2>6
<1>6. Taken <= Sent
      /\ UNION {ToSet(batchCh[i]) : i \in DOMAIN batchCh} = (Taken + 1)..Sent
  BY BatchesHold
<1>7. Done <= Taken /\ Sent <= Received /\ Received <= put  BY <1>1, <1>2
<1>8. (Done + 1)..Received =
        ((Sent + 1)..Received \cup (Taken + 1)..Sent) \cup (Done + 1)..Taken
  BY <1>1, <1>6, <1>7
<1>9. Batched = (Done + 1)..Received
  BY <1>4, <1>5, <1>6, <1>8 DEF Batched
<1>10. QED  BY <1>3, <1>7, <1>9 DEF WayInv, FlowInv

\* Once Stop returned, of the items accepted before it was called only what two
\* batches and a full batchCh hold can be lost with the process.
THEOREM StopBoundsLoss == Spec => []LostAtStop
<1>1. WayInv => LostAtStop
  <2> SUFFICES ASSUME WayInv, stop = "done"
               PROVE  /\ (1..waitedFor) \cap InFlight \subseteq Batched
                      /\ Cardinality(Batched) <= (BatchCapacity + 2) * BatchSize
    BY DEF LostAtStop
  <2>1. /\ Batched = (Done + 1)..Received
        /\ ToSet(putCh) = (Received + 1)..put
        /\ Done <= Taken /\ Sent <= Received
    BY OnItsWay
  <2>2. waitedFor <= Received  BY DEF WayInv, GoroutineInv
  <2>3. waitedFor \in Nat /\ Received \in Int /\ Sent \in Int /\ Taken \in Int
        /\ Done \in Int /\ put \in Nat
    BY Counters DEF WayInv
  <2>4. (1..waitedFor) \cap ToSet(putCh) = {}  BY <2>1, <2>2, <2>3
  <2>5. Received - Done <= (BatchCapacity + 2) * BatchSize
    <3>1. PICK n \in Nat : n = Len(batchCh)  BY Counters DEF WayInv
    <3>2. PICK b \in Nat : b = Len(buffer)  BY Counters DEF WayInv
    <3>3. PICK e \in Nat : e = Len(entries)  BY Counters DEF WayInv
    <3>4. n <= BatchCapacity /\ b <= BatchSize /\ e <= BatchSize
          /\ BatchCapacity \in Nat /\ BatchSize \in Nat
      BY <3>1, <3>2, <3>3, BatchSinkAssumption DEF WayInv, TypeOK
    <3>5. Received = Sent + b /\ Taken = Done + e
      BY <2>3, <3>2, <3>3, Counters DEF WayInv, Sent, Done
    <3>6. Sent - Taken <= n * BatchSize  BY <3>1, BatchesHold
    <3>7. n * BatchSize <= BatchCapacity * BatchSize
          /\ (BatchCapacity + 2) * BatchSize
                = BatchCapacity * BatchSize + BatchSize + BatchSize
      BY ONLY <3>4
    <3>8. n * BatchSize \in Nat /\ BatchCapacity * BatchSize \in Nat  BY <3>4
    <3>9. QED  BY ONLY <2>3, <3>4, <3>5, <3>6, <3>7, <3>8
  <2>6. Cardinality(Batched) <= (BatchCapacity + 2) * BatchSize
    <3>1. Done + 1 \in Int  BY <2>3
    <3>2. Cardinality((Done + 1)..Received) =
            IF Done + 1 > Received THEN 0 ELSE Received - (Done + 1) + 1
      BY <2>3, <3>1, FS_Interval
    <3>3. (BatchCapacity + 2) * BatchSize \in Nat  BY BatchSinkAssumption
    <3>4. QED  BY <2>1, <2>3, <2>5, <3>2, <3>3
  <2>7. QED  BY <2>4, <2>6 DEF InFlight
<1>2. QED  BY <1>1, WayHolds, PTL

-----------------------------------------------------------------------------
(* What became of the items.                                               *)

\* Each of items 1..n meets at most one fate: it is in s once, and in the order there
\* is (if a part of a request was ever sent again, that of the batches), or lost.
Fates(n, s, lost, ever) ==
    /\ ToSet(s) \subseteq 1..n /\ lost \subseteq 1..n
    /\ ToSet(s) \cap lost = {}
    /\ \A i, j \in 1..Len(s) : s[i] = s[j] => i = j
    /\ ~ever => \A i, j \in 1..Len(s) : i < j => s[i] < s[j]
    /\ \A i, j \in 1..Len(s) : i < j => s[i] < s[j] + BatchSize

\* That is what Delivery and OrderKept say.
LEMMA FatesNow ==
    ASSUME TypeOK
    PROVE  D!OneFate /\ OrderKept
              <=> Fates(put, delivered, dropped, patched)
<1>1. DOMAIN delivered = 1..Len(delivered)  BY DEF TypeOK
<1>2. D!ToSet(delivered) = ToSet(delivered)  BY DEF D!ToSet, ToSet
<1>3. D!Settled = ToSet(delivered) \cup dropped  BY <1>2 DEF D!Settled
<1>4. D!IsInjective(delivered)
        <=> \A i, j \in 1..Len(delivered) : delivered[i] = delivered[j] => i = j
  BY <1>1 DEF D!IsInjective
<1>5. D!OneFate <=>
        /\ ToSet(delivered) \subseteq 1..put /\ dropped \subseteq 1..put
        /\ ToSet(delivered) \cap dropped = {}
        /\ \A i, j \in 1..Len(delivered) : delivered[i] = delivered[j] => i = j
  BY <1>2, <1>3, <1>4 DEF D!OneFate
<1>6. QED  BY <1>1, <1>5 DEF OrderKept, Fates

\* And so in the next state.
LEMMA FatesNext ==
    ASSUME TypeOK'
    PROVE  (D!OneFate /\ OrderKept)'
              <=> Fates(put', delivered', dropped', patched')
<1>1. DOMAIN delivered' = 1..Len(delivered')  BY DEF TypeOK
<1>2. D!ToSet(delivered') = ToSet(delivered')  BY DEF D!ToSet, ToSet
<1>3. D!Settled' = ToSet(delivered') \cup dropped'  BY <1>2 DEF D!Settled
<1>4. D!IsInjective(delivered')
        <=> \A i, j \in 1..Len(delivered') : delivered'[i] = delivered'[j] => i = j
  BY <1>1 DEF D!IsInjective
<1>5. D!OneFate' <=>
        /\ ToSet(delivered') \subseteq 1..put' /\ dropped' \subseteq 1..put'
        /\ ToSet(delivered') \cap dropped' = {}
        /\ \A i, j \in 1..Len(delivered') : delivered'[i] = delivered'[j] => i = j
  BY <1>2, <1>3, <1>4 DEF D!OneFate
<1>6. QED  BY <1>1, <1>5 DEF OrderKept, Fates

\* The request holds the first items that write is not done with.
LEMMA RequestHolds ==
    ASSUME WayInv
    PROVE  /\ Len(Request) \in Nat /\ Len(Request) <= Len(entries)
           /\ DOMAIN Request = 1..Len(Request)
           /\ \A i \in 1..Len(Request) :
                 /\ Request[i].item = Done + i /\ Request[i].id = Done + i - born - 1
                 /\ Request[i] = entries[i]
           /\ ItemsOf(Request) = (Done + 1)..(Done + Len(Request))
           /\ writer = "idle" => Request = <<>> /\ Len(Request) = 0
           /\ writer # "idle" => Len(Request) \in Nat \ {0}
           /\ Done + Len(Request) <= put
<1>1. CASE writer = "idle"
  <2>1. Request = <<>>  BY <1>1 DEF Request, WayInv, GoroutineInv
  <2>2. Len(Request) = 0 /\ DOMAIN Request = {} /\ ItemsOf(Request) = {}
        /\ DOMAIN Request = 1..Len(Request)
    BY <2>1 DEF ItemsOf
  <2>3. Done \in Int /\ Len(entries) \in Nat  BY Counters DEF WayInv
  <2>4. (Done + 1)..(Done + Len(Request)) = {}  BY <2>2, <2>3
  <2>5. Done <= put
    BY OnItsWay, BatchesHold, Counters DEF WayInv
  <2>6. QED  BY <1>1, <2>1, <2>2, <2>3, <2>4, <2>5
<1>2. CASE writer # "idle"
  <2>1. /\ Request \in Seq(Entries) /\ Len(Request) \in 1..Len(entries)
        /\ \A i \in 1..Len(Request) : Request[i] = entries[i]
    BY <1>2, RequestIs DEF WayInv
  <2>2. /\ Len(entries) \in Nat /\ DOMAIN entries = 1..Len(entries) /\ Done \in Int
        /\ DOMAIN Request = 1..Len(Request) /\ put \in Nat /\ Taken \in Int
        /\ Sent \in Int /\ Received \in Int
    BY <2>1, Counters DEF WayInv, TypeOK
  <2>3. ASSUME NEW i \in 1..Len(Request)
        PROVE  Request[i].item = Done + i /\ Request[i].id = Done + i - born - 1
    <3>1. i \in DOMAIN entries  BY <2>1, <2>2
    <3>2. QED  BY <2>1, <3>1 DEF WayInv, FlowInv
  <2>4. Done + Len(Request) <= put
    <3>1. Taken = Done + Len(entries)  BY <2>2 DEF Done
    <3>2. Taken <= Sent /\ Sent <= Received /\ Received <= put
      BY OnItsWay, BatchesHold
    <3>3. QED  BY <2>1, <2>2, <3>1, <3>2
  <2>5. ItemsOf(Request) = (Done + 1)..(Done + Len(Request))
    <3>1. ItemsOf(Request) = {Request[i].item : i \in 1..Len(Request)}
      BY <2>2 DEF ItemsOf
    <3>2. ASSUME NEW x \in (Done + 1)..(Done + Len(Request))
          PROVE  x \in ItemsOf(Request)
      <4>1. x - Done \in 1..Len(Request) /\ Done + (x - Done) = x
        BY <2>1, <2>2, <3>2
      <4>2. Request[x - Done].item = x  BY <2>3, <4>1
      <4>3. QED  BY <3>1, <4>1, <4>2
    <3>3. ASSUME NEW x \in ItemsOf(Request)
          PROVE  x \in (Done + 1)..(Done + Len(Request))
      <4>1. PICK i \in 1..Len(Request) : x = Request[i].item  BY <3>1, <3>3
      <4>2. QED  BY <2>1, <2>2, <2>3, <4>1
    <3>4. QED  BY <3>2, <3>3
  <2>6. QED  BY <1>2, <2>1, <2>2, <2>3, <2>4, <2>5
<1>3. QED  BY <1>1, <1>2

\* What the service stores is behind everything that write is done with, whatever it
\* stored of the request before.
LEMMA StoreKeepsFates ==
    ASSUME WayInv, FateInv, RequestInv, writer # "idle", NEW taken, Store(taken)
    PROVE  /\ delivered' \in Seq(Items) /\ D!IsPrefix(delivered, delivered')
           /\ Fates(put, delivered', dropped, patched)
           /\ \A i \in DOMAIN delivered' : delivered'[i] <= Done + Len(Request)
           /\ ToSet(delivered') =
                 ToSet(delivered) \cup {Request[i].item : i \in Stored(taken)}
<1>1. PICK new \in Seq(Items) :
        /\ delivered' = delivered \o new
        /\ \A i \in 1..Len(new) : \E n \in Fresh(taken) : new[i] = Request[n].item
        /\ \A n \in Fresh(taken) : \E i \in 1..Len(new) : new[i] = Request[n].item
        /\ \A i, j \in 1..Len(new) : i < j => new[i] < new[j]
  BY StoreAppends DEF WayInv
<1> DEFINE d == delivered
           R == Len(Request)
<1>2. /\ d \in Seq(Items) /\ DOMAIN d = 1..Len(d) /\ Len(d) \in Nat
      /\ \A i \in 1..Len(d) : d[i] \in Nat
  <2>1. d \in Seq(Items)  BY DEF WayInv, TypeOK
  <2>2. \A i \in 1..Len(d) : d[i] \in Items  BY <2>1
  <2>3. Items \subseteq Nat  BY BatchSinkAssumption DEF Items
  <2>4. DOMAIN d = 1..Len(d) /\ Len(d) \in Nat  BY <2>1
  <2>5. \A i \in 1..Len(d) : d[i] \in Nat  BY <2>2, <2>3
  <2>6. QED  BY <2>1, <2>4, <2>5
<1>3. Fates(put, d, dropped, patched) /\ dropped \subseteq 1..Done
      /\ \A i \in 1..Len(d) : d[i] <= Done + R
  BY <1>2, FatesNow DEF FateInv, WayInv
<1>4. /\ R \in Nat /\ DOMAIN Request = 1..R /\ Done \in Int /\ put \in Nat
      /\ \A i \in 1..R : Request[i].item = Done + i
      /\ Done + R <= put /\ born <= Done /\ born \in Nat
      /\ R <= BatchSize /\ BatchSize \in Nat
  <2>1. R <= Len(entries) /\ Len(entries) \in Nat /\ Len(entries) <= BatchSize
        /\ R \in Nat /\ BatchSize \in Nat
    BY RequestHolds, Counters, BatchSinkAssumption DEF WayInv, TypeOK
  <2>2. R <= BatchSize  BY <2>1
  <2>3. QED  BY <2>1, <2>2, RequestHolds, OnItsWay, Counters DEF WayInv
<1>5. /\ Len(new) \in Nat /\ DOMAIN new = 1..Len(new)
      /\ \A i \in 1..Len(new) : new[i] \in (Done + 1)..(Done + R)
      /\ \A i \in 1..Len(new) : new[i] \notin ToSet(d)
  <2>1. ASSUME NEW i \in 1..Len(new)  PROVE new[i] \in (Done + 1)..(Done + R)
    <3>1. PICK n \in Fresh(taken) : new[i] = Request[n].item  BY <1>1
    <3>2. n \in 1..R  BY <1>4 DEF Fresh, Stored
    <3>3. QED  BY <1>4, <3>1, <3>2
  <2>2. ASSUME NEW i \in 1..Len(new)  PROVE new[i] \notin ToSet(d)
    <3>1. PICK n \in Fresh(taken) : new[i] = Request[n].item  BY <1>1
    <3>2. QED  BY <3>1 DEF Fresh
  <2>3. QED  BY <2>1, <2>2
<1>6. ~patched /\ Len(new) # 0 => \A i \in 1..Len(d) : d[i] <= Done
  <2>1. SUFFICES ASSUME ~patched, Len(new) # 0  PROVE \A i \in 1..Len(d) : d[i] <= Done
    OBVIOUS
  <2>2. PICK n \in Fresh(taken) : TRUE  BY <1>1, <1>5, <2>1
  <2>3. /\ n \in DOMAIN Request /\ Request[n].item \notin ToSet(d)
        /\ ~(sink.ids /\ Request[n].id \in seen)
    BY DEF Fresh, Stored
  <2>4. QED  BY <1>2, <2>1, <2>3 DEF RequestInv
<1>7. /\ delivered' \in Seq(Items) /\ Len(delivered') = Len(d) + Len(new)
      /\ DOMAIN delivered' = 1..Len(delivered')
      /\ \A i \in 1..Len(d) : delivered'[i] = d[i]
      /\ \A i \in 1..Len(new) : delivered'[Len(d) + i] = new[i]
      /\ \A i \in 1..Len(delivered') :
            i \in 1..Len(d) \/ \E j \in 1..Len(new) : i = Len(d) + j
  <2>1. /\ delivered' \in Seq(Items) /\ Len(delivered') = Len(d) + Len(new)
        /\ \A i \in 1..Len(d) : delivered'[i] = d[i]
        /\ \A i \in 1..Len(new) : delivered'[Len(d) + i] = new[i]
        /\ \A i \in 1..Len(delivered') :
              i \in 1..Len(d) \/ \E j \in 1..Len(new) : i = Len(d) + j
    BY <1>1, <1>2, ConcatElements
  <2>2. QED  BY <2>1
<1>8. D!IsPrefix(delivered, delivered')
  BY <1>1, <1>2, ConcatPrefix
<1> HIDE DEF d, R
<1>9. \A i \in 1..Len(delivered') : delivered'[i] <= Done + R
  <2>1. ASSUME NEW i \in 1..Len(new)  PROVE new[i] <= Done + R
    BY <1>4, <1>5
  <2>2. QED  BY <1>3, <1>7, <2>1
<1>10. ASSUME NEW i \in 1..Len(delivered'), NEW j \in 1..Len(delivered'), i < j
       PROVE  /\ delivered'[i] # delivered'[j]
              /\ ~patched => delivered'[i] < delivered'[j]
              /\ delivered'[i] < delivered'[j] + BatchSize
  <2>1. CASE j \in 1..Len(d)
    <3>1. i \in 1..Len(d) /\ i # j  BY <1>2, <1>10, <2>1
    <3>2. d[i] # d[j] /\ (~patched => d[i] < d[j]) /\ d[i] < d[j] + BatchSize
      BY <1>3, <1>10, <2>1, <3>1 DEF Fates
    <3>3. QED  BY <1>7, <2>1, <3>1, <3>2
  <2>2. CASE j \notin 1..Len(d)
    <3>1. PICK n \in 1..Len(new) : j = Len(d) + n  BY <1>7, <2>2
    <3>2. new[n] \in (Done + 1)..(Done + R) /\ delivered'[j] = new[n]
          /\ new[n] \notin ToSet(d)
      BY <1>5, <1>7, <3>1
    <3>3. CASE i \in 1..Len(d)
      <4>1. Len(new) # 0  BY <1>5, <3>1
      <4>2. d[i] \in Nat /\ d[i] <= Done + R /\ (~patched => d[i] <= Done)
        BY <1>2, <1>3, <1>6, <3>3, <4>1
      <4>3. d[i] # new[n]  BY <1>2, <3>2, <3>3 DEF ToSet
      <4>4. delivered'[i] = d[i]  BY <1>7, <3>3
      <4>5. (~patched => d[i] < new[n]) /\ d[i] < new[n] + BatchSize
        BY <1>4, <3>2, <4>2
      <4>6. QED  BY <3>2, <4>3, <4>4, <4>5
    <3>4. CASE i \notin 1..Len(d)
      <4>1. PICK m \in 1..Len(new) : i = Len(d) + m  BY <1>7, <3>4
      <4>2. m < n  BY <1>2, <1>5, <1>10, <3>1, <4>1
      <4>3. new[m] < new[n]  BY <1>1, <4>2
      <4>4. new[m] \in Int /\ delivered'[i] = new[m]  BY <1>4, <1>5, <1>7, <4>1
      <4>5. QED  BY <1>4, <3>2, <4>3, <4>4
    <3>5. QED  BY <3>3, <3>4
  <2>3. QED  BY <2>1, <2>2
<1>11. ToSet(delivered') = ToSet(d) \cup ToSet(new)
  <2>1. /\ ToSet(delivered') = {delivered'[i] : i \in 1..Len(delivered')}
        /\ ToSet(d) = {d[i] : i \in 1..Len(d)}
        /\ ToSet(new) = {new[i] : i \in 1..Len(new)}
    BY <1>2, <1>5, <1>7 DEF ToSet
  <2>2. ASSUME NEW x \in ToSet(delivered')  PROVE x \in ToSet(d) \cup ToSet(new)
    <3>1. PICK i \in 1..Len(delivered') : x = delivered'[i]  BY <2>1, <2>2
    <3>2. CASE i \in 1..Len(d)  BY <1>7, <2>1, <3>1, <3>2
    <3>3. CASE i \notin 1..Len(d)
      <4>1. PICK j \in 1..Len(new) : i = Len(d) + j  BY <1>7, <3>3
      <4>2. x = new[j]  BY <1>7, <3>1, <4>1
      <4>3. QED  BY <2>1, <4>2
    <3>4. QED  BY <3>2, <3>3
  <2>3. ASSUME NEW x \in ToSet(d)  PROVE x \in ToSet(delivered')
    <3>1. PICK i \in 1..Len(d) : x = d[i]  BY <2>1, <2>3
    <3>2. i \in 1..Len(delivered') /\ x = delivered'[i]  BY <1>2, <1>5, <1>7, <3>1
    <3>3. QED  BY <2>1, <3>2
  <2>4. ASSUME NEW x \in ToSet(new)  PROVE x \in ToSet(delivered')
    <3>1. PICK i \in 1..Len(new) : x = new[i]  BY <2>1, <2>4
    <3>2. Len(d) + i \in 1..Len(delivered') /\ x = delivered'[Len(d) + i]
      BY <1>2, <1>5, <1>7, <3>1
    <3>3. QED  BY <2>1, <3>2
  <2>5. QED  BY <2>2, <2>3, <2>4
<1>12. ToSet(new) \subseteq (Done + 1)..(Done + R)  BY <1>5 DEF ToSet
<1>13. ToSet(delivered') \subseteq 1..put /\ ToSet(delivered') \cap dropped = {}
  <2>1. (Done + 1)..(Done + R) \subseteq 1..put  BY <1>4
  <2>2. (Done + 1)..(Done + R) \cap 1..Done = {}  BY <1>4
  <2>3. QED  BY <1>3, <1>11, <1>12, <2>1, <2>2 DEF Fates
<1>14. ToSet(delivered') = ToSet(d) \cup {Request[i].item : i \in Stored(taken)}
  <2>1. ToSet(new) = {Request[n].item : n \in Fresh(taken)}
    <3>1. ToSet(new) = {new[i] : i \in 1..Len(new)}  BY <1>5 DEF ToSet
    <3>2. ASSUME NEW x \in ToSet(new)  PROVE \E n \in Fresh(taken) : x = Request[n].item
      <4>1. PICK i \in 1..Len(new) : x = new[i]  BY <3>1, <3>2
      <4>2. QED  BY <1>1, <4>1
    <3>3. ASSUME NEW n \in Fresh(taken)  PROVE Request[n].item \in ToSet(new)
      <4>1. PICK i \in 1..Len(new) : new[i] = Request[n].item  BY <1>1
      <4>2. QED  BY <3>1, <4>1
    <3>4. QED  BY <3>2, <3>3
  <2>2. \A n \in Stored(taken) : n \in Fresh(taken) \/ Request[n].item \in ToSet(d)
    BY DEF Fresh, d
  <2>3. Fresh(taken) \subseteq Stored(taken)  BY DEF Fresh
  <2>4. QED  BY <1>11, <2>1, <2>2, <2>3
<1>15. Fates(put, delivered', dropped, patched)
  <2>1. ASSUME NEW i \in 1..Len(delivered'), NEW j \in 1..Len(delivered'),
               delivered'[i] = delivered'[j]
        PROVE  i = j
    <3>1. ~(i < j) /\ ~(j < i)  BY <1>10, <2>1
    <3>2. i \in Int /\ j \in Int  OBVIOUS
    <3>3. QED  BY ONLY <3>1, <3>2
  <2>2. dropped \subseteq 1..put  BY <1>3 DEF Fates
  <2>3. QED  BY <1>10, <1>13, <2>1, <2>2 DEF Fates
<1>16. QED  BY <1>7, <1>8, <1>9, <1>14, <1>15 DEF d, R

\* When a request is done with, write is done with its items.
LEMMA DoneMoves ==
    ASSUME WayInv, writer # "idle", NEW failed, Answered(failed)
    PROVE  Done' = Done + Len(Request) /\ UNCHANGED <<put, born, sink, restarts>>
<1>1. /\ Len(entries') = Len(entries) - Len(Request)
      /\ UNCHANGED <<put, id, born, sink, restarts>>
  BY AnsweredMoves DEF WayInv
<1>2. Taken' = Taken  BY <1>1 DEF Taken
<1>3. Len(entries) \in Nat /\ Len(Request) \in Nat /\ Taken \in Int
  BY RequestHolds, Counters DEF WayInv
<1>4. QED  BY <1>1, <1>2, <1>3 DEF Done

\* The next request, if there is one, is not of a negative length.
LEMMA RequestNext ==
    ASSUME WayInv'
    PROVE  Len(Request') \in Nat /\ (writer' = "idle" => Request' = <<>>)
<1>1. entries' \in Seq(Entries)  BY DEF WayInv, TypeOK
<1>2. writer' = "idle" => entries' = <<>>  BY DEF WayInv, GoroutineInv
<1>3. CASE writer' = "split"
  <2>1. Request' = <<Head(entries')>>  BY <1>3 DEF Request
  <2>2. QED  BY <1>3, <2>1
<1>4. CASE writer' # "split"
  <2>1. Request' = entries'  BY <1>4 DEF Request
  <2>2. QED  BY <1>1, <1>2, <2>1
<1>5. QED  BY <1>3, <1>4

\* A request that was not sent keeps its items together.
LEMMA FatesFollow ==
    ASSUME WayInv', Fates(put', delivered', dropped', patched'), dropped' \subseteq 1..Done',
           \A i \in DOMAIN delivered' : delivered'[i] <= Done',
           (born' + 1)..Done' \subseteq ToSet(delivered') \cup dropped' \cup queued'
    PROVE  FateInv' /\ RequestInv'
<1>1. (D!OneFate /\ OrderKept)'
    BY FatesNext DEF WayInv
<1>2. \A i \in DOMAIN delivered' : delivered'[i] <= Done' + Len(Request')
  <2>1. Len(Request') \in Nat  BY RequestNext
  <2>2. Done' \in Int
    <3>1. TypeOK'  BY DEF WayInv
    <3>2. born' \in Nat /\ id' \in Nat /\ Len(entries') \in Nat
      BY <3>1, BatchSinkAssumption DEF TypeOK
    <3>3. QED  BY <3>2 DEF Done, Taken
  <2>3. ASSUME NEW i \in DOMAIN delivered'
        PROVE  delivered'[i] \in Nat
    <3>1. delivered' \in Seq(Items)  BY DEF WayInv, TypeOK
    <3>2. delivered'[i] \in Items  BY <2>3, <3>1
    <3>3. QED  BY <3>2, BatchSinkAssumption DEF Items
  <2>4. QED  BY <2>1, <2>2, <2>3
<1>3. QED  BY <1>1, <1>2 DEF FateInv, RequestInv

\* Whatever happens to a request, no item of it meets two fates, and none is lost.
LEMMA FateStep ==
    ASSUME WayInv, WayInv', FateInv, RequestInv, [Next]_vars
    PROVE  /\ FateInv' /\ RequestInv'
           /\ D!IsPrefix(delivered, delivered') /\ dropped \subseteq dropped'
<1> DEFINE R == Len(Request)
<1>0. /\ Fates(put, delivered, dropped, patched) /\ dropped \subseteq 1..Done
      /\ \A i \in DOMAIN delivered : delivered[i] <= Done + R
      /\ (born + 1)..Done \subseteq ToSet(delivered) \cup dropped \cup queued
  BY FatesNow DEF FateInv, WayInv
<1>1. /\ R \in Nat /\ Done \in Int /\ born \in Nat /\ put \in Nat /\ born <= Done
      /\ Done + R <= put /\ ItemsOf(Request) = (Done + 1)..(Done + R)
      /\ DOMAIN Request = 1..R
  BY RequestHolds, OnItsWay, Counters DEF WayInv
<1>2. /\ delivered \in Seq(Items) /\ DOMAIN delivered = 1..Len(delivered)
      /\ \A i \in DOMAIN delivered : delivered[i] \in Nat
  <2>1. delivered \in Seq(Items)  BY DEF WayInv, TypeOK
  <2>2. \A i \in DOMAIN delivered : delivered[i] \in Items  BY <2>1
  <2>3. Items \subseteq Nat  BY BatchSinkAssumption DEF Items
  <2>4. DOMAIN delivered = 1..Len(delivered)  BY <2>1
  <2>5. \A i \in DOMAIN delivered : delivered[i] \in Nat  BY <2>2, <2>3
  <2>6. QED  BY <2>1, <2>4, <2>5
<1>3. D!IsPrefix(delivered, delivered)  BY <1>2 DEF D!IsPrefix
<1>4. writer = "idle" => R = 0  BY RequestHolds
<1> HIDE DEF R
<1> USE DEF batchVars, writeVars, serviceVars, reportVars, stopVars, processVars
<1>5. UNCHANGED <<writer, entries>> => Request' = Request /\ Len(Request') = Len(Request)
  BY DEF Request
<1>6. UNCHANGED <<entries, id, born>> => Done' = Done  BY DEF Done, Taken
<1>7. CASE Put
  <2>1. /\ UNCHANGED <<sink, delivered, dropped, queued, writer, entries, id, born, seen,
                     patched>>
        /\ put' = put + 1
    BY <1>7 DEF Put
  <2>2. Request' = Request /\ Done' = Done  BY <1>5, <1>6, <2>1
  <2>3. Fates(put', delivered', dropped', patched')
    <3>1. 1..put \subseteq 1..put'  BY <1>1, <2>1
    <3>2. QED  BY <1>0, <2>1, <3>1 DEF Fates
  <2>4. (D!OneFate /\ OrderKept)'
    BY <2>3, FatesNext DEF WayInv
  <2>5. FateInv'  BY <2>1, <2>2, <2>4 DEF FateInv
  <2>6. RequestInv'  BY <2>1, <2>2 DEF RequestInv
  <2>7. QED  BY <1>3, <2>1, <2>5, <2>6
<1>8. CASE Batch \/ StopCalled \/ StopReturns \/ Restart \/ UNCHANGED vars
  <2>1. UNCHANGED <<sink, put, delivered, dropped, queued, writer, entries, id, born,
                    seen, patched>>
    BY <1>8 DEF Batch, Receive, Tick, HandOver, StopCalled, StopReturns, Restart, vars
  <2>2. Request' = Request /\ Done' = Done  BY <1>5, <1>6, <2>1
  <2>3. (D!OneFate /\ OrderKept)'
    BY <1>0, <2>1, FatesNext DEF WayInv
  <2>4. FateInv'  BY <2>1, <2>2, <2>3 DEF FateInv
  <2>5. RequestInv'  BY <2>1, <2>2 DEF RequestInv
  <2>6. QED  BY <1>3, <2>1, <2>4, <2>5
<1>9. CASE TakeBatch
  <2>1. UNCHANGED <<put, delivered, dropped, patched, queued, born>>
        /\ writer = "idle"
    BY <1>9 DEF TakeBatch
  <2>2. Done' = Done
    <3>1. PICK n \in Nat : id' = id + n /\ Len(entries') = n /\ Done = Taken
      BY <1>9, NextBatch DEF WayInv
    <3>2. Taken' = Taken + n /\ Taken \in Int
      BY <2>1, <3>1, Counters DEF Taken, WayInv
    <3>3. QED  BY <3>1, <3>2 DEF Done
  <2>3. \A i \in DOMAIN delivered : delivered[i] <= Done
    BY <1>0, <1>1, <1>4, <2>1
  <2>4. FateInv' /\ RequestInv'  BY <1>0, <2>1, <2>2, <2>3, FatesFollow
  <2>5. QED  BY <1>3, <2>1, <2>4
<1>10. CASE SendOk
  <2>1. PICK no \in Refusals : Store(ToSet(Request) \ no)
    BY <1>10 DEF SendOk
  <2>2. /\ writer # "idle" /\ Answered(FALSE)
        /\ UNCHANGED <<dropped, patched>> /\ queued' = queued \cup ItemsOf(Request)
    BY <1>10 DEF SendOk
  <2>3. /\ D!IsPrefix(delivered, delivered')
        /\ Fates(put, delivered', dropped, patched)
        /\ \A i \in DOMAIN delivered' : delivered'[i] <= Done + R
        /\ ToSet(delivered) \subseteq ToSet(delivered')
    BY <2>1, <2>2, StoreKeepsFates DEF R
  <2>4. Done' = Done + R /\ UNCHANGED <<put, born>>
    BY <2>2, DoneMoves DEF R
  <2>5. dropped' \subseteq 1..Done'  BY <1>0, <1>1, <2>2, <2>4
  <2>6. (born' + 1)..Done' \subseteq ToSet(delivered') \cup dropped' \cup queued'
    <3>1. (born + 1)..(Done + R) = (born + 1)..Done \cup (Done + 1)..(Done + R)
      BY <1>1
    <3>2. QED  BY <1>0, <1>1, <2>2, <2>3, <2>4, <3>1
  <2>7. FateInv' /\ RequestInv'
    BY <2>2, <2>3, <2>4, <2>5, <2>6, FatesFollow
  <2>8. QED  BY <2>2, <2>3, <2>7
<1>11. CASE SendAgain
  <2>1. /\ writer # "idle" /\ "again" \in Faults
        /\ UNCHANGED <<sink, put, dropped, queued, writer, entries, id, born>>
    BY <1>11 DEF SendAgain
  <2>2. PICK no \in Refusals :
          Store(ToSet(Request) \ no) /\ patched' = (patched \/ no # {})
    BY <1>11 DEF SendAgain
  <2> DEFINE taken == ToSet(Request) \ no
  <2>3. Store(taken)  BY <2>2
  <2>4. ~patched' => taken = ToSet(Request) /\ ~patched
    BY <2>2
  <2> HIDE DEF taken
  <2>5. /\ D!IsPrefix(delivered, delivered')
        /\ Fates(put, delivered', dropped, patched)
        /\ \A i \in DOMAIN delivered' : delivered'[i] <= Done + R
        /\ ToSet(delivered') =
              ToSet(delivered) \cup {Request[i].item : i \in Stored(taken)}
    BY <2>1, <2>3, StoreKeepsFates DEF R
  <2>6. Request' = Request /\ Len(Request') = R /\ Done' = Done
    BY <1>5, <1>6, <2>1 DEF R
  <2>7. (D!OneFate /\ OrderKept)'
    <3>1. Fates(put, delivered', dropped, patched')  BY <2>4, <2>5 DEF Fates
    <3>2. QED  BY <2>1, <3>1, FatesNext DEF WayInv
  <2>8. FateInv'  BY <1>0, <2>1, <2>5, <2>6, <2>7 DEF FateInv
  <2>9. ASSUME ~patched', NEW i \in DOMAIN Request
        PROVE  \/ Request[i].item \in ToSet(delivered')
               \/ sink.ids /\ Request[i].id \in seen'
    <3>1. Request[i] \in taken  BY <2>4, <2>9 DEF ToSet
    <3>2. CASE i \in Stored(taken)
      <4>1. Request[i].item \in {Request[n].item : n \in Stored(taken)}  BY <3>2
      <4>2. QED  BY <2>5, <4>1
    <3>3. CASE i \notin Stored(taken)
      <4>1. sink.ids /\ Request[i].id \in seen  BY <2>9, <3>1, <3>3 DEF Stored
      <4>2. seen \subseteq seen'  BY <2>3 DEF Store
      <4>3. QED  BY <4>1, <4>2
    <3>4. QED  BY <3>2, <3>3
  <2>10. RequestInv'  BY <2>1, <2>6, <2>9 DEF RequestInv
  <2>11. QED  BY <2>1, <2>5, <2>8, <2>10
<1>12. CASE SendFails
  <2>1. /\ writer # "idle" /\ Answered(TRUE) /\ UNCHANGED <<delivered, patched, queued>>
        /\ dropped' = dropped \cup (ItemsOf(Request) \ ToSet(delivered))
    BY <1>12 DEF SendFails
  <2>2. Done' = Done + R /\ UNCHANGED <<put, born>>
    BY <2>1, DoneMoves DEF R
  <2>3. dropped' \subseteq 1..Done'
    <3>1. /\ (Done + 1)..(Done + R) \subseteq 1..(Done + R)
          /\ 1..Done \subseteq 1..(Done + R)
      BY <1>1
    <3>2. QED  BY <1>0, <1>1, <2>1, <2>2, <3>1
  <2>4. Fates(put', delivered', dropped', patched')
    <3>1. 1..(Done + R) \subseteq 1..put  BY <1>1
    <3>2. dropped' \subseteq 1..put  BY <2>2, <2>3, <3>1
    <3>3. QED  BY <1>0, <2>1, <2>2, <3>2 DEF Fates
  <2>5. (born' + 1)..Done' \subseteq ToSet(delivered') \cup dropped' \cup queued'
    <3>1. (born + 1)..(Done + R) = (born + 1)..Done \cup (Done + 1)..(Done + R)
      BY <1>1
    <3>2. QED  BY <1>0, <1>1, <2>1, <2>2, <3>1
  <2>6. FateInv' /\ RequestInv'
    BY <1>0, <2>1, <2>2, <2>3, <2>4, <2>5, FatesFollow
  <2>7. QED  BY <1>3, <2>1, <2>6
<1>13. CASE SendTooLong
  <2>1. /\ writer = "batch" /\ ItemsOf(entries) \cap ToSet(delivered) = {}
        /\ UNCHANGED <<put, delivered, dropped, patched, queued, entries, id, born>>
    BY <1>13 DEF SendTooLong
  <2>2. Request = entries  BY <2>1 DEF Request
  <2>3. Done' = Done  BY <1>6, <2>1
  <2>4. \A i \in DOMAIN delivered : delivered[i] <= Done
    <3>1. ASSUME NEW i \in DOMAIN delivered, ~(delivered[i] <= Done)  PROVE FALSE
      <4>1. delivered[i] \in (Done + 1)..(Done + R)  BY <1>0, <1>1, <1>2, <3>1
      <4>2. delivered[i] \in ToSet(delivered)  BY <3>1 DEF ToSet
      <4>3. QED  BY <1>1, <2>1, <2>2, <4>1, <4>2
    <3>2. QED  BY <3>1
  <2>5. FateInv' /\ RequestInv'  BY <1>0, <2>1, <2>3, <2>4, FatesFollow
  <2>6. QED  BY <1>3, <2>1, <2>5
<1>14. CASE ProcessEnds
  <2>1. /\ UNCHANGED <<put, delivered, dropped, patched>> /\ entries' = <<>> /\ id' = 0
        /\ born' = put
    BY <1>14 DEF ProcessEnds
  <2>2. Done' = put  BY <2>1, <1>1 DEF Done, Taken
  <2>3. \A i \in DOMAIN delivered : delivered[i] <= put
    <3>1. \A i \in DOMAIN delivered : delivered[i] \in ToSet(delivered)  BY DEF ToSet
    <3>2. QED  BY <1>0, <1>1, <3>1 DEF Fates
  <2>4. dropped' \subseteq 1..Done'  BY <1>0, <2>1, <2>2 DEF Fates
  <2>5. (born' + 1)..Done' = {}  BY <1>1, <2>1, <2>2
  <2>6. FateInv' /\ RequestInv'
    BY <1>0, <2>1, <2>2, <2>3, <2>4, <2>5, FatesFollow
  <2>7. QED  BY <1>3, <2>1, <2>6
<1>15. CASE Forget
  <2>1. /\ writer = "idle"
        /\ UNCHANGED <<put, delivered, dropped, patched, queued, entries, id, born>>
    BY <1>15 DEF Forget
  <2>2. Done' = Done  BY <1>6, <2>1
  <2>3. \A i \in DOMAIN delivered : delivered[i] <= Done
    BY <1>0, <1>1, <1>4, <2>1
  <2>4. FateInv' /\ RequestInv'  BY <1>0, <2>1, <2>2, <2>3, FatesFollow
  <2>5. QED  BY <1>3, <2>1, <2>4
<1>16. QED
  BY <1>7, <1>8, <1>9, <1>10, <1>11, <1>12, <1>13, <1>14, <1>15 DEF Next, Write

\* What every item met.
FateHoldsInv == WayInv /\ FateInv /\ RequestInv

\* It holds in every state.
LEMMA FateHolds == Spec => []FateHoldsInv
<1>1. Init => FateHoldsInv
  <2> SUFFICES ASSUME Init  PROVE FateInv /\ RequestInv
    BY WayInit DEF FateHoldsInv
  <2>1. /\ delivered = <<>> /\ dropped = {} /\ put = 0 /\ id = 0 /\ born = 0
        /\ entries = <<>> /\ writer = "idle" /\ ~patched
    BY DEF Init
  <2>2. ToSet(delivered) = {} /\ Len(delivered) = 0 /\ DOMAIN delivered = {}
    BY <2>1 DEF ToSet
  <2>3. Fates(put, delivered, dropped, patched)  BY <2>1, <2>2 DEF Fates
  <2>4. TypeOK  BY WayInit DEF WayInv
  <2>5. D!OneFate /\ OrderKept
    BY <2>3, <2>4, FatesNow
  <2>6. Done = 0
    <3>1. Len(entries) = 0  BY <2>1
    <3>2. Taken = 0  BY <2>1 DEF Taken
    <3>3. QED  BY ONLY <3>1, <3>2 DEF Done
  <2>7. (born + 1)..Done = {}  BY <2>1, <2>6
  <2>8. QED  BY <2>1, <2>2, <2>5, <2>7 DEF FateInv, RequestInv
<1>2. FateHoldsInv /\ WayInv' /\ [Next]_vars => FateHoldsInv'
  BY FateStep DEF FateHoldsInv
<1>3. QED  BY <1>1, <1>2, WayHolds, PTL DEF Spec

\* Every item a running process accepted is on its way, or reported as sent or as
\* failed, or at its destination.
THEOREM AllAccounted == Spec => []Accounted
<1>1. FateHoldsInv => Accounted
  <2> SUFFICES ASSUME FateHoldsInv
               PROVE  (born + 1)..put \subseteq
                        InFlight \cup ToSet(delivered) \cup dropped \cup queued
    BY DEF Accounted
  <2>1. /\ Batched = (Done + 1)..Received /\ ToSet(putCh) = (Received + 1)..put
        /\ born <= Done
    BY OnItsWay DEF FateHoldsInv
  <2>2. put \in Nat /\ born \in Nat /\ Done \in Int /\ Received \in Int
    BY Counters DEF FateHoldsInv, WayInv
  <2>3. (Done + 1)..put \subseteq (Done + 1)..Received \cup (Received + 1)..put
    BY <2>2
  <2>4. (born + 1)..put \subseteq (born + 1)..Done \cup (Done + 1)..put
    BY <2>2
  <2>5. (born + 1)..Done \subseteq ToSet(delivered) \cup dropped \cup queued
    BY DEF FateHoldsInv, FateInv
  <2>6. QED  BY <2>1, <2>3, <2>4, <2>5 DEF InFlight
<1>2. QED  BY <1>1, FateHolds, PTL

\* The sink implements Delivery: Put accepts an item, and every other step settles
\* items, or none.
THEOREM Implements == Spec => ImplementsDelivery
<1>1. Init => D!Init  BY DEF Init, D!Init
<1>2. FateHoldsInv /\ FateHoldsInv' /\ [Next]_vars => [D!Next]_(D!vars)
  <2> SUFFICES ASSUME FateHoldsInv, FateHoldsInv', [Next]_vars
               PROVE  D!Next \/ UNCHANGED D!vars
    OBVIOUS
  <2>1. CASE Put
    BY <2>1 DEF Put, serviceVars, reportVars, D!Next, D!Accept
  <2>2. CASE ~Put
    <3>1. put' = put
      BY <2>2 DEF Next, Batch, Write, Receive, Tick, HandOver, TakeBatch, SendOk,
         SendAgain, SendFails, SendTooLong, Answered, StopCalled, StopReturns,
         ProcessEnds, Restart, Forget, vars
    <3>2. D!IsPrefix(delivered, delivered') /\ dropped \subseteq dropped'
      BY FateStep DEF FateHoldsInv
    <3>3. D!OneFate'
      BY DEF FateHoldsInv, FateInv
    <3>4. QED  BY <3>1, <3>2, <3>3 DEF D!Next, D!Settle
  <2>3. QED  BY <2>1, <2>2
<1>3. QED  BY <1>1, <1>2, FateHolds, PTL DEF Spec, ImplementsDelivery, D!Spec

\* Items are delivered in order until a request that was stored in part is sent again,
\* and are only overtaken by those of their batch after: a request holds the items
\* next to those write is done with, no more than a batch.
THEOREM KeepsOrder == Spec => []OrderKept
<1>1. FateHoldsInv => OrderKept  BY DEF FateHoldsInv, FateInv
<1>2. QED  BY <1>1, FateHolds, PTL

-----------------------------------------------------------------------------
(* The ids.                                                                *)

\* The entries carry consecutive items and their ids; the request's are among them.
LEMMA EntriesAre ==
    ASSUME WayInv
    PROVE  /\ \A e \in ToSet(entries) : \E k \in 1..Len(entries) :
                 /\ e = entries[k] /\ e.item = Done + k /\ e.id = Done + k - born - 1
           /\ \A e \in ToSet(Request) : \E i \in DOMAIN Request :
                 /\ e = Request[i] /\ e \in ToSet(entries)
                 /\ e.item = Done + i /\ e.id + 1 = e.item - born
<1>1. DOMAIN entries = 1..Len(entries) /\ Len(entries) \in Nat
      /\ Done \in Int /\ born \in Nat
  BY Counters DEF WayInv, TypeOK
<1>2. \A k \in 1..Len(entries) :
         entries[k].item = Done + k /\ entries[k].id = Done + k - born - 1
  BY <1>1 DEF WayInv, FlowInv
<1>3. \A e \in ToSet(entries) : \E k \in 1..Len(entries) :
         e = entries[k] /\ e.item = Done + k /\ e.id = Done + k - born - 1
  BY <1>1, <1>2 DEF ToSet
<1>4. ASSUME NEW e \in ToSet(Request)
      PROVE  \E i \in DOMAIN Request :
                /\ e = Request[i] /\ e \in ToSet(entries)
                /\ e.item = Done + i /\ e.id + 1 = e.item - born
  <2>1. /\ Len(Request) \in Nat /\ Len(Request) <= Len(entries)
        /\ DOMAIN Request = 1..Len(Request)
        /\ \A i \in 1..Len(Request) :
              /\ Request[i].item = Done + i /\ Request[i].id = Done + i - born - 1
              /\ Request[i] = entries[i]
    BY RequestHolds
  <2>2. PICK i \in DOMAIN Request : e = Request[i]  BY DEF ToSet
  <2>3. i \in 1..Len(Request) /\ i \in 1..Len(entries)  BY <1>1, <2>1, <2>2
  <2>4. e.item = Done + i /\ e.id = Done + i - born - 1 /\ e = entries[i]
    BY <2>1, <2>2, <2>3
  <2>5. e \in ToSet(entries)  BY <1>1, <2>3, <2>4 DEF ToSet
  <2>6. e.id + 1 = e.item - born  BY <1>1, <2>3, <2>4
  <2>7. QED  BY <2>2, <2>4, <2>5, <2>6
<1>5. QED  BY <1>3, <1>4

\* With ids, the service stores nothing twice; the ids of the first process are those
\* of the items it has.
LEMMA StoreKeepsIds ==
    ASSUME WayInv, FateInv, RequestInv, IdInv, writer # "idle", up,
           NEW taken, taken \subseteq ToSet(Request), Store(taken)
    PROVE  /\ sink.ids =>
                 /\ repeated' = {}
                 /\ \A e \in ToSet(entries) :
                       e.item \in ToSet(delivered') => e.id \in seen'
           /\ restarts = 0 =>
                 /\ \A n \in seen' : n + 1 \in ToSet(delivered')
                 /\ \A e \in taken : e.item \in ToSet(delivered')
<1>1. ToSet(delivered') = ToSet(delivered) \cup {Request[i].item : i \in Stored(taken)}
  BY StoreKeepsFates
<1>2. /\ repeated' = repeated \cup
            ({Request[i].item : i \in Stored(taken)} \cap ToSet(delivered))
      /\ seen' = IF sink.ids THEN seen \cup {e.id : e \in taken} ELSE seen
  BY DEF Store
<1>3. Stored(taken) =
        {i \in DOMAIN Request :
            Request[i] \in taken /\ ~(sink.ids /\ Request[i].id \in seen)}
  BY DEF Stored
<1>4. \A i \in DOMAIN Request : Request[i] \in ToSet(Request)  BY DEF ToSet
<1>5. \A e \in ToSet(Request) : e \in ToSet(entries)  BY EntriesAre
<1>6. ASSUME sink.ids
      PROVE  /\ repeated' = {}
             /\ \A e \in ToSet(entries) : e.item \in ToSet(delivered') => e.id \in seen'
  <2>1. \A e \in ToSet(entries) : e.item \in ToSet(delivered) => e.id \in seen
    BY <1>6 DEF IdInv
  <2>2. repeated = {}  BY <1>6 DEF IdInv
  <2>3. ASSUME NEW i \in Stored(taken)  PROVE Request[i].item \notin ToSet(delivered)
    <3>1. Request[i] \in ToSet(entries) /\ Request[i].id \notin seen
      BY <1>3, <1>4, <1>5, <1>6, <2>3
    <3>2. QED  BY <2>1, <3>1
  <2>4. repeated' = {}  BY <1>2, <2>2, <2>3
  <2>5. ASSUME NEW e \in ToSet(entries), e.item \in ToSet(delivered')
        PROVE  e.id \in seen'
    <3>1. seen' = seen \cup {x.id : x \in taken}  BY <1>2, <1>6
    <3>2. CASE e.item \in ToSet(delivered)  BY <2>1, <2>5, <3>1, <3>2
    <3>3. CASE e.item \notin ToSet(delivered)
      <4>1. PICK i \in Stored(taken) : e.item = Request[i].item
        BY <1>1, <2>5, <3>3
      <4>2. i \in DOMAIN Request /\ Request[i] \in taken  BY <1>3, <4>1
      <4>3. PICK k \in 1..Len(entries) :
              e = entries[k] /\ e.item = Done + k /\ e.id = Done + k - born - 1
        BY <2>5, EntriesAre
      <4>4. DOMAIN Request = 1..Len(Request)
            /\ Request[i].item = Done + i /\ Request[i] = entries[i]
        BY <4>2, RequestHolds
      <4>5. i = k
        <5>1. Done \in Int  BY Counters DEF WayInv
        <5>2. i \in Int /\ k \in Int  BY <4>2, <4>3, <4>4
        <5>3. Done + k = Done + i  BY <4>1, <4>3, <4>4
        <5>4. QED  BY ONLY <5>1, <5>2, <5>3
      <4>6. e \in taken  BY <4>2, <4>3, <4>4, <4>5
      <4>7. QED  BY <3>1, <4>6
    <3>4. QED  BY <3>2, <3>3
  <2>6. QED  BY <2>4, <2>5
<1>7. ASSUME restarts = 0
      PROVE  /\ \A n \in seen' : n + 1 \in ToSet(delivered')
             /\ \A e \in taken : e.item \in ToSet(delivered')
  <2>1. \A n \in seen : n + 1 \in ToSet(delivered)  BY <1>7 DEF IdInv
  <2>2. born = 0  BY <1>7 DEF WayInv, GoroutineInv
  <2>3. ASSUME NEW e \in taken
        PROVE  e.item \in ToSet(delivered') /\ e.id + 1 = e.item
    <3>1. PICK i \in DOMAIN Request :
            e = Request[i] /\ e.item = Done + i /\ e.id + 1 = e.item - born
      BY <2>3, EntriesAre
    <3>2. e.id + 1 = e.item
      <4>1. DOMAIN Request = 1..Len(Request) /\ Done \in Int
        BY RequestHolds, Counters DEF WayInv
      <4>2. e.item \in Int  BY <3>1, <4>1
      <4>3. QED  BY ONLY <2>2, <3>1, <4>2
    <3>3. CASE i \in Stored(taken)
      <4>1. e.item \in {Request[n].item : n \in Stored(taken)}  BY <3>1, <3>3
      <4>2. QED  BY <1>1, <3>2, <4>1
    <3>4. CASE i \notin Stored(taken)
      <4>1. e.id \in seen  BY <1>3, <2>3, <3>1, <3>4
      <4>2. QED  BY <1>1, <2>1, <3>2, <4>1
    <3>5. QED  BY <3>3, <3>4
  <2>4. ASSUME NEW n \in seen'  PROVE n + 1 \in ToSet(delivered')
    <3>1. CASE n \in seen  BY <1>1, <2>1, <3>1
    <3>2. CASE n \notin seen
      <4>1. PICK e \in taken : n = e.id  BY <1>2, <2>4, <3>2
      <4>2. QED  BY <2>3, <4>1
    <3>3. QED  BY <3>1, <3>2
  <2>5. QED  BY <2>3, <2>4
<1>8. QED  BY <1>6, <1>7

\* The ids keep what they tell.
LEMMA IdStep ==
    ASSUME WayInv, WayInv', FateInv, RequestInv, IdInv, [Next]_vars
    PROVE  IdInv'
<1> USE DEF batchVars, writeVars, serviceVars, reportVars, stopVars, processVars
<1>a. ASSUME writer # "idle", NEW failed, Answered(failed)
      PROVE  ToSet(entries') \subseteq ToSet(entries) /\ UNCHANGED <<sink, restarts>>
  <2>1. /\ entries' \in Seq(Entries) /\ Len(entries') = Len(entries) - Len(Request)
        /\ \A i \in 1..Len(entries') : entries'[i] = entries[i + Len(Request)]
        /\ UNCHANGED <<sink, restarts>>
    BY <1>a, AnsweredMoves DEF WayInv
  <2>2. Len(Request) \in Nat /\ Len(entries) \in Nat /\ DOMAIN entries = 1..Len(entries)
        /\ DOMAIN entries' = 1..Len(entries')
    <3>1. entries \in Seq(Entries)  BY DEF WayInv, TypeOK
    <3>2. Len(Request) \in Nat  BY RequestHolds
    <3>3. DOMAIN entries = 1..Len(entries) /\ Len(entries) \in Nat  BY <3>1
    <3>4. DOMAIN entries' = 1..Len(entries')  BY <2>1
    <3>5. QED  BY <3>2, <3>3, <3>4
  <2>3. \A i \in 1..Len(entries') : i + Len(Request) \in 1..Len(entries)
    BY <2>1, <2>2
  <2>4. QED  BY <2>1, <2>2, <2>3 DEF ToSet
<1>1. CASE \/ Put \/ Receive \/ Tick \/ HandOver \/ SendTooLong
           \/ StopCalled \/ StopReturns \/ UNCHANGED vars
  <2>1. UNCHANGED <<sink, entries, delivered, seen, repeated, restarts, queued, refused>>
    BY <1>1 DEF Put, Receive, Tick, HandOver, SendTooLong, StopCalled, StopReturns, vars
  <2>2. QED  BY <2>1 DEF IdInv
<1>2. CASE Restart
  <2>1. restarts' # 0 /\ UNCHANGED <<sink, entries, delivered, seen, repeated>>
    BY <1>2 DEF Restart, WayInv, TypeOK
  <2>2. QED  BY <2>1 DEF IdInv
<1>3. CASE TakeBatch
  <2>1. UNCHANGED <<sink, delivered, seen, repeated, restarts, queued, refused>>
        /\ writer = "idle"
    BY <1>3 DEF TakeBatch
  <2>2. /\ entries' \in Seq(Entries) /\ Done = Taken /\ Done \in Int
        /\ \A j \in 1..Len(entries') : entries'[j].item = Taken + j
    BY <1>3, NextBatch, Counters DEF WayInv
  <2>3. ASSUME NEW e \in ToSet(entries')  PROVE e.item \notin ToSet(delivered)
    <3>1. PICK j \in 1..Len(entries') : e.item = Done + j
      BY <2>2, <2>3 DEF ToSet
    <3>2. ASSUME e.item \in ToSet(delivered)  PROVE FALSE
      <4>1. PICK i \in DOMAIN delivered : e.item = delivered[i]  BY <3>2 DEF ToSet
      <4>2. Len(Request) = 0  BY <2>1, RequestHolds
      <4>3. delivered[i] <= Done + Len(Request)  BY DEF FateInv
      <4>4. QED  BY <2>2, <3>1, <4>1, <4>2, <4>3
    <3>3. QED  BY <3>2
  <2>4. QED  BY <2>1, <2>3 DEF IdInv
<1>4. CASE SendOk
  <2>1. PICK no \in SUBSET ToSet(Request) :
          /\ Store(ToSet(Request) \ no) /\ refused' = refused \cup {e.item : e \in no}
    BY <1>4, RefusalsAre DEF SendOk
  <2>2. /\ writer # "idle" /\ up /\ Answered(FALSE)
        /\ queued' = queued \cup ItemsOf(Request)
    BY <1>4 DEF SendOk
  <2> DEFINE taken == ToSet(Request) \ no
  <2>3. Store(taken) /\ taken \subseteq ToSet(Request)  BY <2>1
  <2> HIDE DEF taken
  <2>4. /\ sink.ids =>
              /\ repeated' = {}
              /\ \A e \in ToSet(entries) : e.item \in ToSet(delivered') => e.id \in seen'
        /\ restarts = 0 =>
              /\ \A n \in seen' : n + 1 \in ToSet(delivered')
              /\ \A e \in taken : e.item \in ToSet(delivered')
    BY <2>2, <2>3, StoreKeepsIds
  <2>5. ToSet(entries') \subseteq ToSet(entries) /\ UNCHANGED <<sink, restarts>>
    BY <1>a, <2>2
  <2>6. ASSUME restarts = 0  PROVE queued' \subseteq ToSet(delivered') \cup refused'
    <3>1. ToSet(delivered) \subseteq ToSet(delivered')
      BY <2>2, <2>3, StoreKeepsFates
    <3>2. queued \subseteq ToSet(delivered) \cup refused  BY <2>6 DEF IdInv
    <3>3. ASSUME NEW x \in ItemsOf(Request)
          PROVE  x \in ToSet(delivered') \cup refused'
      <4>1. PICK e \in ToSet(Request) : x = e.item  BY <3>3 DEF ItemsOf, ToSet
      <4>2. CASE e \in no  BY <2>1, <4>1, <4>2
      <4>3. CASE e \notin no  BY <2>4, <2>6, <4>1, <4>3 DEF taken
      <4>4. QED  BY <4>2, <4>3
    <3>4. QED  BY <2>1, <2>2, <3>1, <3>2, <3>3
  <2>7. QED  BY <2>4, <2>5, <2>6 DEF IdInv
<1>5. CASE SendAgain
  <2>1. /\ writer # "idle" /\ up
        /\ UNCHANGED <<sink, entries, restarts, queued, refused>>
    BY <1>5 DEF SendAgain
  <2>2. PICK taken \in SUBSET ToSet(Request) : Store(taken)
    BY <1>5 DEF SendAgain
  <2>3. /\ sink.ids =>
              /\ repeated' = {}
              /\ \A e \in ToSet(entries) : e.item \in ToSet(delivered') => e.id \in seen'
        /\ restarts = 0 => \A n \in seen' : n + 1 \in ToSet(delivered')
        /\ ToSet(delivered) \subseteq ToSet(delivered')
    BY <2>1, <2>2, StoreKeepsIds, StoreKeepsFates
  <2>4. QED  BY <2>1, <2>3 DEF IdInv
<1>6. CASE SendFails
  <2>1. UNCHANGED <<delivered, seen, repeated, queued, refused>>
    BY <1>6 DEF SendFails
  <2>2. ToSet(entries') \subseteq ToSet(entries) /\ UNCHANGED <<sink, restarts>>
    BY <1>6, <1>a DEF SendFails
  <2>3. QED  BY <2>1, <2>2 DEF IdInv
<1>7. CASE ProcessEnds
  <2>1. /\ UNCHANGED <<sink, delivered, seen, repeated, restarts>>
        /\ entries' = <<>> /\ queued' = {}
    BY <1>7 DEF ProcessEnds
  <2>2. ToSet(entries') = {}  BY <2>1 DEF ToSet
  <2>3. QED  BY <2>1, <2>2 DEF IdInv
<1>8. CASE Forget
  <2>1. /\ UNCHANGED <<sink, delivered, repeated, restarts, queued, refused, entries>>
        /\ seen' = {} /\ entries = <<>>
    BY <1>8 DEF Forget, WayInv, GoroutineInv
  <2>2. ToSet(entries) = {}  BY <2>1 DEF ToSet
  <2>3. QED  BY <2>1, <2>2 DEF IdInv
<1>9. QED
  BY <1>1, <1>2, <1>3, <1>4, <1>5, <1>6, <1>7, <1>8 DEF Next, Batch, Write

\* And what the ids tell.
IdHoldsInv == FateHoldsInv /\ IdInv

\* It holds in every state.
LEMMA IdHolds == Spec => []IdHoldsInv
<1>1. Init => IdInv
  <2> SUFFICES ASSUME Init  PROVE IdInv
    OBVIOUS
  <2>1. entries = <<>> /\ repeated = {} /\ seen = {} /\ queued = {}  BY DEF Init
  <2>2. ToSet(entries) = {}  BY <2>1 DEF ToSet
  <2>3. QED  BY <2>1, <2>2 DEF IdInv
<1>2. IdInv /\ FateHoldsInv /\ FateHoldsInv' /\ [Next]_vars => IdInv'
  BY IdStep DEF FateHoldsInv
<1>3. QED  BY <1>1, <1>2, FateHolds, PTL DEF Spec, IdHoldsInv

\* Where items carry ids, one whose request was sent twice is stored once.
THEOREM StoredOnce == Spec => []AtMostOnce
<1>1. IdHoldsInv => AtMostOnce  BY DEF IdHoldsInv, IdInv, AtMostOnce
<1>2. QED  BY <1>1, IdHolds, PTL

\* In the first process an item that is reported as sent was stored, unless the
\* service refused that entry.
THEOREM FirstProcessStores == Spec => []StoredInFirstProcess
<1>1. IdHoldsInv => StoredInFirstProcess
  BY DEF IdHoldsInv, IdInv, StoredInFirstProcess
<1>2. QED  BY <1>1, IdHolds, PTL
=============================================================================
