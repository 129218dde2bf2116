-------------------------- MODULE QueueSinkProofs --------------------------
(***************************************************************************)
(* Theorems about QueueSink, for every sink with a queue, any number of    *)
(* writers, any capacity and every fault.                                  *)
(***************************************************************************)
EXTENDS QueueSink, FiniteSetTheorems, TLAPS

-----------------------------------------------------------------------------
(* Sequences.                                                              *)

\* Append adds one element at the end, and is seen in the set of elements.
LEMMA AppendElements ==
    ASSUME NEW s \in Seq(Items), NEW e \in Items
    PROVE  /\ Append(s, e) \in Seq(Items)
           /\ Len(Append(s, e)) = Len(s) + 1
           /\ \A i \in 1..Len(s) : Append(s, e)[i] = s[i]
           /\ Append(s, e)[Len(s) + 1] = e
           /\ D!ToSet(Append(s, e)) = D!ToSet(s) \cup {e}
<1>1. /\ Append(s, e) \in Seq(Items)
      /\ Len(Append(s, e)) = Len(s) + 1
      /\ \A i \in 1..Len(s) : Append(s, e)[i] = s[i]
      /\ Append(s, e)[Len(s) + 1] = e
  OBVIOUS
<1>2. DOMAIN Append(s, e) = DOMAIN s \cup {Len(s) + 1} /\ DOMAIN s = 1..Len(s)
  OBVIOUS
<1>3. D!ToSet(Append(s, e)) = D!ToSet(s) \cup {e}
  BY <1>1, <1>2, Zenon DEF D!ToSet
<1>4. QED  BY <1>1, <1>3

\* A sequence is a prefix of what Append makes of it, and of itself.
LEMMA AppendPrefix ==
    ASSUME NEW s \in Seq(Items), NEW e \in Items
    PROVE  D!IsPrefix(s, s) /\ D!IsPrefix(s, Append(s, e))
BY DEF D!IsPrefix

-----------------------------------------------------------------------------
(* Type correctness.                                                       *)

\* A step keeps every variable's type, and an item in the hand of the writers that
\* send.
LEMMA TypeStep ==
    ASSUME TypeOK, HandInv, [Next]_vars
    PROVE  TypeOK' /\ HandInv'
<1> USE QueueSinkAssumption DEF Items
<1> USE DEF TypeOK, HandInv, workVars, fateVars, stopVars
<1>1. CASE Put  BY <1>1 DEF Put
<1>2. ASSUME NEW w \in Writers, WriterStart(w) \/ OpenFails(w)
      PROVE  TypeOK' /\ HandInv'
  BY <1>2 DEF WriterStart, OpenFails
<1>3. ASSUME NEW w \in Writers, Take(w)
      PROVE  TypeOK' /\ HandInv'
  <2>1. Head(queue) \in Items /\ Tail(queue) \in Seq(Items)
        /\ Len(Tail(queue)) <= Capacity
    BY <1>3 DEF Take
  <2>2. QED  BY <1>3, <2>1 DEF Take
<1>4. ASSUME NEW w \in Writers, TakeClosed(w)
      PROVE  TypeOK' /\ HandInv'
  <2>1. Head(queue) \in Items /\ Tail(queue) \in Seq(Items)
        /\ Len(Tail(queue)) <= Capacity
    BY <1>4 DEF TakeClosed
  <2>2. QED  BY <1>4, <2>1 DEF TakeClosed
<1>5. ASSUME NEW w \in Writers, Send(w)
      PROVE  TypeOK' /\ HandInv'
  BY <1>5, AppendElements DEF Send, Release
<1>6. ASSUME NEW w \in Writers, SendRefused(w)
      PROVE  TypeOK' /\ HandInv'
  <2>1. hand[w] \in Items  BY <1>6 DEF SendRefused
  <2>2. refused' \subseteq Items  BY <1>6, <2>1 DEF SendRefused
  <2>3. QED  BY <1>6, <2>2 DEF SendRefused, Release
<1>7. ASSUME NEW w \in Writers, SendFails(w)
      PROVE  TypeOK' /\ HandInv'
  <2>1. hand[w] \in Items  BY <1>7 DEF SendFails
  <2>2. dropped' \subseteq Items  BY <1>7, <2>1 DEF SendFails
  <2>3. QED  BY <1>7, <2>2 DEF SendFails, Release
<1>8. CASE StopCalled  BY <1>8 DEF StopCalled
<1>9. CASE StopReturns  BY <1>9 DEF StopReturns
<1>10. CASE ProcessEnds  BY <1>10 DEF ProcessEnds
<1>11. CASE UNCHANGED vars  BY <1>11 DEF vars
<1>12. QED
  BY <1>1, <1>2, <1>3, <1>4, <1>5, <1>6, <1>7, <1>8, <1>9, <1>10, <1>11
     DEF Next, WriterStep

\* Every variable of QueueSink keeps its type, and a writer that sends has an item
\* in hand: the queue never holds more than Capacity (Put blocks).
THEOREM TypeCorrect == Spec => [](TypeOK /\ HandInv)
<1>1. Init => TypeOK /\ HandInv
  BY QueueSinkAssumption DEF Init, TypeOK, HandInv, Items
<1>2. TypeOK /\ HandInv /\ [Next]_vars => TypeOK' /\ HandInv'
  BY TypeStep
<1>3. QED  BY <1>1, <1>2, PTL DEF Spec

-----------------------------------------------------------------------------
(* Every item has one fate.                                                *)

\* The writers take the items in the order in which they were put.
LEMMA QueueStep ==
    ASSUME TypeOK, QueueInv, DrainInv, [Next]_vars
    PROVE  QueueInv' /\ DrainInv'
<1> USE QueueSinkAssumption
    DEF TypeOK, Items, QueueInv, DrainInv, Taken, workVars, fateVars, stopVars
<1>1. CASE Put
  <2>1. /\ Len(queue') = Len(queue) + 1
        /\ \A i \in 1..Len(queue) : queue'[i] = queue[i]
        /\ queue'[Len(queue) + 1] = put + 1
    BY <1>1 DEF Put
  <2>2. put' = put + 1 /\ UNCHANGED <<stop, waitedFor>>
    BY <1>1 DEF Put
  <2>3. Taken' = Taken /\ put + 1 = Taken + Len(queue) + 1
    BY <2>1, <2>2
  <2>4. \A i \in 1..Len(queue') : queue'[i] = Taken' + i
    <3> SUFFICES ASSUME NEW i \in 1..(Len(queue) + 1)
                 PROVE  queue'[i] = Taken + i
      BY <2>1, <2>3
    <3>1. CASE i \in 1..Len(queue)  BY <2>1, <3>1
    <3>2. CASE i = Len(queue) + 1  BY <2>1, <2>3, <3>2
    <3>3. QED  BY <3>1, <3>2
  <2>5. QED  BY <2>2, <2>3, <2>4
<1>2. ASSUME NEW w \in Writers, Take(w) \/ TakeClosed(w)
      PROVE  QueueInv' /\ DrainInv'
  <2>1. /\ Len(queue') = Len(queue) - 1
        /\ \A i \in 1..Len(queue') : queue'[i] = queue[i + 1]
    <3>1. queue' = Tail(queue) /\ queue # <<>>  BY <1>2 DEF Take, TakeClosed
    <3>2. queue \in Seq(1..MaxItems)  OBVIOUS
    <3>3. QED  BY ONLY <3>1, <3>2
  <2>2. UNCHANGED <<put, stop, waitedFor>>
    BY <1>2 DEF Take, TakeClosed
  <2>3. QED  BY <2>1, <2>2
<1>3. CASE StopCalled  BY <1>3 DEF StopCalled
<1>4. CASE StopReturns  BY <1>4 DEF StopReturns
<1>5. ASSUME UNCHANGED <<put, queue, stop, waitedFor>>
      PROVE  QueueInv' /\ DrainInv'
  BY <1>5
<1>6. QED
  BY <1>1, <1>2, <1>3, <1>4, <1>5
     DEF Next, WriterStep, WriterStart, OpenFails, Send, SendRefused, SendFails,
         Release, ProcessEnds, vars

\* With a send the item in the writer's hand is over.
Sends(w) == Send(w) \/ SendRefused(w) \/ SendFails(w)

LEMMA SendSettles ==
    ASSUME TypeOK, HandInv, NEW w \in Writers, Sends(w)
    PROVE  /\ hand' = [hand EXCEPT ![w] = 0]
           /\ hand[w] \in Items
           /\ UNCHANGED <<put, queue>>
           /\ Over' = Over \cup {hand[w]}
<1> USE QueueSinkAssumption DEF TypeOK, Items
<1>1. /\ hand' = [hand EXCEPT ![w] = 0]
      /\ hand[w] \in Items
      /\ UNCHANGED <<put, queue>>
  BY DEF Sends, Send, SendRefused, SendFails, Release, HandInv
<1>2. CASE Send(w)
  <2>1. /\ delivered' = Append(delivered, hand[w])
        /\ dropped' = dropped /\ refused' = refused
    BY <1>2 DEF Send
  <2>2. D!ToSet(Append(delivered, hand[w])) = D!ToSet(delivered) \cup {hand[w]}
    <3>1. delivered \in Seq(Items)  OBVIOUS
    <3>2. QED  BY ONLY <1>1, <3>1, AppendElements
  <2>3. QED  BY <1>1, <2>1, <2>2 DEF D!Settled, Over
<1>3. CASE SendRefused(w)  BY <1>1, <1>3 DEF SendRefused, D!Settled, Over
<1>4. CASE SendFails(w)  BY <1>1, <1>4 DEF SendFails, D!Settled, Over
<1>5. QED  BY <1>2, <1>3, <1>4 DEF Sends

\* After Stop closed the connection, a writer that takes an item is over with it.
LEMMA CloseSettles ==
    ASSUME TypeOK, QueueInv, NEW w \in Writers, TakeClosed(w)
    PROVE  /\ Taken \in Nat /\ Taken < put /\ Taken' = Taken + 1
           /\ UNCHANGED <<put, hand, delivered>>
           /\ dropped' = dropped \cup {Taken + 1}
           /\ D!Settled' = D!Settled \cup {Taken + 1}
           /\ Over' = Over \cup {Taken + 1}
<1> USE QueueSinkAssumption DEF TypeOK, Items
<1>1. /\ Head(queue) = Taken + 1 /\ Taken' = Taken + 1 /\ Taken \in Nat
      /\ Taken < put
  BY DEF TakeClosed, Taken, QueueInv
<1>2. /\ UNCHANGED <<put, hand, delivered, refused>>
      /\ dropped' = dropped \cup {Taken + 1}
  BY <1>1 DEF TakeClosed, workVars
<1>3. QED  BY <1>1, <1>2 DEF Over, D!Settled

\* An item that was taken stays in its writer's hand until it meets its fate.
LEMMA HeldStep ==
    ASSUME TypeOK, HandInv, QueueInv, HeldInv, [Next]_vars
    PROVE  HeldInv'
<1> USE QueueSinkAssumption DEF TypeOK, Items, workVars, fateVars, stopVars
<1>1. CASE Put
  <2>1. /\ Len(queue') = Len(queue) + 1
        /\ put' = put + 1
        /\ UNCHANGED <<hand, delivered, dropped, refused>>
    BY <1>1 DEF Put
  <2>2. Taken' = Taken  BY <2>1 DEF Taken
  <2>3. Over' = Over  BY <2>1 DEF Over, D!Settled
  <2>4. QED  BY <2>1, <2>2, <2>3 DEF HeldInv
<1>2. ASSUME NEW w \in Writers, Take(w)
      PROVE  HeldInv'
  <2>1. /\ Head(queue) = Taken + 1
        /\ Taken' = Taken + 1
        /\ Taken \in Nat
    BY <1>2 DEF Take, Taken, QueueInv
  <2>2. /\ hand' = [hand EXCEPT ![w] = Taken + 1]
        /\ hand[w] = 0
        /\ UNCHANGED <<delivered, dropped, refused>>
    BY <1>2, <2>1 DEF Take, HandInv
  <2>3. Over' = Over  BY <2>2 DEF Over, D!Settled
  <2>4. QED  BY <2>1, <2>2, <2>3 DEF HeldInv
<1>3. ASSUME NEW w \in Writers, TakeClosed(w)
      PROVE  HeldInv'
  <2>1. /\ Taken \in Nat /\ Taken' = Taken + 1 /\ hand' = hand
        /\ Over' = Over \cup {Taken + 1}
    BY <1>3, CloseSettles
  <2>2. QED  BY <2>1 DEF HeldInv
<1>4. ASSUME NEW w \in Writers, Sends(w)
      PROVE  HeldInv'
  <2>1. /\ hand' = [hand EXCEPT ![w] = 0] /\ Over' = Over \cup {hand[w]}
        /\ UNCHANGED <<put, queue>>
    BY <1>4, SendSettles
  <2>2. Taken' = Taken  BY <2>1 DEF Taken
  <2>3. QED  BY <2>1, <2>2 DEF HeldInv
<1>5. ASSUME UNCHANGED <<put, queue, hand, delivered, dropped, refused>>
      PROVE  HeldInv'
  BY <1>5 DEF HeldInv, Taken, Over, D!Settled
<1>6. QED
  BY <1>1, <1>2, <1>3, <1>4, <1>5
     DEF Next, WriterStep, Sends, WriterStart, OpenFails, StopCalled, StopReturns,
         ProcessEnds, vars

\* An item meets one fate: the one its writer's send has, and no other.
LEMMA FateStep ==
    ASSUME TypeOK, HandInv, QueueInv, FateInv, [Next]_vars
    PROVE  FateInv'
<1> USE QueueSinkAssumption DEF TypeOK, Items, workVars, fateVars, stopVars
<1> DEFINE Fixed == UNCHANGED <<hand, delivered, dropped, refused>>
<1>1. ASSUME Fixed, Taken' = Taken, put' >= put, put' \in Nat
      PROVE  FateInv'
  <2>1. D!OneFate'
    BY <1>1 DEF FateInv, D!OneFate, D!Settled
  <2>2. QED  BY <1>1, <2>1 DEF FateInv, Over, D!Settled
<1>2. CASE Put
  BY <1>1, <1>2 DEF Put, Taken
<1>3. ASSUME NEW w \in Writers, Take(w)
      PROVE  FateInv'
  <2>1. /\ Head(queue) = Taken + 1
        /\ Taken' = Taken + 1
        /\ Taken \in Nat
    BY <1>3 DEF Take, Taken, QueueInv
  <2>2. /\ hand' = [hand EXCEPT ![w] = Taken + 1]
        /\ hand[w] = 0
        /\ UNCHANGED <<put, delivered, dropped, refused>>
    BY <1>3, <2>1 DEF Take, HandInv
  <2>3. Over' = Over /\ D!OneFate'
    BY <2>2 DEF Over, D!Settled, D!OneFate, FateInv
  <2>5. \A v \in Writers : hand'[v] <= Taken' /\ hand'[v] \notin Over'
    BY <2>1, <2>2, <2>3 DEF FateInv
  <2>6. \A u, v \in Writers : hand'[u] = hand'[v] /\ hand'[u] # 0 => u = v
    BY <2>1, <2>2 DEF FateInv
  <2>7. Over' \subseteq 1..Taken'
    BY <2>1, <2>3 DEF FateInv
  <2>8. QED  BY <2>3, <2>5, <2>6, <2>7 DEF FateInv
<1>4. ASSUME NEW w \in Writers, TakeClosed(w)
      PROVE  FateInv'
  <2>1. /\ Taken \in Nat /\ Taken < put /\ Taken' = Taken + 1
        /\ UNCHANGED <<put, hand, delivered>>
        /\ dropped' = dropped \cup {Taken + 1}
        /\ D!Settled' = D!Settled \cup {Taken + 1}
        /\ Over' = Over \cup {Taken + 1}
    BY <1>4, CloseSettles
  <2>2. /\ Over \subseteq 1..Taken /\ D!Settled \subseteq Over
        /\ D!ToSet(delivered) \subseteq Over
    BY DEF FateInv, Over, D!Settled
  <2>3. Taken + 1 \notin Over  BY <2>1, <2>2
  <2>4. Over' \subseteq 1..Taken'  BY <2>1, <2>2
  <2>5. \A v \in Writers : hand'[v] <= Taken' /\ hand'[v] \notin Over'
    BY <2>1 DEF FateInv
  <2>6. D!OneFate'
    <3>1. D!Settled' \subseteq 1..put'  BY <2>1, <2>2
    <3>2. QED  BY <2>1, <2>2, <2>3, <3>1 DEF FateInv, D!OneFate
  <2>7. QED  BY <2>1, <2>4, <2>5, <2>6 DEF FateInv
<1>5. ASSUME NEW w \in Writers, Sends(w)
      PROVE  FateInv'
  <2>1. /\ hand' = [hand EXCEPT ![w] = 0]
        /\ hand[w] \in Items
        /\ UNCHANGED <<put, queue>>
    BY <1>5, SendSettles
  <2>2. Taken' = Taken /\ Taken \in Nat /\ Taken <= put
    BY <2>1 DEF Taken, QueueInv
  <2>3. Over' = Over \cup {hand[w]}
    BY <1>5, SendSettles
  <2>5. \A v \in Writers : hand'[v] <= Taken' /\ hand'[v] \notin Over'
    <3> SUFFICES ASSUME NEW v \in Writers
                 PROVE  hand'[v] <= Taken /\ hand'[v] \notin Over'
      BY <2>2
    <3>1. CASE v = w
      <4>1. hand'[v] = 0 /\ 0 \notin Over /\ hand[w] # 0
        BY <2>1, <2>2, <3>1 DEF FateInv
      <4>2. QED  BY <2>2, <2>3, <4>1
    <3>2. CASE v # w
      <4>1. hand'[v] = hand[v] /\ hand[w] # 0
        BY <2>1, <3>2
      <4>2. hand[v] # hand[w] /\ hand[v] \notin Over /\ hand[v] <= Taken
        BY <3>2, <4>1 DEF FateInv
      <4>3. QED  BY <2>3, <4>1, <4>2
    <3>3. QED  BY <3>1, <3>2
  <2>6. \A u, v \in Writers : hand'[u] = hand'[v] /\ hand'[u] # 0 => u = v
    BY <2>1 DEF FateInv
  <2>7. Over' \subseteq 1..Taken'
    <3>1. hand[w] \in 1..Taken /\ Over \subseteq 1..Taken
      BY <2>1, <2>2 DEF FateInv
    <3>2. QED  BY <2>2, <2>3, <3>1
  <2>8. D!OneFate'
    <3>0. D!Settled' \subseteq 1..put'
      BY <2>1, <2>2, <2>7 DEF Over
    <3>1. hand[w] \notin D!ToSet(delivered) /\ hand[w] \notin dropped
      BY DEF FateInv, Over, D!Settled
    <3>2. CASE Send(w)
      <4>1. D!IsInjective(delivered')
        BY <2>1, <3>1, <3>2, AppendElements
           DEF Send, FateInv, D!OneFate, D!IsInjective, D!ToSet
      <4>2. D!ToSet(delivered') \cap dropped' = {}
        <5>1. D!ToSet(delivered') \subseteq D!ToSet(delivered) \cup {hand[w]}
          <6>1. delivered' = Append(delivered, hand[w]) /\ delivered \in Seq(Items)
            BY <3>2 DEF Send
          <6>2. QED  BY ONLY <2>1, <6>1, AppendElements
        <5>2. QED  BY <3>1, <3>2, <5>1 DEF Send, FateInv, D!OneFate
      <4>3. QED  BY <2>1, <3>0, <4>1, <4>2 DEF D!OneFate
    <3>3. CASE SendFails(w)
      BY <3>0, <3>1, <3>3 DEF SendFails, FateInv, D!OneFate
    <3>4. CASE SendRefused(w)
      BY <3>0, <3>4 DEF SendRefused, FateInv, D!OneFate
    <3>5. QED  BY <1>5, <3>2, <3>3, <3>4 DEF Sends
  <2>9. QED  BY <2>5, <2>6, <2>7, <2>8 DEF FateInv
<1>6. ASSUME UNCHANGED <<put, queue, hand, delivered, dropped, refused>>
      PROVE  FateInv'
  BY <1>1, <1>6 DEF Taken
<1>7. QED
  BY <1>2, <1>3, <1>4, <1>5, <1>6
     DEF Next, WriterStep, Sends, WriterStart, OpenFails, StopCalled, StopReturns,
         ProcessEnds, vars

\* One writer sends an item later than it sent those before it.
LEMMA OrderStep ==
    ASSUME TypeOK, HandInv, QueueInv, FateInv, OrderInv, [Next]_vars
    PROVE  OrderInv'
<1> USE QueueSinkAssumption DEF TypeOK, Items, workVars, fateVars, stopVars
<1> SUFFICES ASSUME Cardinality(Writers) = 1
             PROVE  /\ D!InOrder'
                    /\ \A i \in DOMAIN delivered' : \A v \in Writers :
                          hand'[v] # 0 => delivered'[i] < hand'[v]
  BY DEF OrderInv
<1>1. PICK only : Writers = {only}
  BY FS_Singleton
<1>2. \A i \in 1..Len(delivered) : delivered[i] \in 1..Taken
  <2>1. D!ToSet(delivered) \subseteq 1..Taken  BY DEF FateInv, Over, D!Settled
  <2>2. QED  BY <2>1 DEF D!ToSet
<1>3. ASSUME NEW w \in Writers, Take(w)
      PROVE  OrderInv'
  <2>1. Head(queue) = Taken + 1 /\ Taken \in Nat
    BY <1>3 DEF Take, Taken, QueueInv
  <2>2. hand' = [hand EXCEPT ![w] = Taken + 1] /\ UNCHANGED delivered
    BY <1>3, <2>1 DEF Take
  <2>3. D!InOrder'  BY <2>2 DEF OrderInv, D!InOrder
  <2>4. \A i \in DOMAIN delivered' : \A v \in Writers : delivered'[i] < hand'[v]
    BY <1>1, <1>2, <2>1, <2>2
  <2>5. QED  BY <2>3, <2>4 DEF OrderInv
<1>4. ASSUME NEW w \in Writers, Send(w)
      PROVE  OrderInv'
  <2>1. /\ hand' = [hand EXCEPT ![w] = 0]
        /\ hand[w] \in Items
        /\ delivered' = Append(delivered, hand[w])
    BY <1>4 DEF Send, Release, HandInv
  <2>2. \A i \in 1..Len(delivered) : delivered[i] < hand[w]
    BY <2>1 DEF OrderInv
  <2>3. /\ Len(delivered') = Len(delivered) + 1
        /\ \A i \in 1..Len(delivered) : delivered'[i] = delivered[i]
        /\ delivered'[Len(delivered) + 1] = hand[w]
    BY <2>1
  <2>4. D!InOrder'
    <3> SUFFICES ASSUME NEW i \in 1..Len(delivered'), NEW j \in 1..Len(delivered'),
                        i < j
                 PROVE  delivered'[i] < delivered'[j]
      BY DEF D!InOrder
    <3>1. i \in 1..Len(delivered)  BY <2>3
    <3>2. CASE j \in 1..Len(delivered)
      BY <2>3, <3>1, <3>2 DEF OrderInv, D!InOrder
    <3>3. CASE j = Len(delivered) + 1  BY <2>2, <2>3, <3>1, <3>3
    <3>4. j \in 1..Len(delivered) \/ j = Len(delivered) + 1
      <4>1. Len(delivered) \in Nat  OBVIOUS
      <4>2. QED  BY ONLY <2>3, <4>1
    <3>5. QED  BY <3>2, <3>3, <3>4
  <2>5. QED  BY <1>1, <2>1, <2>4 DEF OrderInv
<1>5. ASSUME NEW w \in Writers, SendFails(w) \/ SendRefused(w)
      PROVE  OrderInv'
  BY <1>1, <1>5 DEF SendFails, SendRefused, Release, OrderInv, D!InOrder
<1>6. ASSUME UNCHANGED <<hand, delivered>>
      PROVE  OrderInv'
  BY <1>6 DEF OrderInv, D!InOrder
<1>7. OrderInv'
  BY <1>3, <1>4, <1>5, <1>6
     DEF Next, WriterStep, WriterStart, OpenFails, TakeClosed, Put, StopCalled,
         StopReturns, ProcessEnds, vars
<1>8. QED  BY <1>7 DEF OrderInv

\* The invariants that the theorems below rest on.
Inv == TypeOK /\ HandInv /\ QueueInv /\ DrainInv /\ HeldInv /\ FateInv /\ OrderInv

LEMMA Invariants == Spec => []Inv
<1>1. Init => QueueInv /\ DrainInv /\ HeldInv /\ FateInv /\ OrderInv
  <2> SUFFICES ASSUME Init
               PROVE  QueueInv /\ DrainInv /\ HeldInv /\ FateInv /\ OrderInv
    OBVIOUS
  <2> USE DEF Init
  <2>1. Taken = 0
    <3>1. put = 0 /\ Len(queue) = 0  OBVIOUS
    <3>2. QED  BY ONLY <3>1 DEF Taken
  <2>2. D!Settled = {} /\ Over = {}  BY DEF Over, D!Settled, D!ToSet
  <2>3. D!OneFate
    BY <2>2 DEF D!OneFate, D!Settled, D!IsInjective
  <2>4. QueueInv /\ DrainInv  BY <2>1 DEF QueueInv, DrainInv
  <2>5. FateInv  BY <2>1, <2>2, <2>3 DEF FateInv
  <2>6. HeldInv  BY <2>1 DEF HeldInv
  <2>7. OrderInv  BY DEF OrderInv, D!InOrder
  <2>8. QED  BY <2>4, <2>5, <2>6, <2>7
<1>2. Inv /\ [Next]_vars => QueueInv' /\ DrainInv' /\ HeldInv' /\ FateInv' /\ OrderInv'
  BY QueueStep, HeldStep, FateStep, OrderStep DEF Inv
<1>3. QED  BY <1>1, <1>2, TypeCorrect, PTL DEF Spec, Inv

-----------------------------------------------------------------------------
(* What Stop leaves, and what the sink promises.                           *)

\* Once Stop returned, at most one item per writer of those accepted before it was
\* called has not met its fate, for any capacity and any number of writers: each
\* such item is in the hand of a writer of its own.
THEOREM StopDrains == Spec => []LostAtStop
<1>1. Inv => LostAtStop
  <2> SUFFICES ASSUME TypeOK, QueueInv, DrainInv, HeldInv, stop = "done"
               PROVE  Cardinality((1..waitedFor) \ Over)
                         <= Cardinality(Writers)
    BY DEF LostAtStop, Inv
  <2> DEFINE Left == (1..waitedFor) \ Over
             Hands == {hand[w] : w \in Writers}
  <2>1. IsFiniteSet(Writers)  BY QueueSinkAssumption
  <2>2. hand \in Surjection(Writers, Hands)
    <3>1. hand \in [Writers -> Hands]  BY DEF TypeOK
    <3>2. QED  BY <3>1 DEF Surjection
  <2>3. IsFiniteSet(Hands) /\ Cardinality(Hands) <= Cardinality(Writers)
    BY <2>1, <2>2, FS_Surjection
  <2>4. Left \subseteq Hands
    <3> SUFFICES ASSUME NEW n \in 1..waitedFor, n \notin Over
                 PROVE  n \in Hands
      OBVIOUS
    <3>1. Taken \in Nat /\ waitedFor \in Nat /\ waitedFor <= Taken
      BY QueueSinkAssumption DEF TypeOK, QueueInv, DrainInv, Taken
    <3>2. n \in 1..Taken  BY <3>1
    <3>3. QED  BY <3>2 DEF HeldInv
  <2>5. IsFiniteSet(Left) /\ Cardinality(Left) <= Cardinality(Hands)
    BY <2>3, <2>4, FS_Subset
  <2>6. QED  BY <2>1, <2>3, <2>5, FS_CardinalityType
<1>2. QED  BY <1>1, Invariants, PTL

\* A step of the sink accepts an item, or settles the one that a writer sends, or
\* would have sent.
LEMMA ImplementsStep ==
    ASSUME TypeOK, HandInv, FateInv', OrderInv', [Next]_vars
    PROVE  [D!Next]_(D!vars)
<1> USE DEF workVars, fateVars, stopVars
<1>1. CASE Put
  BY <1>1 DEF Put, D!Next, D!Accept
<1>2. ASSUME NEW w \in Writers, Send(w) \/ SendFails(w) \/ TakeClosed(w)
      PROVE  D!Settle
  <2>1. D!OneFate' /\ (Cardinality(Writers) = 1 => D!InOrder')
    BY DEF FateInv, OrderInv
  <2>2. UNCHANGED put /\ dropped \subseteq dropped'
    BY <1>2 DEF Send, SendFails, TakeClosed, Release
  <2>3. D!IsPrefix(delivered, delivered')
    <3>1. delivered \in Seq(Items)  BY DEF TypeOK
    <3>2. CASE Send(w)
      <4>1. hand[w] \in Items
        BY <3>2, QueueSinkAssumption DEF Send, TypeOK, HandInv, Items
      <4>2. QED  BY <3>1, <3>2, <4>1, AppendPrefix DEF Send
    <3>3. CASE SendFails(w) \/ TakeClosed(w)
      BY <3>1, <3>3 DEF SendFails, TakeClosed, D!IsPrefix
    <3>4. QED  BY <1>2, <3>2, <3>3
  <2>4. QED  BY <2>1, <2>2, <2>3 DEF D!Settle
<1>3. ASSUME UNCHANGED <<put, delivered, dropped>>
      PROVE  UNCHANGED D!vars
  BY <1>3 DEF D!vars
<1>4. QED
  BY <1>1, <1>2, <1>3
     DEF Next, WriterStep, WriterStart, OpenFails, Take, SendRefused, Release,
         StopCalled, StopReturns, ProcessEnds, vars, D!Next

\* The sink implements Delivery: whatever fails, and with any number of writers, no
\* item is sent twice or sent and dropped, and one writer keeps their order.
THEOREM Implements == Spec => ImplementsDelivery
<1>1. Init => D!Init
  BY DEF Init, D!Init
<1>2. Inv /\ Inv' /\ [Next]_vars => [D!Next]_(D!vars)
  BY ImplementsStep DEF Inv
<1>3. QED  BY <1>1, <1>2, Invariants, PTL DEF Spec, ImplementsDelivery, D!Spec
=============================================================================
