--------------------------- MODULE PipelineProofs ---------------------------
(***************************************************************************)
(* Theorems about Pipeline, for any objects, sink, capacity, faults, and   *)
(* number of changes and restarts.  A step of Pipeline is one of           *)
(* IndexWatch's and, but for a restart, one of QueueSink's, so that what   *)
(* IndexWatchProofs and QueueSinkProofs say of a step holds of it.         *)
(***************************************************************************)
EXTENDS Pipeline, FiniteSetTheorems, TLAPS

WP == INSTANCE IndexWatchProofs WITH
         Watch <- [selects |-> "newer", fetches |-> FALSE],
         InfoFaults <- FALSE
SP == INSTANCE QueueSinkProofs

-----------------------------------------------------------------------------
(* Pipeline's instances W of IndexWatch and S of QueueSink are those of    *)
(* their proofs, WP and SP.                                                *)

\* What QueueSinkProofs assumes of its constants.
LEMMA SinkConstants ==
    /\ Sink \in SP!SinkProfiles
    /\ SP!IsFiniteSet(Writers)
    /\ Sink.writers = "one" => SP!Cardinality(Writers) = 1
    /\ Sink.writers = "three" => SP!Cardinality(Writers) = 3
    /\ Capacity \in Nat \ {0}
    /\ MaxItems \in Nat
    /\ Faults \subseteq SP!AllFaults
<1>1. SP!SinkProfiles = S!SinkProfiles  BY DEF S!SinkProfiles, SP!SinkProfiles
<1>2. SP!IsFiniteSet(Writers) = IsFiniteSet(Writers)
  BY DEF SP!IsFiniteSet, IsFiniteSet
<1>3. SP!Cardinality(Writers) = Cardinality(Writers)
  BY DEF SP!Cardinality, Cardinality
<1>4. SP!AllFaults = S!AllFaults  BY DEF S!AllFaults, SP!AllFaults
<1>5. QED  BY <1>1, <1>2, <1>3, <1>4, PipelineAssumption

\* Both instances of IndexWatch see the same table and select the same of it.
LEMMA SameTable ==
    /\ \A o, k : W!ModifyIndex(o, k) = WP!ModifyIndex(o, k)
    /\ \A k : W!Table(k) = WP!Table(k)
    /\ \A v : W!Selected(v) = WP!Selected(v)
    /\ \A o, v : W!Had(o, v) = WP!Had(o, v)
<1>1. \A o, k : W!ModifyIndex(o, k) = WP!ModifyIndex(o, k)
  BY DEF W!ModifyIndex, WP!ModifyIndex, W!Max, WP!Max
<1>2. \A k : W!Table(k) = WP!Table(k)
  BY <1>1 DEF W!Table, WP!Table, W!Versions, WP!Versions
<1>3. \A v : W!Selected(v) = WP!Selected(v)
  BY DEF W!Selected, WP!Selected
<1>4. \A o, v : W!Had(o, v) = WP!Had(o, v)
  BY DEF W!Had, WP!Had
<1>5. QED  BY <1>1, <1>2, <1>3, <1>4

\* They have the same invariants.
LEMMA SameWatch ==
    /\ W!TypeOK <=> WP!TypeOK
    /\ W!KnownInv <=> WP!KnownInv
    /\ W!AheadInv <=> WP!AheadInv
<1>1. W!TypeOK <=> WP!TypeOK
  BY DEF W!TypeOK, WP!TypeOK, W!Changes, WP!Changes, W!Versions, WP!Versions,
         W!Indices, WP!Indices
<1>2. W!KnownInv <=> WP!KnownInv
  BY SameTable DEF W!KnownInv, WP!KnownInv
<1>3. W!AheadInv <=> WP!AheadInv
  BY DEF W!AheadInv, WP!AheadInv
<1>4. QED  BY <1>1, <1>2, <1>3

\* So have those of QueueSink.
LEMMA SameSink ==
    /\ S!TypeOK <=> SP!TypeOK
    /\ S!HandInv <=> SP!HandInv
    /\ S!QueueInv <=> SP!QueueInv
    /\ S!DrainInv <=> SP!DrainInv
    /\ S!FateInv <=> SP!FateInv
    /\ S!OrderInv <=> SP!OrderInv
    /\ S!Taken = SP!Taken
    /\ S!Over = SP!Over
<1>1. S!TypeOK <=> SP!TypeOK
  BY DEF S!TypeOK, SP!TypeOK, S!Items, SP!Items
<1>2. S!HandInv <=> SP!HandInv  BY DEF S!HandInv, SP!HandInv
<1>3. S!Taken = SP!Taken  BY DEF S!Taken, SP!Taken
<1>4. S!D!Settled = SP!D!Settled /\ S!Over = SP!Over
  BY DEF S!Over, SP!Over, S!D!Settled, SP!D!Settled, S!D!ToSet, SP!D!ToSet
<1>5. S!QueueInv <=> SP!QueueInv  BY <1>3 DEF S!QueueInv, SP!QueueInv
<1>6. S!DrainInv <=> SP!DrainInv  BY <1>3 DEF S!DrainInv, SP!DrainInv
<1>7. S!FateInv <=> SP!FateInv
  BY <1>3, <1>4
     DEF S!FateInv, SP!FateInv, S!D!OneFate, SP!D!OneFate, S!D!IsInjective,
         SP!D!IsInjective, S!D!ToSet, SP!D!ToSet
<1>8. S!OrderInv <=> SP!OrderInv
  <2>1. S!D!InOrder <=> SP!D!InOrder  BY DEF S!D!InOrder, SP!D!InOrder
  <2>2. S!Cardinality(Writers) = SP!Cardinality(Writers)
    BY DEF S!Cardinality, SP!Cardinality
  <2>3. QED  BY <2>1, <2>2 DEF S!OrderInv, SP!OrderInv
<1>9. QED  BY <1>1, <1>2, <1>3, <1>4, <1>5, <1>6, <1>7, <1>8

\* They take the same steps.
LEMMA SameWatchStep == [W!Next]_(W!vars) <=> [WP!Next]_(WP!vars)
<1> USE DEF W!nomadVars, W!watchVars, W!sinkVars, W!savedVars, WP!nomadVars,
            WP!watchVars, WP!sinkVars, WP!savedVars
<1>1. W!Change <=> WP!Change
  BY SameTable DEF W!Change, WP!Change, W!Changes, WP!Changes
<1>2. W!List <=> WP!List
  BY SameTable DEF W!List, WP!List, W!ListAt, WP!ListAt
<1>3. W!Visit <=> WP!Visit  BY DEF W!Visit, WP!Visit, W!Put, WP!Put
<1>4. W!Commit <=> WP!Commit  BY DEF W!Commit, WP!Commit
<1>5. W!Info <=> WP!Info  BY SameTable DEF W!Info, WP!Info
<1>6. W!InfoFails <=> WP!InfoFails
  BY SameTable DEF W!InfoFails, WP!InfoFails
<1>7. W!PutFetched <=> WP!PutFetched
  BY DEF W!PutFetched, WP!PutFetched, W!Put, WP!Put
<1>8. W!Persist <=> WP!Persist  BY DEF W!Persist, WP!Persist
<1>9. W!Restart <=> WP!Restart  BY DEF W!Restart, WP!Restart
<1>10. QED
  BY <1>1, <1>2, <1>3, <1>4, <1>5, <1>6, <1>7, <1>8, <1>9
     DEF W!Next, WP!Next, W!vars, WP!vars

\* So do those of QueueSink.
LEMMA SameSinkStep == [S!Next]_(S!vars) <=> [SP!Next]_(SP!vars)
<1> USE DEF S!workVars, S!fateVars, S!stopVars, SP!workVars, SP!fateVars,
            SP!stopVars, S!Closed, SP!Closed
<1>1. S!Put <=> SP!Put  BY DEF S!Put, SP!Put
<1>2. ASSUME NEW w
      PROVE  S!WriterStep(w) <=> SP!WriterStep(w)
  <2>1. S!WriterStart(w) <=> SP!WriterStart(w)
    BY DEF S!WriterStart, SP!WriterStart
  <2>2. S!OpenFails(w) <=> SP!OpenFails(w)  BY DEF S!OpenFails, SP!OpenFails
  <2>3. S!Take(w) <=> SP!Take(w)  BY DEF S!Take, SP!Take
  <2>4. S!Send(w) <=> SP!Send(w)
    BY DEF S!Send, SP!Send, S!Release, SP!Release
  <2>5. S!SendFails(w) <=> SP!SendFails(w)
    BY DEF S!SendFails, SP!SendFails, S!Release, SP!Release
  <2>6. S!TakeClosed(w) <=> SP!TakeClosed(w)  BY DEF S!TakeClosed, SP!TakeClosed
  <2>7. S!SendRefused(w) <=> SP!SendRefused(w)
    BY DEF S!SendRefused, SP!SendRefused, S!Release, SP!Release
  <2>8. QED
    BY <2>1, <2>2, <2>3, <2>4, <2>5, <2>6, <2>7 DEF S!WriterStep, SP!WriterStep
<1>3. S!StopCalled <=> SP!StopCalled  BY DEF S!StopCalled, SP!StopCalled
<1>4. S!StopReturns <=> SP!StopReturns  BY DEF S!StopReturns, SP!StopReturns
<1>5. S!ProcessEnds <=> SP!ProcessEnds  BY DEF S!ProcessEnds, SP!ProcessEnds
<1>6. QED
  BY <1>1, <1>2, <1>3, <1>4, <1>5 DEF S!Next, SP!Next, S!vars, SP!vars

\* What IndexWatchProofs shows of a step.
LEMMA WatchKeeps ==
    ASSUME W!TypeOK, WatchInv, [W!Next]_(W!vars)
    PROVE  W!TypeOK' /\ WatchInv'
<1>1. WP!TypeOK /\ WP!KnownInv /\ WP!AheadInv /\ [WP!Next]_(WP!vars)
  BY SameWatch, SameWatchStep DEF WatchInv
<1>2. WP!TypeOK' /\ WP!KnownInv' /\ WP!AheadInv'
  BY <1>1, WP!TypeStep, WP!KnownStep, WP!AheadStep, PipelineAssumption
     DEF WP!WatchProfiles
<1>3. QED  BY <1>2, SameWatch, PTL DEF WatchInv

\* What QueueSinkProofs shows of a step.
LEMMA SinkKeeps ==
    ASSUME S!TypeOK, SinkInv, [S!Next]_(S!vars)
    PROVE  S!TypeOK' /\ SinkInv'
<1>1. /\ SP!TypeOK /\ SP!HandInv /\ SP!QueueInv /\ SP!DrainInv /\ SP!FateInv
      /\ SP!OrderInv /\ [SP!Next]_(SP!vars)
  BY SameSink, SameSinkStep DEF SinkInv
<1>2. /\ SP!TypeOK' /\ SP!HandInv' /\ SP!QueueInv' /\ SP!DrainInv' /\ SP!FateInv'
      /\ SP!OrderInv'
  BY <1>1, SP!TypeStep, SP!QueueStep, SP!FateStep, SP!OrderStep, SinkConstants
<1>3. QED  BY <1>2, SameSink, PTL DEF SinkInv

-----------------------------------------------------------------------------
(* Type correctness.                                                       *)

\* A step of the pipeline is one of the watch, and of the sink unless a process is
\* started again.
LEMMA ComponentSteps ==
    ASSUME [Next]_vars
    PROVE  [W!Next]_(W!vars) /\ (Resume \/ [S!Next]_(S!vars))
<1> USE DEF watchVars, queueVars, W!vars, W!nomadVars, W!watchVars, W!sinkVars,
            W!savedVars, S!vars, S!workVars, S!fateVars, S!stopVars, W!Next, S!Next
<1>1. CASE WatchStep  BY <1>1 DEF WatchStep
<1>2. CASE Publish  BY <1>2 DEF Publish
<1>3. CASE SinkStep  BY <1>3 DEF SinkStep
<1>4. CASE Persist  BY <1>4 DEF Persist
<1>5. CASE End  BY <1>5 DEF End
<1>6. CASE Resume  BY <1>6 DEF Resume
<1>7. CASE UNCHANGED vars  BY <1>7 DEF vars
<1>8. QED  BY <1>1, <1>2, <1>3, <1>4, <1>5, <1>6, <1>7 DEF Next

\* What is in flight was put and not yet taken, or is in a hand; what was sent was
\* put.
LEMMA InFlightWasPut ==
    ASSUME S!TypeOK, SinkInv
    PROVE  /\ S!Taken \in Nat /\ S!Taken <= put /\ put \in Nat
           /\ InFlight \subseteq ((S!Taken + 1)..put) \cup {hand[w] : w \in Writers}
           /\ InFlight \subseteq 1..put
           /\ S!Over \subseteq 1..put
<1>1. /\ put \in Nat /\ Len(queue) \in Nat /\ DOMAIN queue = 1..Len(queue)
      /\ \A w \in Writers : hand[w] \in Nat
  BY PipelineAssumption DEF S!TypeOK, S!Items
<1>2. S!Taken \in Nat /\ S!Taken <= put
  BY <1>1 DEF SinkInv, S!QueueInv, S!Taken
<1>3. \A i \in DOMAIN queue : queue[i] \in (S!Taken + 1)..put
  <2> SUFFICES ASSUME NEW i \in 1..Len(queue)
               PROVE  queue[i] \in (S!Taken + 1)..put
    BY <1>1
  <2>1. queue[i] = S!Taken + i /\ S!Taken = put - Len(queue)
    BY DEF SinkInv, S!QueueInv, S!Taken
  <2> HIDE DEF S!Taken
  <2>2. QED  BY <1>1, <1>2, <2>1
<1>4. InFlight \subseteq ((S!Taken + 1)..put) \cup {hand[w] : w \in Writers}
  BY <1>3 DEF InFlight
<1>5. \A w \in Writers : hand[w] # 0 => hand[w] \in 1..put
  <2>1. \A w \in Writers : hand[w] <= S!Taken  BY DEF SinkInv, S!FateInv
  <2>2. QED  BY <1>1, <1>2, <2>1
<1>6. InFlight \subseteq 1..put
  <2>1. \A i \in DOMAIN queue : queue[i] \in 1..put  BY <1>1, <1>2, <1>3
  <2>2. QED  BY <1>5, <2>1 DEF InFlight
<1>7. S!Over \subseteq 1..put
  <2>1. S!Over \subseteq 1..S!Taken  BY DEF SinkInv, S!FateInv
  <2>2. QED  BY <1>1, <1>2, <2>1
<1>8. QED  BY <1>1, <1>2, <1>4, <1>6, <1>7

\* What Publish does: one of the versions that are left to visit is put.
LEMMA Published ==
    ASSUME W!TypeOK, Publish
    PROVE  \E e \in todo :
             /\ todo' = todo \ {e}
             /\ newMax' = IF e[2] > newMax THEN e[2] ELSE newMax
             /\ emitted' = emitted \cup {e}
             /\ put' = put + 1
             /\ queue' = Append(queue, put + 1)
             /\ version' = Append(version, e)
             /\ at = "visit" /\ up
             /\ UNCHANGED <<log, at, lastIndex, lastChange, saved, hand, delivered,
                           dropped, refused, stop, waitedFor, up, lost>>
<1>1. PICK e \in todo : /\ W!Visit /\ e \notin todo'
                        /\ S!Put
                        /\ version' = Append(version, e)
                        /\ UNCHANGED lost
  BY DEF Publish
<1>2. PICK d \in todo : /\ todo' = todo \ {d}
                        /\ newMax' = IF d[2] > newMax THEN d[2] ELSE newMax
                        /\ W!Put(d[1], d[2])
  BY <1>1 DEF W!Visit
<1>3. d = e  BY <1>1, <1>2
<1>4. e = <<e[1], e[2]>>  BY DEF W!TypeOK, W!Versions
<1>5. at = "visit" /\ UNCHANGED <<log, at, lastIndex, lastChange, saved>>
  BY <1>1 DEF W!Visit, W!nomadVars, W!savedVars
<1>6. /\ put' = put + 1
      /\ queue' = Append(queue, put + 1)
      /\ up
      /\ UNCHANGED <<hand, delivered, dropped, refused, stop, waitedFor, up>>
  BY <1>1 DEF S!Put, S!workVars, S!fateVars, S!stopVars
<1>7. /\ todo' = todo \ {e}
      /\ newMax' = IF e[2] > newMax THEN e[2] ELSE newMax
      /\ emitted' = emitted \cup {e}
  <2>1. emitted' = emitted \cup {<<d[1], d[2]>>}  BY <1>2 DEF W!Put
  <2>2. QED  BY <1>2, <1>3, <1>4, <2>1
<1>8. QED  BY <1>1, <1>5, <1>6, <1>7

\* Every step keeps every type, and the invariants of both components.
LEMMA TypeStep ==
    ASSUME TypeOK, WatchInv, SinkInv, [Next]_vars
    PROVE  TypeOK' /\ WatchInv' /\ SinkInv'
<1>1. W!TypeOK' /\ WatchInv'
  BY ComponentSteps, WatchKeeps DEF TypeOK
<1>2. S!TypeOK' /\ SinkInv'
  <2>1. CASE Resume
    <3>1. /\ up' = TRUE /\ queue' = <<>> /\ stop' = "no" /\ waitedFor' = 0
          /\ writer' = [w \in Writers |-> "spawned"]
          /\ hand' = [w \in Writers |-> 0]
          /\ UNCHANGED <<put, delivered, dropped, refused>>
      BY <2>1 DEF Resume
    <3>2. S!TypeOK'
      BY <3>1, PipelineAssumption DEF TypeOK, S!TypeOK, S!Items
    <3>3. /\ S!Taken \in Nat /\ S!Taken <= put /\ put \in Nat
          /\ S!Over \subseteq 1..put
      BY InFlightWasPut DEF TypeOK
    <3>4. S!Taken' = put
      <4>1. put' = put /\ Len(queue') = 0  BY <3>1
      <4>2. QED  BY ONLY <3>3, <4>1 DEF S!Taken
    <3>5. S!D!Settled' = S!D!Settled /\ S!Over' = S!Over
      BY <3>1 DEF S!Over, S!D!Settled
    <3>6. S!HandInv'  BY <3>1 DEF S!HandInv
    <3>7. S!QueueInv'
      BY <3>1, <3>3, <3>4 DEF S!QueueInv
    <3>8. S!DrainInv'  BY <3>1, <3>3 DEF S!DrainInv
    <3>9. S!FateInv'
      <4>1. S!D!OneFate'
        BY <3>1, <3>5 DEF SinkInv, S!FateInv, S!D!OneFate
      <4>2. 0 \notin S!Over  BY <3>3
      <4>3. QED  BY <3>1, <3>3, <3>4, <3>5, <4>1, <4>2 DEF S!FateInv
    <3>10. S!OrderInv'
      BY <3>1 DEF SinkInv, S!OrderInv, S!D!InOrder
    <3>11. QED  BY <3>2, <3>6, <3>7, <3>8, <3>9, <3>10 DEF SinkInv
  <2>2. CASE [S!Next]_(S!vars)  BY <2>2, SinkKeeps DEF TypeOK
  <2>3. QED  BY <2>1, <2>2, ComponentSteps
<1>3. /\ version' \in Seq(emitted') /\ Len(version') = put'
      /\ lost' \subseteq 1..put'
  <2>1. version \in Seq(emitted) /\ Len(version) = put /\ put \in Nat
    BY InFlightWasPut DEF TypeOK
  <2>2. CASE Publish
    <3>1. PICK e \in todo : /\ emitted' = emitted \cup {e}
                            /\ put' = put + 1
                            /\ version' = Append(version, e)
                            /\ UNCHANGED lost
      BY <2>2, Published DEF TypeOK
    <3>2. version \in Seq(emitted') /\ e \in emitted'  BY <2>1, <3>1
    <3>3. version' \in Seq(emitted') /\ Len(version') = Len(version) + 1
      BY <3>1, <3>2
    <3>4. lost' \subseteq 1..put'  BY <2>1, <3>1 DEF TypeOK
    <3>5. QED  BY <2>1, <3>1, <3>3, <3>4
  <2>3. CASE End
    <3>1. UNCHANGED <<version, emitted, put>> /\ lost' = lost \cup Exposed
      BY <2>3 DEF End, S!ProcessEnds, watchVars
    <3>2. Exposed \subseteq 1..put
      BY InFlightWasPut DEF Exposed, TypeOK
    <3>3. QED  BY <3>1, <3>2 DEF TypeOK
  <2>4. CASE UNCHANGED <<version, emitted, put, lost>>
    BY <2>4 DEF TypeOK
  <2>5. QED
    BY <2>2, <2>3, <2>4
       DEF Next, WatchStep, SinkStep, Persist, Resume, vars, watchVars, queueVars,
           W!Change, W!List, W!ListAt, W!Commit, W!Persist, W!Restart, W!sinkVars,
           S!WriterStep, S!WriterStart, S!OpenFails, S!Take, S!TakeClosed, S!Send,
           S!SendRefused, S!SendFails, S!Release, S!StopCalled, S!StopReturns
<1>4. QED  BY <1>1, <1>2, <1>3 DEF TypeOK

\* Every variable of Pipeline keeps its type, and each item its version, through
\* any number of restarts: the queue of no process holds more than Capacity.
THEOREM TypeCorrect == Spec => [](TypeOK /\ WatchInv /\ SinkInv)
<1>1. Init => TypeOK /\ WatchInv /\ SinkInv
  <2> SUFFICES ASSUME Init
               PROVE  TypeOK /\ WatchInv /\ SinkInv
    OBVIOUS
  <2> USE PipelineAssumption DEF Init, W!Init, S!Init
  <2>1. W!TypeOK /\ WatchInv
    BY DEF W!TypeOK, W!Indices, WatchInv, W!KnownInv, W!AheadInv
  <2>2. S!TypeOK /\ S!HandInv
    BY DEF S!TypeOK, S!Items, S!HandInv
  <2>3. S!Taken = 0
    <3>1. put = 0 /\ Len(queue) = 0  OBVIOUS
    <3>2. QED  BY ONLY <3>1 DEF S!Taken
  <2>4. S!D!Settled = {} /\ S!Over = {}  BY DEF S!Over, S!D!Settled, S!D!ToSet
  <2>5. S!FateInv
    BY <2>3, <2>4
       DEF S!FateInv, S!D!OneFate, S!D!Settled, S!D!IsInjective
  <2>6. S!QueueInv /\ S!DrainInv /\ S!OrderInv
    BY <2>3 DEF S!QueueInv, S!DrainInv, S!OrderInv, S!D!InOrder
  <2>7. QED  BY <2>1, <2>2, <2>5, <2>6 DEF TypeOK, SinkInv
<1>2. QED  BY <1>1, TypeStep, PTL DEF Spec

-----------------------------------------------------------------------------
(* What a process that ends can lose.                                      *)

\* A version is put after the last change, and the last change is not saved any
\* more once Stop was called.
LEMMA StopStep ==
    ASSUME TypeOK, WatchInv, SinkInv, StopInv, [Next]_vars
    PROVE  StopInv'
<1>1. /\ version \in Seq(emitted) /\ Len(version) = put /\ put \in Nat
      /\ saved \in Nat /\ lastChange \in Nat /\ waitedFor \in Nat
  BY InFlightWasPut, PipelineAssumption
     DEF TypeOK, W!TypeOK, W!Indices, S!TypeOK
<1>2. CASE Publish
  <2>1. PICK e \in todo :
          /\ version' = Append(version, e)
          /\ put' = put + 1
          /\ UNCHANGED <<saved, stop, waitedFor>>
    BY <1>2, Published DEF TypeOK
  <2>2. e[2] \in Nat /\ e[2] > saved
    <3>1. e[2] \in Nat  BY DEF TypeOK, W!TypeOK, W!Versions
    <3>2. saved <= lastChange /\ e[2] > lastChange
      BY DEF WatchInv, W!AheadInv
    <3>3. QED  BY <1>1, <3>1, <3>2
  <2>3. /\ \A n \in 1..put : version'[n] = version[n]
        /\ version'[put + 1] = e
    BY <1>1, <2>1
  <2>4. ASSUME stop # "no", NEW n \in (waitedFor + 1)..(put + 1)
        PROVE  version'[n][2] > saved
    <3>1. CASE n = put + 1  BY <2>2, <2>3, <3>1
    <3>2. CASE n # put + 1
      <4>1. n \in (waitedFor + 1)..put /\ n \in 1..put  BY <1>1, <3>2
      <4>2. QED  BY <2>3, <2>4, <4>1 DEF StopInv
    <3>3. QED  BY <3>1, <3>2
  <2>5. QED  BY <2>1, <2>4 DEF StopInv
<1>3. CASE S!StopCalled /\ UNCHANGED <<saved, version>>
  <2>1. put' = put /\ waitedFor' = put  BY <1>3 DEF S!StopCalled
  <2>2. QED  BY <1>1, <2>1 DEF StopInv
<1>4. CASE S!StopReturns /\ UNCHANGED <<saved, version>>
  BY <1>4 DEF S!StopReturns, StopInv
<1>5. CASE Persist  BY <1>5 DEF Persist, queueVars, StopInv
<1>6. CASE Resume  BY <1>6 DEF Resume, StopInv
<1>7. CASE UNCHANGED <<saved, version, put, stop, waitedFor>>
  BY <1>7 DEF StopInv
<1>8. QED
  BY <1>2, <1>3, <1>4, <1>5, <1>6, <1>7
     DEF Next, WatchStep, SinkStep, End, vars, watchVars, queueVars, W!Change, W!List,
         W!ListAt, W!Commit, W!savedVars, S!WriterStep, S!WriterStart, S!OpenFails,
         S!Take, S!TakeClosed, S!Send, S!SendRefused, S!SendFails, S!Release,
         S!ProcessEnds, S!stopVars

\* A process that is killed loses for good at most what its queue and its writers
\* hold, and one that Stop prepared for its end at most one item per writer, for
\* any capacity, number of writers and of restarts.
THEOREM LossIsBounded == Spec => []LossBounded
<1>1. TypeOK /\ SinkInv /\ StopInv => LossBounded
  <2> SUFFICES ASSUME TypeOK, SinkInv, StopInv
               PROVE  Cardinality(Exposed) <=
                        Cardinality(Writers) + (IF stop = "done" THEN 0 ELSE Capacity)
    BY DEF LossBounded
  <2> DEFINE Hands == {hand[w] : w \in Writers}
             Queued == (S!Taken + 1)..put
  <2>1. IsFiniteSet(Hands) /\ Cardinality(Hands) <= Cardinality(Writers)
    <3>1. hand \in Surjection(Writers, Hands)
      <4>1. hand \in [Writers -> Hands]  BY DEF TypeOK, S!TypeOK
      <4>2. QED  BY <4>1 DEF Surjection
    <3>2. QED  BY <3>1, FS_Surjection, PipelineAssumption
  <2>2. /\ S!Taken \in Nat /\ S!Taken <= put /\ put \in Nat
        /\ Exposed \subseteq Queued \cup Hands
    BY InFlightWasPut DEF TypeOK, Exposed
  <2>3. /\ Cardinality(Writers) \in Nat /\ Cardinality(Hands) \in Nat
        /\ Capacity \in Nat
    BY <2>1, FS_CardinalityType, PipelineAssumption
  <2> HIDE DEF Hands
  <2>4. CASE stop = "done"
    <3>1. waitedFor <= S!Taken /\ waitedFor \in Nat
      BY <2>4, PipelineAssumption DEF SinkInv, S!DrainInv, TypeOK, S!TypeOK
    <3>2. \A n \in Queued : version[n][2] > saved
      BY <2>2, <2>4, <3>1 DEF StopInv
    <3>3. \A n \in Queued : version[n][2] <= saved => FALSE
      <4> SUFFICES ASSUME NEW n \in Queued, version[n][2] <= saved
                   PROVE  FALSE
        OBVIOUS
      <4>1. version[n] \in emitted
        <5>1. n \in 1..Len(version)  BY <2>2 DEF TypeOK
        <5>2. QED  BY <5>1 DEF TypeOK
      <4>2. version[n][2] \in Nat /\ saved \in Nat
        BY <4>1, PipelineAssumption DEF TypeOK, W!TypeOK, W!Versions, W!Indices
      <4>3. version[n][2] > saved  BY <3>2
      <4>4. QED  BY <4>2, <4>3
    <3>4. Exposed \subseteq Hands
      BY <2>2, <3>3 DEF Exposed
    <3>5. Cardinality(Exposed) <= Cardinality(Hands) /\ Cardinality(Exposed) \in Nat
      BY <2>1, <3>4, FS_Subset, FS_CardinalityType
    <3>6. QED  BY <2>1, <2>3, <2>4, <3>5
  <2>5. CASE stop # "done"
    <3>1. IsFiniteSet(Queued) /\ Cardinality(Queued) = Len(queue)
      <4>1. /\ Len(queue) \in Nat /\ S!Taken = put - Len(queue)
            /\ S!Taken + 1 \in Int /\ put \in Int
        BY <2>2 DEF TypeOK, S!TypeOK, S!Taken
      <4>2. S!Taken + 1 > put <=> Len(queue) = 0
        BY ONLY <2>2, <4>1
      <4>3. put - (S!Taken + 1) + 1 = Len(queue)
        BY ONLY <2>2, <4>1
      <4>4. QED  BY <4>1, <4>2, <4>3, FS_Interval
    <3>2. Len(queue) <= Capacity /\ Len(queue) \in Nat  BY DEF TypeOK, S!TypeOK
    <3> HIDE DEF Queued
    <3>3. /\ IsFiniteSet(Queued \cup Hands)
          /\ Cardinality(Queued \cup Hands) <= Cardinality(Queued) + Cardinality(Hands)
      <4>1. Cardinality(Queued \cap Hands) \in Nat /\ Cardinality(Queued) \in Nat
        BY <2>1, <3>1, FS_Intersection, FS_CardinalityType
      <4>2. /\ IsFiniteSet(Queued \cup Hands)
            /\ Cardinality(Queued \cup Hands)
                 = Cardinality(Queued) + Cardinality(Hands)
                     - Cardinality(Queued \cap Hands)
        BY <2>1, <3>1, FS_Union
      <4>3. QED  BY ONLY <2>3, <4>1, <4>2
    <3>4. /\ Cardinality(Exposed) <= Cardinality(Queued \cup Hands)
          /\ Cardinality(Exposed) \in Nat /\ Cardinality(Queued \cup Hands) \in Nat
      BY <2>2, <3>3, FS_Subset, FS_CardinalityType
    <3>5. QED  BY <2>1, <2>3, <2>5, <3>1, <3>2, <3>3, <3>4
  <2>6. QED  BY <2>4, <2>5
<1>2. Init => StopInv  BY DEF Init, S!Init, StopInv
<1>3. QED  BY <1>1, <1>2, TypeCorrect, StopStep, PTL DEF Spec

-----------------------------------------------------------------------------
(* A process resumes where the one before it left off.                     *)

\* What was sent stays so, unless a process is started again.
LEMMA SentStays ==
    ASSUME TypeOK, SinkInv, [Next]_vars, ~Resume
    PROVE  Sent \subseteq Sent'
<1> DEFINE Queued == {queue[i] : i \in DOMAIN queue}
           Hands == {hand[w] : w \in Writers} \ {0}
<1>1. /\ queue \in Seq(S!Items) /\ delivered \in Seq(S!Items)
      /\ hand \in [Writers -> 0..MaxItems] /\ MaxItems \in Nat
  BY PipelineAssumption DEF TypeOK, S!TypeOK
<1>2. CASE Publish
  <2>1. /\ queue' = Append(queue, put + 1)
        /\ UNCHANGED <<hand, delivered, dropped, refused, lost>>
    BY <1>2, Published DEF TypeOK
  <2>2. Queued \subseteq Queued'  BY <1>1, <2>1
  <2>3. QED  BY <2>1, <2>2 DEF Sent, InFlight, S!Over, S!D!Settled
<1>3. ASSUME NEW w \in Writers, S!Take(w), UNCHANGED lost
      PROVE  Sent \subseteq Sent'
  <2>1. /\ queue # <<>> /\ queue' = Tail(queue)
        /\ hand' = [hand EXCEPT ![w] = Head(queue)] /\ hand[w] = 0
        /\ UNCHANGED <<delivered, dropped, refused>>
    BY <1>3 DEF S!Take, S!fateVars, SinkInv, S!HandInv
  <2>2. \A i \in DOMAIN queue : queue[i] \in Queued' \/ queue[i] = hand'[w]
    <3> SUFFICES ASSUME NEW i \in 1..Len(queue), i # 1
                 PROVE  queue[i] \in Queued'
      BY <1>1, <2>1
    <3>1. i - 1 \in DOMAIN queue' /\ queue'[i - 1] = queue[i]
      BY <1>1, <2>1
    <3>2. QED  BY <3>1
  <2>3. hand'[w] \in Hands'
    BY <1>1, <2>1 DEF S!Items
  <2>4. \A v \in Writers : hand[v] # 0 => hand[v] \in Hands'
    BY <1>1, <2>1
  <2> HIDE DEF Hands
  <2>5. Queued \subseteq Queued' \cup Hands'  BY <2>2, <2>3
  <2>6. Hands \subseteq Hands'  BY <2>4 DEF Hands
  <2>7. UNCHANGED S!Over  BY <2>1 DEF S!Over, S!D!Settled
  <2>8. QED  BY <1>3, <2>5, <2>6, <2>7 DEF Sent, InFlight, Hands
<1>4. ASSUME NEW w \in Writers, S!TakeClosed(w), UNCHANGED lost
      PROVE  Sent \subseteq Sent'
  <2>1. /\ queue # <<>> /\ queue' = Tail(queue)
        /\ dropped' = dropped \cup {Head(queue)}
        /\ UNCHANGED <<hand, delivered, refused>>
    BY <1>4 DEF S!TakeClosed, S!workVars
  <2>2. \A i \in DOMAIN queue : queue[i] \in Queued' \/ queue[i] = Head(queue)
    <3>1. Head(queue) = queue[1] /\ DOMAIN queue = 1..Len(queue)
      BY <1>1
    <3> SUFFICES ASSUME NEW i \in 1..Len(queue), i # 1
                 PROVE  queue[i] \in Queued'
      BY <3>1 DEF Hands
    <3>2. i - 1 \in DOMAIN queue' /\ queue'[i - 1] = queue[i]
      BY <1>1, <2>1
    <3>3. QED  BY <3>2
  <2>3. S!Over \cup {Head(queue)} \subseteq S!Over'
    BY <2>1 DEF S!Over, S!D!Settled
  <2>4. Queued \subseteq Queued' \cup S!Over'  BY <2>2, <2>3
  <2>5. QED  BY <1>4, <2>1, <2>3, <2>4 DEF Sent, InFlight
<1>5. ASSUME NEW w \in Writers, S!Send(w) \/ S!SendRefused(w) \/ S!SendFails(w),
             UNCHANGED lost
      PROVE  Sent \subseteq Sent'
  <2>1. /\ hand' = [hand EXCEPT ![w] = 0] /\ UNCHANGED queue
        /\ \/ delivered' = Append(delivered, hand[w]) /\ UNCHANGED <<dropped, refused>>
           \/ refused' = refused \cup {hand[w]} /\ UNCHANGED <<delivered, dropped>>
           \/ dropped' = dropped \cup {hand[w]} /\ UNCHANGED <<delivered, refused>>
        /\ hand[w] \in S!Items
    BY <1>1, <1>5
       DEF S!Send, S!SendRefused, S!SendFails, S!Release, SinkInv, S!HandInv, S!Items
  <2>2. S!Over \cup {hand[w]} \subseteq S!Over'
    <3>1. CASE delivered' = Append(delivered, hand[w]) /\ UNCHANGED <<dropped, refused>>
      <4>1. \A i \in DOMAIN delivered : i \in DOMAIN delivered'
                                          /\ delivered'[i] = delivered[i]
        BY <1>1, <2>1, <3>1
      <4>2. /\ Len(delivered) + 1 \in DOMAIN delivered'
            /\ delivered'[Len(delivered) + 1] = hand[w]
        BY <1>1, <2>1, <3>1
      <4>3. S!D!ToSet(delivered) \cup {hand[w]} \subseteq S!D!ToSet(delivered)'
        BY <4>1, <4>2 DEF S!D!ToSet
      <4>4. QED  BY <3>1, <4>3 DEF S!Over, S!D!Settled
    <3>2. CASE refused' = refused \cup {hand[w]} /\ UNCHANGED <<delivered, dropped>>
      BY <3>2 DEF S!Over, S!D!Settled
    <3>3. CASE dropped' = dropped \cup {hand[w]} /\ UNCHANGED <<delivered, refused>>
      BY <3>3 DEF S!Over, S!D!Settled
    <3>4. QED  BY <2>1, <3>1, <3>2, <3>3
  <2>3. \A v \in Writers : v # w => hand'[v] = hand[v]
    BY <1>1, <2>1
  <2>4. Hands \subseteq Hands' \cup {hand[w]}  BY <2>3
  <2>5. QED  BY <1>5, <2>1, <2>2, <2>4 DEF Sent, InFlight
<1>6. CASE End
  BY <1>6 DEF End, S!ProcessEnds, S!workVars, S!fateVars, Sent, InFlight, S!Over,
              S!D!Settled
<1>7. CASE UNCHANGED <<queue, hand, delivered, dropped, refused, lost>>
  BY <1>7 DEF Sent, InFlight, S!Over, S!D!Settled
<1>8. QED
  BY <1>2, <1>3, <1>4, <1>5, <1>6, <1>7
     DEF Next, WatchStep, SinkStep, Persist, vars, queueVars, S!WriterStep,
         S!WriterStart, S!OpenFails, S!StopCalled, S!StopReturns, S!workVars, S!fateVars

\* What was sent was put: it keeps its version.
LEMMA SentKnown ==
    ASSUME TypeOK, SinkInv, [Next]_vars
    PROVE  \A n \in Sent : n \in 1..put /\ version'[n] = version[n]
<1>1. version \in Seq(emitted) /\ Len(version) = put /\ put \in Nat
  BY InFlightWasPut DEF TypeOK
<1>2. Sent \subseteq 1..put
  BY InFlightWasPut DEF TypeOK, Sent
<1>3. CASE Publish
  <2>1. PICK e \in todo : version' = Append(version, e)
    BY <1>3, Published DEF TypeOK
  <2>2. \A n \in 1..put : version'[n] = version[n]  BY <1>1, <2>1
  <2>3. QED  BY <1>2, <2>2
<1>4. CASE UNCHANGED version  BY <1>2, <1>4
<1>5. QED
  BY <1>3, <1>4 DEF Next, WatchStep, SinkStep, Persist, End, Resume, vars

\* Nomad's changes stay.
LEMMA LogGrows ==
    ASSUME TypeOK, [Next]_vars
    PROVE  /\ Len(log) \in Nat /\ Len(log') \in Nat /\ Len(log') >= Len(log)
           /\ \A j \in 1..Len(log) : log'[j] = log[j]
<1>1. log \in Seq(W!Changes)  BY DEF TypeOK, W!TypeOK
<1>2. CASE W!Change
  <2>1. PICK c \in W!Changes : log' = Append(log, c)
    BY <1>2 DEF W!Change
  <2>2. QED  BY <1>1, <2>1
<1>3. CASE UNCHANGED log  BY <1>1, <1>3
<1>4. QED
  BY <1>2, <1>3
     DEF Next, WatchStep, Publish, SinkStep, Persist, End, Resume, vars, watchVars,
         W!List, W!ListAt, W!Visit, W!Commit, W!Persist, W!Restart, W!nomadVars

\* A change that was reached stays so, up to the same version or a later one.
LEMMA ReachedStays ==
    ASSUME TypeOK, SinkInv, [Next]_vars, ~Resume,
           NEW j \in 1..Len(log), NEW m \in Nat, NEW k \in Nat, m <= k,
           Reached(j, m)
    PROVE  Reached(j, k)'
<1>1. ASSUME NEW n \in Sent, version[n][1] = log[j].obj, version[n][2] \in j..m
      PROVE  Reached(j, k)'
  <2>1. n \in Sent' /\ version'[n] = version[n] /\ log'[j] = log[j]
    BY SentStays, SentKnown, LogGrows
  <2>2. version[n][2] \in j..k  BY <1>1, LogGrows
  <2>3. QED  BY <1>1, <2>1, <2>2 DEF Reached
<1>2. ASSUME NEW d \in j..Len(log), log[d].obj = log[j].obj, log[d].gone
      PROVE  Reached(j, k)'
  <2>1. d \in j..Len(log') /\ log'[d] = log[d] /\ log'[j] = log[j]
    BY LogGrows
  <2>2. QED  BY <1>2, <2>1 DEF Reached
<1>3. QED  BY <1>1, <1>2 DEF Reached

\* What IndexWatchProofs shows of a list.
LEMMA ListShows ==
    ASSUME W!TypeOK, NEW k \in 0..Len(log), NEW j \in 1..k
    PROVE  \/ j <= lastChange
           \/ \E d \in j..Len(log) : log[d].obj = log[j].obj /\ log[d].gone
           \/ \E e \in W!Table(k) : W!Selected(e[2]) /\ e[1] = log[j].obj /\ e[2] >= j
BY WP!ListShows, SameWatch, SameTable, PipelineAssumption
   DEF WP!WatchProfiles

\* The last change moves over changes that were put in the sink only, and a process
\* ends only with what is not saved, or counted as lost.
LEMMA SavedStep ==
    ASSUME TypeOK, WatchInv, SinkInv, SavedInv, [Next]_vars
    PROVE  SavedInv'
<1> DEFINE ToVisit(j) == \E e \in todo : e[1] = log[j].obj /\ e[2] >= j
<1>n. /\ saved \in Nat /\ lastChange \in Nat /\ newMax \in Nat
      /\ lastIndex \in Nat /\ Len(log) \in Nat /\ up \in BOOLEAN
  BY PipelineAssumption DEF TypeOK, W!TypeOK, W!Indices, S!TypeOK
<1>a. /\ saved <= lastChange /\ lastChange <= newMax /\ newMax <= Len(log)
      /\ newMax = lastChange \/ (at = "visit" /\ newMax <= lastIndex)
      /\ lastIndex <= Len(log)
  BY DEF WatchInv, W!AheadInv, W!KnownInv
<1>i. /\ 1..saved \subseteq 1..Len(log) /\ 1..lastChange \subseteq 1..Len(log)
      /\ 1..lastIndex \subseteq 1..Len(log)
  BY <1>n, <1>a
<1>s. ASSUME ~Resume, UNCHANGED saved
      PROVE  \A j \in 1..saved' : Reached(j, saved)'
  <2>1. PICK m \in Nat : m = saved  BY <1>n
  <2>2. \A j \in 1..m : Reached(j, m)'
    BY <1>i, <1>s, <2>1, ReachedStays DEF SavedInv
  <2>3. QED  BY <1>s, <2>1, <2>2 DEF Reached
<1>c. ASSUME ~Resume, UNCHANGED lastChange, up
      PROVE  \A j \in 1..lastChange' : Reached(j, lastChange)'
  <2>1. PICK m \in Nat : m = lastChange  BY <1>n
  <2>2. \A j \in 1..m : Reached(j, m)'
    BY <1>i, <1>c, <2>1, ReachedStays DEF SavedInv
  <2>3. QED  BY <1>c, <2>1, <2>2 DEF Reached
<1>v. ASSUME ~Resume, up, at = "visit", UNCHANGED <<lastIndex, newMax, todo>>
      PROVE  \A j \in 1..lastIndex' : Reached(j, newMax)' \/ ToVisit(j)'
  <2>1. PICK m \in Nat : m = newMax  BY <1>n
  <2>2. ASSUME NEW j \in 1..lastIndex
        PROVE  Reached(j, m)' \/ ToVisit(j)'
    <3>1. j \in 1..Len(log)  BY <1>i
    <3>2. CASE Reached(j, newMax)
      BY <1>v, <2>1, <3>1, <3>2, ReachedStays
    <3>3. CASE ToVisit(j)
      <4>1. log'[j] = log[j]  BY <3>1, LogGrows
      <4>2. QED  BY <1>v, <3>3, <4>1
    <3>4. QED  BY <1>v, <3>2, <3>3 DEF SavedInv
  <2>3. QED  BY <1>v, <2>1, <2>2 DEF Reached
<1>1. CASE W!Change /\ UNCHANGED <<queueVars, version, lost>>
  <2>1. ~Resume /\ UNCHANGED <<saved, at, lastIndex, todo, lastChange, newMax, up>>
    BY <1>1 DEF W!Change, W!watchVars, W!savedVars, Resume, W!Restart, queueVars, TypeOK,
                W!TypeOK
  <2>2. Exposed' = Exposed /\ lost' = lost
    BY <1>1, <2>1 DEF queueVars, Exposed, InFlight
  <2>3. QED
    BY <1>s, <1>c, <1>v, <2>1, <2>2 DEF SavedInv
<1>2. ASSUME NEW k \in 0..Len(log), W!ListAt(k), up,
             UNCHANGED <<queueVars, version, lost>>
      PROVE  SavedInv'
  <2>1. /\ lastIndex' = k /\ at' = "visit" /\ at = "list" /\ up' /\ up
        /\ todo' = {e \in W!Table(k) : W!Selected(e[2])}
        /\ UNCHANGED <<log, saved, lastChange, newMax>>
    BY <1>2 DEF W!ListAt, W!nomadVars, W!savedVars, queueVars
  <2>2. ~Resume  BY <2>1 DEF Resume
  <2>3. newMax = lastChange  BY <1>a, <2>1
  <2>4. PICK m \in Nat : m = newMax  BY <1>n
  <2>5. ASSUME NEW j \in 1..k
        PROVE  Reached(j, m)' \/ ToVisit(j)'
    <3>1. j \in 1..Len(log) /\ j \in Nat  BY <1>n
    <3>2. CASE j <= lastChange
      <4>1. Reached(j, m)
        BY <1>n, <2>1, <2>3, <2>4, <3>1, <3>2 DEF SavedInv
      <4>2. QED  BY <2>2, <3>1, <4>1, ReachedStays
    <3>3. CASE \E d \in j..Len(log) : log[d].obj = log[j].obj /\ log[d].gone
      <4>1. Reached(j, m)  BY <3>3 DEF Reached
      <4>2. QED  BY <2>2, <3>1, <4>1, ReachedStays
    <3>4. CASE \E e \in W!Table(k) :
                  W!Selected(e[2]) /\ e[1] = log[j].obj /\ e[2] >= j
      BY <2>1, <3>4
    <3>5. QED  BY <3>2, <3>3, <3>4, ListShows DEF TypeOK
  <2>6. \A j \in 1..lastIndex' : Reached(j, newMax)' \/ ToVisit(j)'
    BY <2>1, <2>4, <2>5 DEF Reached
  <2>7. QED  BY <1>s, <1>c, <2>1, <2>2, <2>6 DEF SavedInv
<1>3. CASE Publish
  <2>1. PICK e \in todo :
          /\ todo' = todo \ {e}
          /\ newMax' = IF e[2] > newMax THEN e[2] ELSE newMax
          /\ put' = put + 1
          /\ queue' = Append(queue, put + 1)
          /\ version' = Append(version, e)
          /\ at = "visit" /\ up
          /\ UNCHANGED <<log, at, lastIndex, lastChange, saved, up>>
    BY <1>3, Published DEF TypeOK
  <2>2. ~Resume  BY <2>1 DEF Resume
  <2>3. e[2] \in Nat  BY DEF TypeOK, W!TypeOK, W!Versions
  <2>4. PICK m \in Nat : m = newMax'  BY <1>n, <2>1, <2>3
  <2>5. newMax <= m /\ e[2] <= m  BY <1>n, <2>1, <2>3, <2>4
  <2>6. put + 1 \in Sent' /\ version'[put + 1] = e
    <3>1. /\ queue \in Seq(S!Items) /\ put \in Nat
          /\ version \in Seq(emitted) /\ Len(version) = put
      BY InFlightWasPut DEF TypeOK, S!TypeOK
    <3>2. Len(queue) + 1 \in DOMAIN queue' /\ queue'[Len(queue) + 1] = put + 1
      BY <2>1, <3>1
    <3>3. version'[put + 1] = e  BY <2>1, <3>1
    <3>4. QED  BY <3>2, <3>3 DEF Sent, InFlight
  <2>7. ASSUME NEW j \in 1..lastIndex
        PROVE  Reached(j, m)' \/ ToVisit(j)'
    <3>1. j \in 1..Len(log) /\ j \in Nat  BY <1>i
    <3>2. CASE Reached(j, newMax)
      BY <1>n, <2>2, <2>5, <3>1, <3>2, ReachedStays
    <3>3. ASSUME NEW d \in todo, d[1] = log[j].obj, d[2] >= j
          PROVE  Reached(j, m)' \/ ToVisit(j)'
      <4>1. CASE d = e
        <5>1. e[2] \in j..m  BY <2>3, <2>5, <3>1, <3>3, <4>1
        <5>2. QED  BY <2>1, <2>6, <3>3, <4>1, <5>1 DEF Reached
      <4>2. CASE d # e  BY <2>1, <3>3, <4>2
      <4>3. QED  BY <4>1, <4>2
    <3>4. QED  BY <2>1, <3>2, <3>3 DEF SavedInv
  <2>8. \A j \in 1..lastIndex' : Reached(j, newMax)' \/ ToVisit(j)'
    BY <2>1, <2>4, <2>7 DEF Reached
  <2>9. QED  BY <1>s, <1>c, <2>1, <2>2, <2>8 DEF SavedInv
<1>4. CASE W!Commit /\ up /\ UNCHANGED <<queueVars, version, lost>>
  <2>1. /\ lastChange' = newMax /\ at = "visit" /\ at' = "list" /\ todo = {}
        /\ up /\ up' /\ UNCHANGED saved
    BY <1>4 DEF W!Commit, W!savedVars, queueVars
  <2>2. ~Resume  BY <2>1 DEF Resume
  <2>3. PICK m \in Nat : m = newMax  BY <1>n
  <2>4. ASSUME NEW j \in 1..m
        PROVE  Reached(j, m)'
    <3>1. j \in 1..Len(log)  BY <1>n, <1>a, <2>3
    <3>2. Reached(j, m)
      <4>1. CASE newMax = lastChange
        BY <2>1, <2>3, <4>1 DEF SavedInv
      <4>2. CASE newMax <= lastIndex
        <5>1. j \in 1..lastIndex  BY <1>n, <2>3, <4>2
        <5>2. QED  BY <2>1, <2>3, <5>1 DEF SavedInv
      <4>3. QED  BY <1>a, <4>1, <4>2
    <3>3. QED  BY <2>2, <3>1, <3>2, ReachedStays
  <2>5. \A j \in 1..lastChange' : Reached(j, lastChange)'
    BY <2>1, <2>3, <2>4 DEF Reached
  <2>6. QED  BY <1>s, <2>1, <2>2, <2>5 DEF SavedInv
<1>5. CASE SinkStep \/ Persist \/ UNCHANGED vars
  <2>1. /\ UNCHANGED <<at, lastIndex, todo, lastChange, newMax, up, version, lost>>
        /\ UNCHANGED saved \/ (up /\ saved' = lastChange)
        /\ ~up => UNCHANGED <<queue, hand, saved>>
    BY <1>5
       DEF SinkStep, Persist, vars, watchVars, queueVars, W!Persist, W!nomadVars,
           W!watchVars, S!WriterStep, S!WriterStart, S!OpenFails, S!Take,
           S!TakeClosed, S!Send, S!SendRefused, S!SendFails, S!Release,
           S!StopCalled, S!StopReturns, S!workVars,
           S!fateVars, S!stopVars
  <2>2. ~Resume  BY <1>n, <2>1 DEF Resume
  <2>3. ~up => Exposed' = Exposed
    BY <2>1 DEF Exposed, InFlight
  <2>4. \A j \in 1..saved' : Reached(j, saved)'
    <3>1. CASE UNCHANGED saved  BY <1>s, <2>2, <3>1
    <3>2. CASE up /\ saved' = lastChange
      BY <1>c, <2>1, <2>2, <3>2 DEF Reached
    <3>3. QED  BY <2>1, <3>1, <3>2
  <2>5. QED  BY <1>c, <1>v, <2>1, <2>2, <2>3, <2>4 DEF SavedInv
<1>6. CASE End
  <2>1. /\ up' = FALSE /\ lost' = lost \cup Exposed
        /\ UNCHANGED <<queue, hand, version, saved>>
    BY <1>6 DEF End, S!ProcessEnds, S!workVars, watchVars
  <2>2. ~Resume  BY <2>1 DEF Resume
  <2>3. Exposed' = Exposed  BY <2>1 DEF Exposed, InFlight
  <2>4. QED  BY <1>s, <2>1, <2>2, <2>3 DEF SavedInv
<1>7. CASE Resume
  <2>1. /\ ~up /\ up' = TRUE /\ at' = "list" /\ lastChange' = saved
        /\ UNCHANGED <<log, saved, version, lost, delivered, dropped, refused>>
    BY <1>7 DEF Resume, W!Restart, W!nomadVars
  <2>2. ASSUME NEW j \in 1..saved
        PROVE  Reached(j, saved)'
    <3>1. CASE \E d \in j..Len(log) : log[d].obj = log[j].obj /\ log[d].gone
      BY <2>1, <3>1 DEF Reached
    <3>2. ASSUME NEW n \in Sent, version[n][1] = log[j].obj,
                 version[n][2] \in j..saved
          PROVE  Reached(j, saved)'
      <4>1. n \in InFlight => n \in lost
        BY <1>n, <2>1, <3>2 DEF SavedInv, Exposed
      <4>2. n \in Sent'
        BY <2>1, <4>1 DEF Sent, S!Over, S!D!Settled
      <4>3. QED  BY <2>1, <3>2, <4>2 DEF Reached
    <3>3. QED  BY <3>1, <3>2 DEF SavedInv, Reached
  <2>3. QED  BY <2>1, <2>2 DEF SavedInv, Reached
<1>8. QED
  BY <1>1, <1>2, <1>3, <1>4, <1>5, <1>6, <1>7 DEF Next, WatchStep, W!List

\* The invariants that the theorems below rest on.
LEMMA Invariants == Spec => [](TypeOK /\ WatchInv /\ SinkInv /\ SavedInv)
<1>1. Init => SavedInv
  BY DEF Init, W!Init, S!Init, SavedInv
<1>2. QED  BY <1>1, TypeCorrect, SavedStep, PTL DEF Spec

\* From end to end, and through any number of restarts, every change below the
\* restore point was sent on, is on its way, or is one of those that a process took
\* with it (of which LossIsBounded speaks), unless its object was deleted since.
THEOREM Resumes == Spec => []ResumesWhereItLeftOff
<1>1. TypeOK /\ SinkInv /\ SavedInv => ResumesWhereItLeftOff
  <2> SUFFICES ASSUME SavedInv, saved \in Nat, NEW j \in 1..saved
               PROVE  Far!Delivered(j)
    BY PipelineAssumption DEF ResumesWhereItLeftOff, TypeOK, W!TypeOK, W!Indices
  <2>1. CASE \E d \in j..Len(log) : log[d].obj = log[j].obj /\ log[d].gone
    BY <2>1 DEF Far!Delivered
  <2>2. ASSUME NEW n \in Sent, version[n][1] = log[j].obj,
               version[n][2] \in j..saved
        PROVE  Far!Delivered(j)
    BY <2>2 DEF Far!Delivered
  <2>3. QED  BY <2>1, <2>2 DEF SavedInv, Reached
<1>2. QED  BY <1>1, Invariants, PTL

-----------------------------------------------------------------------------
(* The sinks of all processes together implement Delivery.                 *)

\* Delivery as QueueSinkProofs sees it.
LEMMA SameDelivery == [S!D!Next]_(S!D!vars) <=> [SP!D!Next]_(SP!D!vars)
<1>1. (UNCHANGED S!D!vars) <=> (UNCHANGED SP!D!vars)  BY DEF S!D!vars, SP!D!vars
<1>2. S!D!Accept <=> SP!D!Accept  BY DEF S!D!Accept, SP!D!Accept
<1>3. S!Cardinality(Writers) = SP!Cardinality(Writers)
  BY DEF S!Cardinality, SP!Cardinality
<1>4. S!D!OneFate' <=> SP!D!OneFate'
  BY DEF S!D!OneFate, SP!D!OneFate, S!D!Settled, SP!D!Settled, S!D!ToSet, SP!D!ToSet,
         S!D!IsInjective, SP!D!IsInjective
<1>5. S!D!InOrder' <=> SP!D!InOrder'  BY DEF S!D!InOrder, SP!D!InOrder
<1>6. S!D!IsPrefix(delivered, delivered') <=> SP!D!IsPrefix(delivered, delivered')
  BY DEF S!D!IsPrefix, SP!D!IsPrefix
<1>7. S!D!Settle <=> SP!D!Settle
  BY <1>3, <1>4, <1>5, <1>6 DEF S!D!Settle, SP!D!Settle
<1>8. QED  BY <1>1, <1>2, <1>7 DEF S!D!Next, SP!D!Next

\* No item of any process is sent twice, or sent and dropped, and one writer keeps
\* their order: a restart sends no item of the process before it.
THEOREM Implements == Spec => ImplementsDelivery
<1>1. Init => S!D!Init
  BY DEF Init, S!Init, S!D!Init
<1>2. TypeOK /\ SinkInv /\ SinkInv' /\ [Next]_vars => [S!D!Next]_(S!D!vars)
  <2> SUFFICES ASSUME TypeOK, SinkInv, SinkInv', [Next]_vars
               PROVE  [S!D!Next]_(S!D!vars)
    OBVIOUS
  <2>1. CASE Resume
    BY <2>1 DEF Resume, S!D!vars
  <2>2. CASE [S!Next]_(S!vars)
    <3>1. SP!TypeOK /\ SP!HandInv /\ [SP!Next]_(SP!vars)
      BY <2>2, SameSink, SameSinkStep DEF TypeOK, SinkInv
    <3>2. SP!FateInv' /\ SP!OrderInv'
      BY SameSink, PTL DEF SinkInv
    <3>3. [SP!D!Next]_(SP!D!vars)
      BY <3>1, <3>2, SP!ImplementsStep, SinkConstants
    <3>4. QED  BY <3>3, SameDelivery
  <2>3. QED  BY <2>1, <2>2, ComponentSteps
<1>3. QED
  BY <1>1, <1>2, Invariants, PTL
     DEF Spec, ImplementsDelivery, S!ImplementsDelivery, S!D!Spec
=============================================================================
