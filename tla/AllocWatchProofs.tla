-------------------------- MODULE AllocWatchProofs --------------------------
(***************************************************************************)
(* Theorems about AllocWatch, for any number of events, times and restarts.*)
(***************************************************************************)
EXTENDS AllocWatch, TLAPS

-----------------------------------------------------------------------------
(* Type correctness.                                                       *)

\* Every variable of AllocWatch keeps its type, and what the process holds is
\* known to Nomad.
LEMMA TypeStep ==
    ASSUME TypeOK, KnownInv, [Next]_vars
    PROVE  TypeOK' /\ KnownInv'
<1> USE AllocWatchAssumption
    DEF TypeOK, KnownInv, Times, Events, watchVars, sinkVars, savedVars
<1>1. CASE Event
  <2>1. PICK t \in Times : time' = Append(time, t)
    BY <1>1 DEF Event
  <2>2. time' \in Seq(Times) /\ Len(time') = Len(time) + 1
    BY <2>1
  <2>3. Len(time') <= MaxEvents  BY <1>1, <2>2 DEF Event
  <2>4. UNCHANGED <<watchVars, sinkVars, savedVars>>  BY <1>1 DEF Event
  <2>5. 1..Len(time) \subseteq 1..Len(time')  BY <2>2
  <2>6. QED  BY <2>2, <2>3, <2>4, <2>5
<1>2. ASSUME NEW k \in 0..Len(time), ListAt(k)
      PROVE  TypeOK' /\ KnownInv'
  BY <1>2 DEF ListAt
<1>3. CASE Visit
  <2>1. PICK e \in todo : /\ todo' = todo \ {e}
                          /\ newMax' = IF time[e] > newMax THEN time[e] ELSE newMax
                          /\ emitted' = emitted \cup {e}
                          /\ mine' = mine \cup {e}
    BY <1>3 DEF Visit
  <2>2. e \in 1..Len(time) /\ e \in Events  BY <1>3 DEF Visit
  <2>3. newMax' \in 0..MaxTime  BY <2>1, <2>2
  <2>4. QED  BY <1>3, <2>1, <2>2, <2>3 DEF Visit
<1>4. CASE Commit  BY <1>4 DEF Commit
<1>5. CASE Persist  BY <1>5 DEF Persist
<1>6. CASE Restart  BY <1>6 DEF Restart
<1>7. CASE UNCHANGED vars  BY <1>7 DEF vars
<1>8. QED  BY <1>1, <1>2, <1>3, <1>4, <1>5, <1>6, <1>7 DEF Next, List

\* Every variable of AllocWatch keeps its type, and no list shows an event that
\* Nomad does not know.
THEOREM TypeCorrect == Spec => [](TypeOK /\ KnownInv)
<1>1. Init => TypeOK /\ KnownInv
  BY AllocWatchAssumption DEF Init, TypeOK, KnownInv, Events
<1>2. QED  BY <1>1, TypeStep, PTL DEF Spec

-----------------------------------------------------------------------------
(* No event twice.                                                         *)

\* The events that reached Nomad have times.
LEMMA TimeTyped ==
    ASSUME TypeOK
    PROVE  \A e \in 1..Len(time) : time[e] \in Nat /\ time[e] > 0
<1>1. time \in Seq(Times)  BY DEF TypeOK
<1>2. \A e \in 1..Len(time) : time[e] \in Times  BY <1>1
<1>3. QED  BY <1>2 DEF Times

\* What is listed after a commit is newer than what the process emitted before.
LEMMA RoundStep ==
    ASSUME TypeOK, KnownInv, RoundInv, [Next]_vars
    PROVE  RoundInv'
<1> USE DEF TypeOK, KnownInv, RoundInv, Times, Events, watchVars, sinkVars, savedVars
<1>1. CASE Event
  <2>1. \A e \in 1..Len(time) : time'[e] = time[e]
    BY <1>1 DEF Event
  <2>2. todo \subseteq 1..Len(time) /\ mine \subseteq 1..Len(time)
    OBVIOUS
  <2>3. QED  BY <1>1, <2>1, <2>2 DEF Event
<1>2. ASSUME NEW k \in 0..Len(time), ListAt(k)
      PROVE  RoundInv'
  <2>1. mine \subseteq 1..Len(time) /\ 1..k \subseteq 1..Len(time)  OBVIOUS
  <2>2. lastChange \in Nat /\ newMax = lastChange  BY <1>2 DEF ListAt
  <2>3. \A e \in mine : ~(time[e] > lastChange)  BY <2>1, <2>2, TimeTyped
  <2>4. todo' \cap mine' = {}  BY <1>2, <2>3 DEF ListAt
  <2>5. QED  BY <1>2, <2>4 DEF ListAt
<1>3. CASE Visit
  <2>1. PICK e \in todo : /\ todo' = todo \ {e}
                          /\ newMax' = IF time[e] > newMax THEN time[e] ELSE newMax
                          /\ mine' = mine \cup {e}
    BY <1>3 DEF Visit
  <2>2. UNCHANGED <<time, lastChange>> /\ todo \subseteq 1..Len(time)
    BY <1>3 DEF Visit
  <2>3. newMax' >= newMax /\ newMax' >= time[e] /\ newMax' \in Int
    BY <2>1, <2>2, TimeTyped
  <2>4. \A d \in mine : time[d] \in Nat
    <3>1. mine \subseteq 1..Len(time)  OBVIOUS
    <3>2. QED  BY <3>1, TimeTyped
  <2>5. QED  BY <2>1, <2>2, <2>3, <2>4
<1>4. CASE Commit  BY <1>4 DEF Commit
<1>5. CASE Persist  BY <1>5 DEF Persist
<1>6. CASE Restart  BY <1>6 DEF Restart
<1>7. CASE UNCHANGED vars  BY <1>7 DEF vars
<1>8. QED  BY <1>1, <1>2, <1>3, <1>4, <1>5, <1>6, <1>7 DEF Next, List

\* A process emits no event twice, in whatever order the events arrive, with
\* whatever times, and however stale the lists are.
THEOREM NoneTwice == Spec => EmittedOnce
<1>1. Init => RoundInv
  BY DEF Init, RoundInv
<1>2. RoundInv /\ [Next]_vars
        => [restarts' = restarts => (todo \ todo') \cap mine = {}]_vars
  BY DEF RoundInv
<1>3. QED  BY <1>1, <1>2, RoundStep, TypeCorrect, PTL DEF Spec, EmittedOnce

-----------------------------------------------------------------------------
(* What is saved was emitted.                                              *)

\* The last change, newMax and the restore point stay times of emitted events.
LEMMA ReachedStep ==
    ASSUME TypeOK, KnownInv, ReachedInv, [Next]_vars
    PROVE  ReachedInv'
<1> USE DEF watchVars, sinkVars, savedVars
<1>1. ASSUME emitted \subseteq emitted', \A e \in emitted : time'[e] = time[e]
      PROVE  \A t : Reached(t) => Reached(t)'
  BY <1>1 DEF Reached
<1>2. CASE Event
  <2>1. \A e \in emitted : time'[e] = time[e]
    BY <1>2 DEF Event, TypeOK, KnownInv
  <2>2. QED  BY <1>1, <1>2, <2>1 DEF Event, ReachedInv
<1>3. ASSUME NEW k \in 0..Len(time), ListAt(k)
      PROVE  ReachedInv'
  BY <1>3 DEF ListAt, ReachedInv, Reached
<1>4. CASE Visit  BY <1>4 DEF Visit, ReachedInv, Reached
<1>5. CASE Commit  BY <1>5 DEF Commit, ReachedInv, Reached
<1>6. CASE Persist  BY <1>6 DEF Persist, ReachedInv, Reached
<1>7. CASE Restart  BY <1>7 DEF Restart, ReachedInv, Reached
<1>8. CASE UNCHANGED vars  BY <1>8 DEF vars, ReachedInv, Reached
<1>9. QED  BY <1>2, <1>3, <1>4, <1>5, <1>6, <1>7, <1>8 DEF Next, List

\* While the events arrive in step, an event that arrives is newer than all that
\* was emitted, so neither the last change nor the restore point passes it.
LEMMA InStepStep ==
    ASSUME TypeOK, KnownInv, RoundInv, ReachedInv, InStepInv, [Next]_vars
    PROVE  InStepInv'
<1> SUFFICES ASSUME InStep'
             PROVE  InStepInv'
  BY DEF InStepInv
<1> USE DEF watchVars, sinkVars, savedVars
<1>t. \A e \in 1..Len(time) : time[e] \in Nat /\ time[e] > 0
  BY TimeTyped
<1>n. /\ lastChange \in Nat /\ newMax \in Nat /\ saved \in Nat
      /\ lastIndex \in Nat /\ lastIndex - 1 \in Nat
  BY AllocWatchAssumption DEF TypeOK
<1>1. CASE Event
  <2>1. PICK t \in Times : time' = Append(time, t)
    BY <1>1 DEF Event
  <2>2. /\ Len(time') = Len(time) + 1
        /\ Len(time) \in Nat
        /\ \A e \in 1..Len(time) : time'[e] = time[e]
        /\ time'[Len(time) + 1] = t
    BY <2>1 DEF TypeOK
  <2>3. InStep
    BY <2>2 DEF InStep
  <2>4. UNCHANGED <<watchVars, sinkVars, savedVars>>  BY <1>1 DEF Event
  <2>5. t \in Nat /\ t > 0  BY DEF Times
  <2>6. \A e \in emitted : time[e] < t
    <3>1. emitted \subseteq 1..Len(time)  BY DEF KnownInv
    <3>2. \A e \in 1..Len(time) : time'[e] < time'[Len(time) + 1]
      BY <2>2 DEF InStep
    <3>3. QED  BY <2>2, <3>1, <3>2
  <2>7. t > saved /\ t > lastChange
    BY <2>5, <2>6 DEF ReachedInv, Reached
  <2>8. \A e \in 1..Len(time') :
            time'[e] <= saved \/ time'[e] <= lastChange => e \in emitted
    <3> SUFFICES ASSUME NEW e \in 1..Len(time'),
                        time'[e] <= saved \/ time'[e] <= lastChange
                 PROVE  e \in emitted
      OBVIOUS
    <3>1. CASE e = Len(time) + 1  BY <1>n, <2>2, <2>5, <2>7, <3>1
    <3>2. CASE e \in 1..Len(time)  BY <2>2, <2>3, <3>2 DEF InStepInv
    <3>3. QED  BY <2>2, <3>1, <3>2
  <2>9. newMax = lastChange \/ \E e \in 1..(lastIndex - 1) : time'[e] = newMax
    BY <2>2, <2>3, <1>n DEF InStepInv, KnownInv
  <2>10. QED  BY <2>3, <2>4, <2>8, <2>9 DEF InStepInv
<1>2. ASSUME NEW k \in 0..Len(time), ListAt(k)
      PROVE  InStepInv'
  <2>1. 1..k \subseteq 1..Len(time) /\ lastIndex' - 1 = k
    BY <1>2 DEF ListAt
  <2>2. 1..k \subseteq emitted \cup todo'
    BY <1>2, <1>n, <1>t, <2>1 DEF ListAt, InStepInv, InStep
  <2>3. QED  BY <1>2, <2>1, <2>2 DEF ListAt, InStepInv, InStep, KnownInv
<1>3. CASE Visit
  <2>1. PICK e \in todo : /\ todo' = todo \ {e}
                          /\ newMax' = IF time[e] > newMax THEN time[e] ELSE newMax
                          /\ emitted' = emitted \cup {e}
    BY <1>3 DEF Visit
  <2>2. /\ UNCHANGED <<time, at, lastIndex, lastChange, saved>>
        /\ at = "visit"
        /\ todo \subseteq 1..(lastIndex - 1)
        /\ InStep
    BY <1>3 DEF Visit, KnownInv, InStep
  <2>3. 1..(lastIndex' - 1) \subseteq emitted' \cup todo'
    BY <2>1, <2>2 DEF InStepInv
  <2>4. newMax' = lastChange' \/ \E d \in 1..(lastIndex' - 1) : time'[d] = newMax'
    BY <2>1, <2>2 DEF InStepInv
  <2>5. QED  BY <2>1, <2>2, <2>3, <2>4 DEF InStepInv
<1>4. CASE Commit
  <2>1. /\ UNCHANGED <<time, lastIndex, newMax, emitted, saved>>
        /\ lastChange' = newMax /\ at' = "list"
        /\ at = "visit" /\ todo = {}
        /\ InStep
    BY <1>4 DEF Commit, InStep
  <2>2. \A d \in 1..Len(time) : time[d] <= newMax => d \in emitted
    <3> SUFFICES ASSUME NEW d \in 1..Len(time), time[d] <= newMax
                 PROVE  d \in emitted
      OBVIOUS
    <3>1. CASE newMax = lastChange  BY <2>1, <3>1 DEF InStepInv
    <3>2. CASE newMax # lastChange
      <4>1. PICK e \in 1..(lastIndex - 1) : time[e] = newMax
        BY <2>1, <3>2 DEF InStepInv
      <4>2. e \in 1..Len(time)  BY <1>n DEF KnownInv, TypeOK
      <4>3. ~(e < d)  BY <2>1, <4>1, <4>2, <1>t DEF InStep
      <4>4. d \in 1..(lastIndex - 1)  BY <1>n, <4>1, <4>3
      <4>5. QED  BY <2>1, <4>4 DEF InStepInv
    <3>3. QED  BY <3>1, <3>2
  <2>3. QED  BY <2>1, <2>2 DEF InStepInv
<1>5. CASE Persist  BY <1>5 DEF Persist, InStepInv, InStep
<1>6. CASE Restart  BY <1>6 DEF Restart, InStepInv, InStep
<1>7. CASE UNCHANGED vars  BY <1>7 DEF vars, InStepInv, InStep
<1>8. QED  BY <1>1, <1>2, <1>3, <1>4, <1>5, <1>6, <1>7 DEF Next, List

\* As long as events reach Nomad in the order of their times, a restart loses none,
\* for any number of events and restarts: those up to the restore point were
\* emitted, although the lists are stale and the process may end anywhere.
THEOREM RestartLosesNone == Spec => []SavedMeansEmitted
<1>1. Init => RoundInv /\ ReachedInv /\ InStepInv
  BY DEF Init, RoundInv, ReachedInv, Reached, InStepInv
<1>2. /\ TypeOK /\ KnownInv /\ RoundInv /\ ReachedInv /\ InStepInv
      /\ [Next]_vars
      => RoundInv' /\ ReachedInv' /\ InStepInv'
  BY RoundStep, ReachedStep, InStepStep
<1>3. InStepInv => SavedMeansEmitted
  BY DEF InStepInv, SavedMeansEmitted
<1>4. QED  BY <1>1, <1>2, <1>3, TypeCorrect, PTL DEF Spec
=============================================================================
