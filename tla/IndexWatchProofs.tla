-------------------------- MODULE IndexWatchProofs --------------------------
(***************************************************************************)
(* Theorems about IndexWatch, for any objects, any number of changes and   *)
(* restarts, and the firehoses that their hypotheses name.                 *)
(***************************************************************************)
EXTENDS IndexWatch, WellFoundedInduction, TLAPS

-----------------------------------------------------------------------------
(* The table that a list shows.                                            *)

\* A non-empty set of naturals with a bound has a maximum: Max returns it.
LEMMA MaxInSet ==
    ASSUME NEW S \in SUBSET Nat, NEW n \in Nat, \A s \in S : s <= n, S # {}
    PROVE  Max(S) \in S /\ \A s \in S : Max(S) >= s
<1> DEFINE T == {n - s : s \in S}
           Less == OpToRel(<, Nat)
<1>0. \A s \in S : s \in Nat /\ n - s \in Nat  OBVIOUS
<1>1. T \subseteq Nat /\ T # {}  BY <1>0
<1>2. PICK t \in T : \A u \in T : <<u, t>> \notin Less
  <2>1. IsWellFoundedOn(Less, Nat)  BY NatLessThanWellFounded
  <2> HIDE DEF T, Less
  <2>2. QED  BY <1>1, <2>1, WFMin
<1>3. \A u \in T : ~(u < t)
  BY <1>1, <1>2 DEF OpToRel
<1>4. PICK m \in S : t = n - m  OBVIOUS
<1>5. ASSUME NEW s \in S
      PROVE  m >= s
  <2>1. n - s \in T  OBVIOUS
  <2>2. ~(n - s < n - m)  BY <1>3, <1>4, <2>1
  <2>3. s \in Nat /\ m \in Nat  BY <1>0
  <2>4. QED  BY ONLY <2>2, <2>3, n \in Nat
<1>6. QED  BY <1>5 DEF Max

\* The last index up to k at which the object changed, or 0.
Last(o, k) == Max({0} \cup {j \in 1..k : log[j].obj = o})

\* It is where ModifyIndex looks.
LEMMA LastIs ==
    ASSUME NEW o, NEW k \in Nat
    PROVE  /\ Last(o, k) \in 0..k
           /\ Last(o, k) > 0 => log[Last(o, k)].obj = o
           /\ \A j \in 1..k : log[j].obj = o => j <= Last(o, k)
<1> DEFINE S == {0} \cup {j \in 1..k : log[j].obj = o}
<1>1. S \in SUBSET Nat /\ S # {} /\ \A s \in S : s <= k  OBVIOUS
<1>2. Max(S) \in S /\ \A s \in S : Max(S) >= s
  <2> HIDE DEF S
  <2>1. QED  BY <1>1, MaxInSet
<1>3. Last(o, k) = Max(S)  BY DEF Last
<1>4. QED  BY <1>2, <1>3

\* A list shows of an object the last version that Nomad had as of its index.
LEMMA ModifyIndexLast ==
    ASSUME NEW o, NEW k \in Nat
    PROVE  /\ ModifyIndex(o, k) \in 0..k
           /\ ModifyIndex(o, k) > 0 =>
                 /\ log[ModifyIndex(o, k)].obj = o
                 /\ ~log[ModifyIndex(o, k)].gone
                 /\ \A j \in 1..k : log[j].obj = o => j <= ModifyIndex(o, k)
<1>1. ModifyIndex(o, k)
        = IF Last(o, k) > 0 /\ log[Last(o, k)].gone THEN 0 ELSE Last(o, k)
  BY DEF ModifyIndex, Last
<1>2. QED  BY <1>1, LastIs

\* An object that a list does not show was deleted after its last change.
LEMMA ModifyIndexGone ==
    ASSUME NEW o, NEW k \in Nat, ModifyIndex(o, k) = 0,
           NEW j \in 1..k, log[j].obj = o
    PROVE  \E d \in j..k : log[d].obj = o /\ log[d].gone
<1>1. ModifyIndex(o, k)
        = IF Last(o, k) > 0 /\ log[Last(o, k)].gone THEN 0 ELSE Last(o, k)
  BY DEF ModifyIndex, Last
<1>2. Last(o, k) \in 0..k /\ j <= Last(o, k)  BY LastIs
<1>3. Last(o, k) > 0 /\ log[Last(o, k)].gone /\ log[Last(o, k)].obj = o
  BY <1>1, <1>2, LastIs
<1>4. QED  BY <1>2, <1>3

-----------------------------------------------------------------------------
(* Type correctness.                                                       *)

\* What a list shows is a version that Nomad had.
LEMMA TableKnown ==
    ASSUME TypeOK, NEW k \in 0..Len(log)
    PROVE  /\ Table(k) \subseteq Versions
           /\ \A e \in Table(k) : Had(e[1], e[2]) /\ e[2] <= k
<1>1. Table(k) \subseteq Versions  BY DEF Table
<1>2. ASSUME NEW e \in Table(k)
      PROVE  Had(e[1], e[2]) /\ e[2] <= k
  <2>1. e[2] = ModifyIndex(e[1], k) /\ e[2] \in Nat /\ e[2] > 0
    BY <1>2 DEF Table, Versions
  <2>2. k \in Nat /\ Len(log) \in Nat  BY DEF TypeOK
  <2>3. QED  BY <2>1, <2>2, ModifyIndexLast DEF Had
<1>3. QED  BY <1>1, <1>2

\* A change of Nomad's leaves what it had.
LEMMA HadStays ==
    ASSUME TypeOK, NEW c \in Changes, log' = Append(log, c), NEW o, NEW v, Had(o, v)
    PROVE  Had(o, v)'
BY DEF TypeOK, Had

\* A version that the sink takes is one more that was emitted.
LEMMA PutTyped ==
    ASSUME NEW o \in Objects, NEW v \in 1..MaxIndex, Put(o, v),
           emitted \subseteq Versions, latest \in [Objects -> Indices]
    PROVE  emitted' \subseteq Versions /\ latest' \in [Objects -> Indices]
<1>1. <<o, v>> \in Versions  BY DEF Versions
<1>2. v \in Indices  BY IndexWatchAssumption DEF Indices
<1>3. QED  BY <1>1, <1>2 DEF Put

\* Every variable keeps its type, whatever is listed and fetched.
LEMMA TypeStep ==
    ASSUME TypeOK, KnownInv, [Next]_vars
    PROVE  TypeOK'
<1> USE IndexWatchAssumption
    DEF TypeOK, nomadVars, watchVars, sinkVars, savedVars, Indices
<1>1. CASE Change
  <2>1. PICK c \in Changes : log' = Append(log, c)
    BY <1>1 DEF Change
  <2>2. log' \in Seq(Changes) /\ Len(log') = Len(log) + 1
    BY <2>1
  <2>3. QED  BY <1>1, <2>2 DEF Change
<1>2. ASSUME NEW k \in 0..Len(log), ListAt(k)
      PROVE  TypeOK'
  <2>1. todo' \subseteq Versions  BY <1>2, TableKnown DEF ListAt
  <2>2. QED  BY <1>2, <2>1 DEF ListAt
<1>3. CASE Visit
  <2>1. PICK e \in todo :
          /\ todo' = todo \ {e}
          /\ newMax' = IF e[2] > newMax THEN e[2] ELSE newMax
          /\ IF Watch.fetches
             THEN /\ fetches' = fetches \cup {<<e[1], e[2], 0>>}
                  /\ UNCHANGED sinkVars
             ELSE /\ Put(e[1], e[2])
                  /\ UNCHANGED fetches
    BY <1>3 DEF Visit
  <2>2. e[1] \in Objects /\ e[2] \in 1..MaxIndex /\ <<e[1], e[2]>> \in Versions
    BY DEF Versions
  <2>3. newMax' \in 0..MaxIndex /\ todo' \subseteq Versions  BY <2>1, <2>2
  <2>4. fetches' \subseteq Objects \X (1..MaxIndex) \X (0..MaxIndex)
    BY <2>1, <2>2
  <2>5. emitted' \subseteq Versions /\ latest' \in [Objects -> 0..MaxIndex]
    <3>1. CASE Watch.fetches  BY <2>1, <3>1
    <3>2. CASE ~Watch.fetches
      BY <2>1, <2>2, <3>2, PutTyped
    <3>3. QED  BY <3>1, <3>2
  <2>6. QED  BY <1>3, <2>3, <2>4, <2>5 DEF Visit
<1>4. CASE Commit  BY <1>4 DEF Commit
<1>5. CASE Info
  <2>1. PICK f \in fetches :
          fetches' = (fetches \ {f}) \cup {<<f[1], f[2], ModifyIndex(f[1], Len(log))>>}
    BY <1>5 DEF Info
  <2>2. ModifyIndex(f[1], Len(log)) \in 0..MaxIndex
    BY ModifyIndexLast
  <2>3. f[1] \in Objects /\ f[2] \in 1..MaxIndex  OBVIOUS
  <2>4. fetches' \subseteq Objects \X (1..MaxIndex) \X (0..MaxIndex)
    BY <2>1, <2>2, <2>3
  <2>5. QED  BY <1>5, <2>4 DEF Info
<1>6. CASE InfoFails  BY <1>6 DEF InfoFails
<1>7. CASE PutFetched
  <2>1. PICK f \in fetches : f[3] > 0 /\ Put(f[1], f[3]) /\ fetches' = fetches \ {f}
    BY <1>7 DEF PutFetched
  <2>2. f[1] \in Objects /\ f[3] \in 1..MaxIndex  BY <2>1
  <2>3. emitted' \subseteq Versions /\ latest' \in [Objects -> 0..MaxIndex]
    BY <2>1, <2>2, PutTyped
  <2>4. QED  BY <1>7, <2>1, <2>3 DEF PutFetched
<1>8. CASE Persist  BY <1>8 DEF Persist
<1>9. CASE Restart
  <2>1. latest' \in [Objects -> 0..MaxIndex]  BY <1>9 DEF Restart
  <2>2. QED  BY <1>9, <2>1 DEF Restart
<1>10. CASE UNCHANGED vars  BY <1>10 DEF vars
<1>11. QED
  BY <1>1, <1>2, <1>3, <1>4, <1>5, <1>6, <1>7, <1>8, <1>9, <1>10 DEF Next, List

\* Whatever is listed, fetched and emitted is a version that Nomad had.
LEMMA KnownStep ==
    ASSUME TypeOK, KnownInv, [Next]_vars
    PROVE  KnownInv'
<1> USE DEF nomadVars, watchVars, sinkVars, savedVars
<1>0. Len(log) \in Nat  BY DEF TypeOK
<1>1. CASE Change
  <2>1. PICK c \in Changes : log' = Append(log, c)
    BY <1>1 DEF Change
  <2>2. Len(log') = Len(log) + 1  BY <2>1 DEF TypeOK
  <2>3. \A o, v : Had(o, v) => Had(o, v)'  BY <2>1, HadStays
  <2>4. lastIndex' <= Len(log')
    BY <1>0, <1>1, <2>2, IndexWatchAssumption DEF Change, KnownInv, TypeOK, Indices
  <2>5. QED  BY <1>1, <2>3, <2>4 DEF Change, KnownInv
<1>2. ASSUME NEW k \in 0..Len(log), ListAt(k)
      PROVE  KnownInv'
  <2>1. /\ lastIndex' = k /\ at' = "visit"
        /\ UNCHANGED <<log, fetches, emitted>>
        /\ todo' \subseteq Table(k)
    BY <1>2 DEF ListAt
  <2>2. \A e \in todo' : Had(e[1], e[2])' /\ e[2] <= lastIndex'
    BY <2>1, TableKnown DEF Had
  <2>3. \A o, v : Had(o, v)' <=> Had(o, v)  BY <2>1 DEF Had
  <2>4. QED  BY <1>0, <2>1, <2>2, <2>3 DEF KnownInv
<1>h. ASSUME UNCHANGED log
      PROVE  \A o, v : Had(o, v)' <=> Had(o, v)
  BY <1>h DEF Had
<1>3. CASE Visit
  <2>1. PICK e \in todo :
          /\ todo' = todo \ {e}
          /\ IF Watch.fetches
             THEN /\ fetches' = fetches \cup {<<e[1], e[2], 0>>}
                  /\ UNCHANGED sinkVars
             ELSE /\ Put(e[1], e[2])
                  /\ UNCHANGED fetches
    BY <1>3 DEF Visit
  <2>2. UNCHANGED <<log, at, lastIndex>> /\ at = "visit"  BY <1>3 DEF Visit
  <2>3. Had(e[1], e[2])  BY DEF KnownInv
  <2>4. CASE Watch.fetches
    BY <1>h, <2>1, <2>2, <2>3, <2>4 DEF KnownInv
  <2>5. CASE ~Watch.fetches
    BY <1>h, <2>1, <2>2, <2>3, <2>5 DEF KnownInv, Put
  <2>6. QED  BY <2>4, <2>5
<1>4. CASE Commit  BY <1>4, <1>h DEF Commit, KnownInv
<1>5. CASE Info
  <2> DEFINE now(f) == ModifyIndex(f[1], Len(log))
  <2>1. PICK f \in fetches :
          now(f) > 0 /\ fetches' = (fetches \ {f}) \cup {<<f[1], f[2], now(f)>>}
    BY <1>5 DEF Info
  <2>2. Had(f[1], f[2])  BY DEF KnownInv
  <2>3. Had(f[1], now(f)) /\ now(f) >= f[2]
    BY <1>0, <2>1, <2>2, ModifyIndexLast DEF Had
  <2>4. UNCHANGED <<log, at, lastIndex, todo, emitted>>  BY <1>5 DEF Info
  <2> HIDE DEF now
  <2>5. QED  BY <1>h, <2>1, <2>2, <2>3, <2>4 DEF KnownInv
<1>6. CASE InfoFails  BY <1>6, <1>h DEF InfoFails, KnownInv
<1>7. CASE PutFetched  BY <1>7, <1>h DEF PutFetched, Put, KnownInv
<1>8. CASE Persist  BY <1>8, <1>h DEF Persist, KnownInv
<1>9. CASE Restart  BY <1>0, <1>9, <1>h DEF Restart, KnownInv
<1>10. CASE UNCHANGED vars  BY <1>10, <1>h DEF vars, KnownInv
<1>11. QED
  BY <1>1, <1>2, <1>3, <1>4, <1>5, <1>6, <1>7, <1>8, <1>9, <1>10 DEF Next, List

\* Every variable of IndexWatch keeps its type, for every firehose that follows an
\* index and whatever fails; what it emits are versions that Nomad had.
THEOREM TypeCorrect == Spec => [](TypeOK /\ KnownInv)
<1>1. Init => TypeOK /\ KnownInv
  BY IndexWatchAssumption DEF Init, TypeOK, KnownInv, Indices
<1>2. QED  BY <1>1, TypeStep, KnownStep, PTL DEF Spec

-----------------------------------------------------------------------------
(* Nothing is passed over.                                                 *)

\* The restore point, the last change and newMax stay in order.
LEMMA AheadStep ==
    ASSUME TypeOK, KnownInv, AheadInv, [Next]_vars
    PROVE  AheadInv'
<1> SUFFICES ASSUME Watch.selects = "newer"
             PROVE  AheadInv'
  BY DEF AheadInv
<1> USE DEF AheadInv, nomadVars, watchVars, sinkVars, savedVars
<1>n. /\ saved \in Nat /\ lastChange \in Nat /\ newMax \in Nat
      /\ lastIndex \in Nat /\ Len(log) \in Nat
  BY IndexWatchAssumption DEF TypeOK, Indices
<1>1. CASE Change
  <2>1. PICK c \in Changes : log' = Append(log, c)
    BY <1>1 DEF Change
  <2>2. Len(log') = Len(log) + 1  BY <2>1 DEF TypeOK
  <2>3. QED  BY <1>n, <1>1, <2>2 DEF Change
<1>2. ASSUME NEW k \in 0..Len(log), ListAt(k)
      PROVE  AheadInv'
  <2>1. \A e \in todo' : e[2] > lastChange
    BY <1>2 DEF ListAt, Selected
  <2>2. newMax = lastChange  BY <1>2 DEF ListAt
  <2>3. QED  BY <1>2, <2>1, <2>2 DEF ListAt
<1>3. CASE Visit
  <2>1. PICK e \in todo : /\ todo' = todo \ {e}
                          /\ newMax' = IF e[2] > newMax THEN e[2] ELSE newMax
    BY <1>3 DEF Visit
  <2>2. e[2] \in Nat /\ e[2] <= lastIndex /\ e[2] <= Len(log)
    BY <1>n DEF KnownInv, Had
  <2>3. /\ at' = "visit" /\ at = "visit"
        /\ UNCHANGED <<log, lastIndex, lastChange, saved>>
    BY <1>3 DEF Visit
  <2>4. QED  BY <1>n, <2>1, <2>2, <2>3
<1>4. CASE Commit  BY <1>n, <1>4 DEF Commit
<1>5. CASE Persist  BY <1>n, <1>5 DEF Persist
<1>6. CASE Restart  BY <1>n, <1>6 DEF Restart
<1>7. CASE Info \/ InfoFails \/ PutFetched \/ UNCHANGED vars
  BY <1>7 DEF Info, InfoFails, PutFetched, vars
<1>8. QED  BY <1>1, <1>2, <1>3, <1>4, <1>5, <1>6, <1>7 DEF Next, List

\* A change that was delivered stays so.
LEMMA DeliveredStays ==
    ASSUME TypeOK, [Next]_vars, NEW j \in 1..Len(log), F!Delivered(j)
    PROVE  F!Delivered(j)'
<1> USE DEF nomadVars, watchVars, sinkVars, savedVars
<1>1. emitted \subseteq emitted'
  BY DEF Next, Change, List, ListAt, Visit, Put, Commit, Info, InfoFails, PutFetched,
         Persist, Restart, vars
<1>2. CASE Change
  <2>1. PICK c \in Changes : log' = Append(log, c)
    BY <1>2 DEF Change
  <2>2. /\ Len(log') = Len(log) + 1 /\ Len(log) \in Nat
        /\ \A d \in 1..Len(log) : log'[d] = log[d]
    BY <2>1 DEF TypeOK
  <2>3. QED  BY <1>1, <2>2 DEF F!Delivered
<1>3. CASE UNCHANGED log  BY <1>1, <1>3 DEF F!Delivered
<1>4. QED
  BY <1>2, <1>3
     DEF Next, List, ListAt, Visit, Commit, Info, InfoFails, PutFetched, Persist,
         Restart, vars

\* A list leaves no change up to its index behind: the change's object was deleted
\* since, or is selected as it was modified last, or was so before the last change.
LEMMA ListShows ==
    ASSUME TypeOK, Watch.selects = "newer",
           NEW k \in 0..Len(log), NEW j \in 1..k
    PROVE  \/ j <= lastChange
           \/ \E d \in j..Len(log) : log[d].obj = log[j].obj /\ log[d].gone
           \/ \E e \in Table(k) : Selected(e[2]) /\ e[1] = log[j].obj /\ e[2] >= j
<1> DEFINE o == log[j].obj
           v == ModifyIndex(o, k)
<1>1. k \in Nat /\ k <= Len(log) /\ Len(log) \in Nat /\ Len(log) <= MaxIndex
  BY DEF TypeOK
<1>2. o \in Objects
  <2>1. log[j] \in Changes  BY <1>1 DEF TypeOK
  <2>2. QED  BY <2>1 DEF Changes
<1>3. v \in 0..k  BY <1>1, ModifyIndexLast
<1>4. CASE v = 0
  <2>1. \E d \in j..k : log[d].obj = o /\ log[d].gone
    BY <1>1, <1>4, ModifyIndexGone
  <2>2. QED  BY <1>1, <2>1
<1>5. CASE v > 0
  <2>1. j <= v  BY <1>1, <1>5, ModifyIndexLast
  <2>2. lastChange \in Nat  BY IndexWatchAssumption DEF TypeOK, Indices
  <2>3. CASE v <= lastChange
    BY <1>1, <1>3, <2>1, <2>2, <2>3
  <2>4. CASE v > lastChange
    <3>1. <<o, v>> \in Table(k)
      BY <1>1, <1>2, <1>3, <1>5, IndexWatchAssumption DEF Table, Versions
    <3>2. Selected(v)  BY <2>4 DEF Selected
    <3> HIDE DEF o, v
    <3>3. QED  BY <2>1, <3>1, <3>2 DEF o
  <2>5. QED  BY <1>3, <2>2, <2>3, <2>4
<1>6. QED  BY <1>3, <1>4, <1>5

\* So the change is covered, or its object is selected, as recent as the change.
LEMMA ListCovers ==
    ASSUME TypeOK, Watch.selects = "newer", NothingPassedOver,
           NEW k \in 0..Len(log), NEW j \in 1..k
    PROVE  \/ Covered(j)
           \/ \E e \in Table(k) : Selected(e[2]) /\ e[1] = log[j].obj /\ e[2] >= j
<1>1. CASE j <= lastChange
  <2>1. lastChange \in Nat  BY IndexWatchAssumption DEF TypeOK, Indices
  <2>2. QED  BY <1>1, <2>1 DEF NothingPassedOver
<1>2. QED  BY <1>1, ListShows DEF Covered, F!Delivered

\* A change stays covered: a fetch ends with a version as late as the listed one,
\* or because the object was deleted since; no process ends with fetches.
LEMMA CoveredStays ==
    ASSUME TypeOK, KnownInv, Lossless, [Next]_vars,
           NEW j \in 1..Len(log), Covered(j)
    PROVE  Covered(j)'
<1> USE DEF nomadVars, watchVars, sinkVars, savedVars
<1>n. Len(log) \in Nat  BY DEF TypeOK
<1>1. CASE F!Delivered(j)
  BY <1>1, DeliveredStays DEF Covered
<1>2. ASSUME NEW f \in fetches, f[1] = log[j].obj, f[2] >= j
      PROVE  Covered(j)'
  <2>1. log'[j] = log[j]
    <3>1. CASE Change
      <4>1. PICK c \in Changes : log' = Append(log, c)
        BY <3>1 DEF Change
      <4>2. QED  BY <4>1 DEF TypeOK
    <3>2. CASE UNCHANGED log  BY <3>2
    <3>3. QED
      BY <3>1, <3>2
         DEF Next, List, ListAt, Visit, Commit, Info, InfoFails, PutFetched, Persist,
             Restart, vars
  <2>2. Watch.fetches  BY DEF KnownInv
  <2>3. f[2] \in 1..Len(log) /\ log[f[2]].obj = f[1]
    BY DEF KnownInv, Had
  <2>4. CASE f \in fetches'
    BY <1>2, <2>1, <2>4 DEF Covered
  <2>5. CASE Info
    <3>1. PICK g \in fetches :
            fetches' = (fetches \ {g})
                          \cup {<<g[1], g[2], ModifyIndex(g[1], Len(log))>>}
      BY <2>5 DEF Info
    <3>2. CASE g = f
      <4>1. <<f[1], f[2], ModifyIndex(f[1], Len(log))>> \in fetches'
        BY <3>1, <3>2
      <4>2. QED  BY <1>2, <2>1, <4>1 DEF Covered
    <3>3. QED  BY <2>4, <3>1, <3>2
  <2>6. CASE InfoFails
    <3>1. PICK g \in fetches : /\ ModifyIndex(g[1], Len(log)) = 0
                               /\ fetches' = fetches \ {g}
                               /\ UNCHANGED <<log, emitted>>
      BY <2>2, <2>6 DEF InfoFails, Lossless
    <3>2. CASE g = f
      <4>1. \E d \in f[2]..Len(log) : log[d].obj = f[1] /\ log[d].gone
        BY <1>n, <2>3, <3>1, <3>2, ModifyIndexGone
      <4>2. F!Delivered(j)
        BY <1>n, <1>2, <2>3, <4>1 DEF F!Delivered
      <4>3. QED  BY <4>2, DeliveredStays DEF Covered
    <3>3. QED  BY <2>4, <3>1, <3>2
  <2>7. CASE PutFetched
    <3>1. PICK g \in fetches : /\ g[3] > 0
                               /\ Put(g[1], g[3])
                               /\ fetches' = fetches \ {g}
      BY <2>7 DEF PutFetched
    <3>2. CASE g = f
      <4>1. <<f[1], f[3]>> \in emitted' /\ f[3] >= f[2] /\ f[3] \in 1..Len(log)
        BY <3>1, <3>2 DEF Put, KnownInv, Had
      <4>2. f[3] >= j  BY <1>n, <1>2, <2>3, <4>1
      <4>3. QED  BY <1>2, <2>1, <4>1, <4>2 DEF Covered, F!Delivered
    <3>3. QED  BY <2>4, <3>1, <3>2
  <2>8. ~Restart
    BY <2>2 DEF Lossless, Restart, TypeOK
  <2>9. QED
    BY <2>4, <2>5, <2>6, <2>7, <2>8
       DEF Next, Change, List, ListAt, Visit, Put, Commit, Persist, vars
<1>3. QED  BY <1>1, <1>2 DEF Covered

\* The last change moves over covered changes only.
LEMMA CoverStep ==
    ASSUME TypeOK, KnownInv, AheadInv, CoverInv, [Next]_vars
    PROVE  CoverInv'
<1> SUFFICES ASSUME Lossless
             PROVE  CoverInv'
  BY DEF CoverInv, Lossless
<1> USE DEF nomadVars, watchVars, sinkVars, savedVars
<1> DEFINE ToVisit(j) == \E e \in todo : e[1] = log[j].obj /\ e[2] >= j
<1>n. /\ Len(log) \in Nat /\ lastIndex \in Nat /\ lastChange \in Nat
      /\ newMax \in Nat /\ saved \in Nat
  BY IndexWatchAssumption DEF TypeOK, Indices
<1>s. Watch.selects = "newer"  BY DEF Lossless
<1>i. /\ 1..lastChange \subseteq 1..Len(log)
      /\ 1..newMax \subseteq 1..Len(log)
      /\ 1..lastIndex \subseteq 1..Len(log)
      /\ 1..saved \subseteq 1..lastChange
  BY <1>n, <1>s DEF AheadInv, KnownInv
<1>c. \A j \in 1..Len(log) : Covered(j) => Covered(j)'
  BY CoveredStays
<1>1. ASSUME 1..lastChange' \subseteq 1..lastChange, at' = "list"
      PROVE  CoverInv'
  BY <1>i, <1>c, <1>1 DEF CoverInv, NothingPassedOver
<1>2. CASE Change
  <2>1. PICK c \in Changes : log' = Append(log, c)
    BY <1>2 DEF Change
  <2>2. \A j \in 1..Len(log) : log'[j] = log[j]  BY <2>1 DEF TypeOK
  <2>3. \A j \in 1..Len(log) : ToVisit(j) => ToVisit(j)'
    BY <1>2, <2>2 DEF Change
  <2>4. UNCHANGED <<at, lastIndex, lastChange>>  BY <1>2 DEF Change
  <2> HIDE DEF ToVisit
  <2>5. NothingPassedOver'
    BY <1>i, <1>c, <2>4 DEF CoverInv, NothingPassedOver
  <2>6. at' = "visit" => \A j \in 1..lastIndex' : Covered(j)' \/ ToVisit(j)'
    BY <1>i, <1>c, <2>3, <2>4 DEF CoverInv, ToVisit
  <2>7. QED  BY <2>5, <2>6 DEF CoverInv, ToVisit
<1>3. ASSUME NEW k \in 0..Len(log), ListAt(k)
      PROVE  CoverInv'
  <2>1. /\ lastIndex' = k /\ at' = "visit"
        /\ todo' = {e \in Table(k) : Selected(e[2])}
        /\ UNCHANGED <<log, lastChange, fetches, emitted>>
    BY <1>3 DEF ListAt
  <2>2. \A j \in 1..k : Covered(j) \/ \E e \in todo' : e[1] = log[j].obj /\ e[2] >= j
    BY <1>s, <2>1, ListCovers DEF CoverInv
  <2>3. 1..k \subseteq 1..Len(log)  BY <1>n
  <2>4. QED
    BY <1>i, <1>c, <2>1, <2>2, <2>3 DEF CoverInv, NothingPassedOver
<1>4. CASE Visit
  <2>1. PICK e \in todo :
          /\ todo' = todo \ {e}
          /\ IF Watch.fetches
             THEN fetches' = fetches \cup {<<e[1], e[2], 0>>}
             ELSE emitted' = emitted \cup {<<e[1], e[2]>>}
    BY <1>4 DEF Visit, Put
  <2>2. UNCHANGED <<log, at, lastIndex, lastChange>> /\ at = "visit"
    BY <1>4 DEF Visit
  <2>3. ASSUME NEW j \in 1..Len(log), e[1] = log[j].obj, e[2] >= j
        PROVE  Covered(j)'
    <3>1. CASE Watch.fetches
      <4>1. <<e[1], e[2], 0>> \in fetches'  BY <2>1, <3>1
      <4>2. QED  BY <2>2, <2>3, <4>1 DEF Covered
    <3>2. CASE ~Watch.fetches
      <4>1. <<e[1], e[2]>> \in emitted'  BY <2>1, <3>2
      <4>2. QED  BY <2>2, <2>3, <4>1 DEF Covered, F!Delivered
    <3>3. QED  BY <3>1, <3>2
  <2>4. \A j \in 1..lastIndex :
          Covered(j)' \/ \E d \in todo' : d[1] = log[j].obj /\ d[2] >= j
    BY <1>i, <1>c, <2>1, <2>2, <2>3 DEF CoverInv
  <2>5. NothingPassedOver'
    BY <1>i, <1>c, <2>2 DEF CoverInv, NothingPassedOver
  <2>6. QED  BY <2>2, <2>4, <2>5 DEF CoverInv
<1>5. CASE Commit
  <2>1. lastChange' = newMax /\ at' = "list" /\ at = "visit" /\ todo = {}
    BY <1>s, <1>5 DEF Commit
  <2>2. \A j \in 1..newMax : Covered(j)
    BY <1>n, <1>s, <2>1 DEF CoverInv, NothingPassedOver, AheadInv
  <2>3. QED  BY <1>i, <1>c, <2>1, <2>2 DEF CoverInv, NothingPassedOver
<1>6. CASE Restart
  BY <1>i, <1>1, <1>6 DEF Restart
<1>7. CASE Info \/ InfoFails \/ PutFetched \/ Persist \/ UNCHANGED vars
  <2>1. UNCHANGED <<log, at, lastIndex, todo, lastChange>>
    BY <1>7 DEF Info, InfoFails, PutFetched, Persist, vars
  <2>2. NothingPassedOver'
    BY <1>i, <1>c, <2>1 DEF CoverInv, NothingPassedOver
  <2>3. QED  BY <1>i, <1>c, <2>1, <2>2 DEF CoverInv
<1>8. QED  BY <1>2, <1>3, <1>4, <1>5, <1>6, <1>7 DEF Next, List

\* The invariants that the theorems below rest on.
LEMMA Invariants == Spec => [](TypeOK /\ KnownInv /\ AheadInv /\ CoverInv)
<1>1. Init => AheadInv /\ CoverInv
  BY DEF Init, AheadInv, CoverInv, NothingPassedOver
<1>2. TypeOK /\ KnownInv /\ AheadInv /\ CoverInv /\ [Next]_vars
        => AheadInv' /\ CoverInv'
  BY AheadStep, CoverStep
<1>3. QED  BY <1>1, <1>2, TypeCorrect, PTL DEF Spec

\* Every firehose that selects what is newer than its last change misses no change,
\* as long as its fetches fail only for deleted objects and no process ends with
\* them: for any objects and any number of changes, however stale the lists are.
THEOREM MissesNone ==
    ASSUME Lossless
    PROVE  Spec => []NothingPassedOver
<1>1. CoverInv => NothingPassedOver  BY DEF CoverInv
<1>2. QED  BY <1>1, Invariants, PTL

-----------------------------------------------------------------------------
(* The order of an object's versions.                                      *)

\* What is still to visit of an object is later than what was emitted of it.
LEMMA OrderStep ==
    ASSUME TypeOK, KnownInv, AheadInv, OrderInv, [Next]_vars
    PROVE  OrderInv'
<1> SUFFICES ASSUME Watch.selects = "newer", ~Watch.fetches
             PROVE  OrderInv'
  BY DEF OrderInv
<1> USE DEF OrderInv, nomadVars, watchVars, sinkVars, savedVars
<1>n. /\ lastChange \in Nat /\ newMax \in Nat /\ saved \in Nat
      /\ \A o \in Objects : latest[o] \in Nat
  BY IndexWatchAssumption DEF TypeOK, Indices
<1>t. \A e \in todo : e[1] \in Objects /\ e[2] \in Nat /\ e = <<e[1], e[2]>>
  BY DEF TypeOK, Versions
<1>f. fetches = {}  BY DEF KnownInv
<1>1. ASSUME NEW k \in 0..Len(log), ListAt(k)
      PROVE  OrderInv'
  <2>1. /\ todo' \subseteq Table(k)
        /\ UNCHANGED <<latest, newMax, lastChange>>
        /\ newMax = lastChange
    BY <1>1 DEF ListAt, AheadInv
  <2>2. \A d, e \in Table(k) : d[1] = e[1] => d = e
    BY DEF Table, Versions
  <2>3. \A e \in Table(k) : e[1] \in Objects
    BY DEF Table, Versions
  <2>4. QED  BY <2>1, <2>2, <2>3
<1>2. CASE Visit
  <2>1. PICK e \in todo :
          /\ todo' = todo \ {e}
          /\ newMax' = IF e[2] > newMax THEN e[2] ELSE newMax
          /\ latest' = [latest EXCEPT ![e[1]] = e[2]]
    BY <1>2 DEF Visit, Put
  <2>2. UNCHANGED lastChange  BY <1>2 DEF Visit
  <2>3. /\ latest'[e[1]] = e[2]
        /\ \A o \in Objects \ {e[1]} : latest'[o] = latest[o]
    BY <1>t, <2>1 DEF TypeOK
  <2>4. newMax' >= newMax /\ newMax' >= e[2] /\ newMax' \in Nat
    BY <1>n, <1>t, <2>1
  <2>5. \A o \in Objects : latest'[o] <= newMax'
    <3> SUFFICES ASSUME NEW o \in Objects
                 PROVE  latest'[o] <= newMax'
      OBVIOUS
    <3>1. CASE o = e[1]  BY <1>t, <2>3, <2>4, <3>1
    <3>2. CASE o # e[1]  BY <1>n, <2>3, <2>4, <3>2
    <3>3. QED  BY <3>1, <3>2
  <2>6. \A d \in todo' : d[1] # e[1] /\ d[1] \in Objects
    BY <1>t, <2>1
  <2>7. QED  BY <2>1, <2>2, <2>3, <2>5, <2>6
<1>3. CASE Commit  BY <1>n, <1>3 DEF Commit
<1>4. CASE Restart
  <2>1. todo' = {} /\ newMax' = saved /\ \A o \in Objects : latest'[o] = 0
    BY <1>4 DEF Restart
  <2>2. QED  BY <1>n, <2>1
<1>5. CASE Change \/ Persist \/ UNCHANGED vars
  BY <1>5 DEF Change, Persist, vars
<1>6. ~Info /\ ~InfoFails /\ ~PutFetched
  BY <1>f DEF Info, InfoFails, PutFetched
<1>7. QED  BY <1>1, <1>2, <1>3, <1>4, <1>5, <1>6 DEF Next, List

\* A process of `jobliststubs` emits the versions of an object in the order Nomad
\* made them, although the lists it reads may go back in time.
THEOREM InOrder ==
    ASSUME Watch.selects = "newer", ~Watch.fetches
    PROVE  Spec => EmittedInOrder
<1>1. Init => OrderInv
  BY DEF Init, OrderInv
<1>2. TypeOK /\ KnownInv /\ AheadInv /\ OrderInv /\ [Next]_vars => OrderInv'
  BY OrderStep
<1>3. TypeOK /\ KnownInv /\ AheadInv /\ OrderInv /\ [Next]_vars
        => [\A o \in Objects : restarts' = restarts => latest'[o] >= latest[o]]_vars
  <2> SUFFICES ASSUME TypeOK, KnownInv, AheadInv, OrderInv, Next,
                      restarts' = restarts, NEW o \in Objects
               PROVE  latest'[o] >= latest[o]
    OBVIOUS
  <2> USE DEF nomadVars, watchVars, sinkVars, savedVars
  <2>n. latest[o] \in Nat /\ lastChange \in Nat /\ restarts \in Nat
    BY IndexWatchAssumption DEF TypeOK, Indices
  <2>1. CASE Visit
    <3>1. PICK e \in todo : latest' = [latest EXCEPT ![e[1]] = e[2]]
      BY <2>1 DEF Visit, Put
    <3>2. /\ e[2] \in Nat /\ e[2] > lastChange /\ latest[e[1]] <= lastChange
      BY DEF TypeOK, Versions, AheadInv, OrderInv
    <3>3. CASE o = e[1]
      BY <2>n, <3>1, <3>2, <3>3 DEF TypeOK
    <3>4. CASE o # e[1]
      BY <2>n, <3>1, <3>4 DEF TypeOK
    <3>5. QED  BY <3>3, <3>4
  <2>2. CASE UNCHANGED latest  BY <2>n, <2>2
  <2>3. ~Restart  BY <2>n DEF Restart
  <2>4. ~PutFetched  BY DEF PutFetched, KnownInv
  <2>5. QED
    BY <2>1, <2>2, <2>3, <2>4
       DEF Next, Change, List, ListAt, Commit, Info, InfoFails, Persist
<1>4. QED  BY <1>1, <1>2, <1>3, Invariants, PTL DEF Spec, EmittedInOrder

-----------------------------------------------------------------------------
(* The firehose implements Feed.                                           *)

\* `jobliststubs` implements Feed, for any objects, any number of changes and of
\* restarts: what it resumes from was delivered, whatever the lists show and
\* whenever the process ends, and its restore point moves forward only.
THEOREM Implements ==
    ASSUME Watch.selects = "newer", ~Watch.fetches
    PROVE  Spec => ImplementsFeed
<1> DEFINE Inv == TypeOK /\ KnownInv /\ AheadInv /\ CoverInv
<1>1. Init => F!Init
  BY DEF Init, F!Init
<1>2. Inv /\ [Next]_vars => [F!Next]_(F!vars)
  <2> SUFFICES ASSUME Inv, [Next]_vars
               PROVE  [F!Next]_(F!vars)
    OBVIOUS
  <2> USE DEF nomadVars, watchVars, sinkVars, savedVars
  <2>n. /\ lastChange \in Nat /\ newMax \in Nat /\ saved \in Nat
        /\ Len(log) \in Nat
    BY IndexWatchAssumption DEF TypeOK, Indices
  <2>f. ~Info /\ ~InfoFails /\ ~PutFetched
    BY DEF KnownInv, Info, InfoFails, PutFetched
  <2>1. CASE Change
    BY <2>1 DEF Change, F!Next, F!Change, Changes, F!Changes
  <2>2. CASE Visit
    <3>1. PICK e \in todo : emitted' = emitted \cup {<<e[1], e[2]>>}
      BY <2>2 DEF Visit, Put
    <3>2. Had(e[1], e[2])  BY DEF KnownInv
    <3>3. UNCHANGED <<log, saved>>  BY <2>2 DEF Visit
    <3>4. F!Emit  BY <3>1, <3>2, <3>3 DEF F!Emit, Had
    <3>5. QED  BY <3>4 DEF F!Next
  <2>3. CASE Persist
    <3>1. saved' = lastChange /\ UNCHANGED <<log, emitted, fetches>>
      BY <2>3 DEF Persist
    <3>2. lastChange \in saved..Len(log)
      BY <2>n DEF AheadInv
    <3>3. fetches = {}  BY DEF KnownInv
    <3>4. \A j \in 1..saved' : F!Delivered(j)
      BY <3>1, <3>3 DEF CoverInv, Lossless, NothingPassedOver, Covered
    <3>5. F!Save  BY <3>1, <3>2, <3>4 DEF F!Save
    <3>6. QED  BY <3>5 DEF F!Next
  <2>4. CASE UNCHANGED <<log, emitted, saved>>  BY <2>4 DEF F!vars
  <2>5. QED
    BY <2>f, <2>1, <2>2, <2>3, <2>4
       DEF Next, List, ListAt, Commit, Restart, vars
<1>3. QED  BY <1>1, <1>2, Invariants, PTL DEF Spec, ImplementsFeed, F!Spec
=============================================================================
