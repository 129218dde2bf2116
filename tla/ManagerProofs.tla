--------------------------- MODULE ManagerProofs ---------------------------
(***************************************************************************)
(* Theorems about Manager, for every set of processes, every bound and     *)
(* every runner.                                                           *)
(***************************************************************************)
EXTENDS Manager, TLAPS

-----------------------------------------------------------------------------
(* Type correctness.                                                       *)

\* The initial state is well typed, and no process has a tenure.
LEMMA InitType == Init => TypeOK /\ MainInv
BY ManagerAssumption
   DEF Init, TypeOK, MainInv, Down, InTenure, Tenures, Indices, Nothing,
       RunnerProfiles

\* What Exit leaves behind is well typed, whatever the process was doing.
LEMMA ExitType ==
    ASSUME TypeOK, MainInv, NEW p \in Procs, NEW how \in Down, Exit(p, how)
    PROVE  TypeOK' /\ MainInv'
<1> USE ManagerAssumption DEF Exit, Goto
<1>1. TypeOK'
  BY DEF TypeOK, Down, Tenures, Indices, Nothing, RunnerProfiles, consulVars
<1>2. MainInv'
  BY DEF TypeOK, MainInv, Down, InTenure
<1>3. QED  BY <1>1, <1>2

\* The main goroutine's steps keep every variable in its type.
LEMMA MainStepType ==
    ASSUME TypeOK, MainInv, NEW p \in Procs, MainStep(p)
    PROVE  TypeOK' /\ MainInv'
<1> USE ManagerAssumption
    DEF TypeOK, MainInv, Goto, Down, InTenure, Tenures, Indices, Nothing,
        RunnerProfiles, consulVars, channelVars, tenureVars, runnerVars,
        updateVars
<1>1. CASE Boot(p)  BY <1>1 DEF Boot
<1>2. CASE LoopTimer(p)  BY <1>2 DEF LoopTimer
<1>3. CASE LoopStop(p)  BY <1>3, ExitType DEF LoopStop
<1>4. CASE Restore(p)
  <2>1. watch' \in [Procs -> [Tenures ->
                       {"off", "spawned", "listing", "publishing"}]]
    BY <1>4 DEF Restore
  <2>2. lastChange' \in [Procs -> Indices]
    BY <1>4 DEF Restore, RestoreValues
  <2>3. QED  BY <1>4, <2>1, <2>2 DEF Restore
<1>5. CASE TakeUpdate(p)  BY <1>5 DEF TakeUpdate
<1>6. CASE Save(p)
  <2>1. saved' \in Indices  BY <1>6 DEF Save
  <2>2. QED  BY <1>6, <2>1 DEF Save
<1>7. CASE LeadStop(p)  BY <1>7 DEF LeadStop, Return
<1>8. CASE LeadLockLost(p)  BY <1>8 DEF LeadLockLost, Return
<1>9. CASE LeadReleased(p)  BY <1>9 DEF LeadReleased, Return
<1>10. CASE StopRunner(p)  BY <1>10 DEF StopRunner
<1>11. CASE StopRunnerPanics(p)  BY <1>11, ExitType DEF StopRunnerPanics
<1>12. CASE SinkStopped(p)  BY <1>12 DEF SinkStopped
<1>13. CASE Unlock(p)  BY <1>13 DEF Unlock
<1>14. CASE Fail(p)  BY <1>14, ExitType DEF Fail
<1>15. QED
  BY <1>1, <1>2, <1>3, <1>4, <1>5, <1>6, <1>7, <1>8, <1>9, <1>10, <1>11,
     <1>12, <1>13, <1>14 DEF MainStep

\* So do the steps of the runner's goroutines.
LEMMA RunnerStepType ==
    ASSUME TypeOK, MainInv, NEW p \in Procs, NEW t \in Tenures,
           WatchStep(p, t) \/ PersistStep(p, t)
    PROVE  TypeOK' /\ MainInv'
<1> USE ManagerAssumption
    DEF TypeOK, MainInv, Indices, Nothing, consulVars, channelVars, tenureVars,
        runnerVars, updateVars
<1>1. CASE RunnerStart(p, t)
  <2>1. newMax' \in [Procs -> [Tenures -> Indices]]  BY <1>1 DEF RunnerStart
  <2>2. runnerCh' \in [Procs -> {"nil", "open", "closed"}]
    BY <1>1 DEF RunnerStart
  <2>3. watch' \in [Procs -> [Tenures ->
                       {"off", "spawned", "listing", "publishing"}]]
    BY <1>1 DEF RunnerStart
  <2>4. QED  BY <1>1, <2>1, <2>2, <2>3 DEF RunnerStart
<1>2. CASE WatchPublish(p, t)
  <2>1. PICK i \in lastChange[p]..MaxIndex :
           /\ published' = published \cup ((lastChange[p] + 1)..i)
           /\ newMax' = [newMax EXCEPT ![p][t] =
                            IF i > lastChange[p] /\ i > @ THEN i ELSE @]
    BY <1>2 DEF WatchPublish
  <2>2. published' \subseteq 1..MaxIndex
    <3>1. lastChange[p] \in Nat  OBVIOUS
    <3>2. (lastChange[p] + 1)..i \subseteq 1..MaxIndex  BY <3>1
    <3>3. QED  BY <2>1, <3>2
  <2>3. newMax' \in [Procs -> [Tenures -> Indices]]  BY <2>1
  <2>4. QED  BY <1>2, <2>2, <2>3 DEF WatchPublish
<1>3. CASE WatchCommit(p, t)  BY <1>3 DEF WatchCommit
<1>4. CASE PersistTick(p, t)  BY <1>4 DEF PersistTick
<1>5. CASE PersistSend(p, t)  BY <1>5 DEF PersistSend
<1>6. QED  BY <1>1, <1>2, <1>3, <1>4, <1>5 DEF WatchStep, PersistStep

\* And so do the lock, the signal handler, Consul and the operating system.
LEMMA OtherStepType ==
    ASSUME TypeOK, MainInv, NEW p \in Procs,
           \/ Lock(p) \/ LockFails(p) \/ Cleanup(p) \/ CleanupDone(p)
           \/ SessionExpires(p) \/ SessionLost(p) \/ MonitorGivesUp(p) \/ Crash(p)
    PROVE  TypeOK' /\ MainInv'
<1> USE ManagerAssumption
    DEF TypeOK, MainInv, Goto, Down, InTenure, Tenures, consulVars, channelVars,
        tenureVars, runnerVars, updateVars
<1>1. CASE Lock(p)  BY <1>1 DEF Lock
<1>2. CASE LockFails(p)  BY <1>2, ExitType DEF LockFails
<1>3. CASE Cleanup(p)  BY <1>3 DEF Cleanup
<1>4. CASE CleanupDone(p)  BY <1>4 DEF CleanupDone
<1>5. CASE SessionExpires(p)  BY <1>5 DEF SessionExpires
<1>6. CASE SessionLost(p)  BY <1>6 DEF SessionLost
<1>7. CASE MonitorGivesUp(p)  BY <1>7 DEF MonitorGivesUp
<1>8. CASE Crash(p)  BY <1>8, ExitType DEF Crash
<1>9. QED  BY <1>1, <1>2, <1>3, <1>4, <1>5, <1>6, <1>7, <1>8

\* A step in which nothing changes keeps what Next keeps.
LEMMA StutterType ==
    ASSUME TypeOK, MainInv, UNCHANGED vars
    PROVE  TypeOK' /\ MainInv'
BY DEF TypeOK, MainInv, vars, consulVars, channelVars, tenureVars, runnerVars,
       updateVars

\* Every variable keeps its type, for any processes, runner, bounds and faults.
\* Save is why MainInv is needed: it puts in Consul what the main goroutine has
\* in its hand, which must be a value it received.
THEOREM TypeCorrect == Spec => [](TypeOK /\ MainInv)
<1>1. TypeOK /\ MainInv /\ [Next]_vars => (TypeOK /\ MainInv)'
  BY MainStepType, RunnerStepType, OtherStepType, StutterType DEF Next
<1>2. QED  BY <1>1, InitType, PTL DEF Spec

-----------------------------------------------------------------------------
(* No change is skipped.                                                   *)

\* What the process forgets takes nothing with it that Covered speaks of.
LEMMA ExitCovered ==
    ASSUME TypeOK, CoveredInv, NEW p \in Procs, NEW how \in Down, Exit(p, how)
    PROVE  CoveredInv'
BY DEF TypeOK, CoveredInv, Covered, Exit, Goto, Nothing, consulVars

\* A value moves along watch, channel and main goroutine; each keeps the value
\* it got from the one before, or forgets it.
LEMMA MainStepCovered ==
    ASSUME TypeOK, CoveredInv, NEW p \in Procs, MainStep(p)
    PROVE  CoveredInv'
<1> USE DEF TypeOK, CoveredInv, Covered, Nothing, consulVars, channelVars,
        tenureVars, runnerVars, updateVars
<1>1. CASE Boot(p)  BY <1>1 DEF Boot
<1>2. CASE LoopTimer(p)  BY <1>2 DEF LoopTimer
<1>3. CASE LoopStop(p)  BY <1>3, ExitCovered DEF LoopStop, Down
<1>4. CASE Restore(p)
  <2>1. PICK v \in RestoreValues : lastChange' = [lastChange EXCEPT ![p] = v]
    BY <1>4 DEF Restore
  <2>2. Covered(v)  BY <2>1 DEF RestoreValues
  <2>3. QED  BY <1>4, <2>1, <2>2 DEF Restore
<1>5. CASE TakeUpdate(p)  BY <1>5 DEF TakeUpdate
<1>6. CASE Save(p)  BY <1>6 DEF Save
<1>7. CASE LeadStop(p)  BY <1>7 DEF LeadStop, Return
<1>8. CASE LeadLockLost(p)  BY <1>8 DEF LeadLockLost, Return
<1>9. CASE LeadReleased(p)  BY <1>9 DEF LeadReleased, Return
<1>10. CASE StopRunner(p)  BY <1>10 DEF StopRunner
<1>11. CASE StopRunnerPanics(p)
  BY <1>11, ExitCovered DEF StopRunnerPanics, Down
<1>12. CASE SinkStopped(p)  BY <1>12 DEF SinkStopped
<1>13. CASE Unlock(p)  BY <1>13 DEF Unlock
<1>14. CASE Fail(p)  BY <1>14, ExitCovered DEF Fail, Down
<1>15. QED
  BY <1>1, <1>2, <1>3, <1>4, <1>5, <1>6, <1>7, <1>8, <1>9, <1>10, <1>11,
     <1>12, <1>13, <1>14 DEF MainStep

\* watch raises newMax over what it publishes, and commits it only afterwards.
LEMMA RunnerStepCovered ==
    ASSUME TypeOK, CoveredInv, NEW p \in Procs, NEW t \in Tenures,
           WatchStep(p, t) \/ PersistStep(p, t)
    PROVE  CoveredInv'
<1> USE DEF TypeOK, CoveredInv, Covered, Nothing, Indices, consulVars,
        channelVars, tenureVars, runnerVars, updateVars
<1>1. CASE RunnerStart(p, t)
  <2>1. newMax' = [newMax EXCEPT ![p][t] = lastChange[p]]
    BY <1>1 DEF RunnerStart
  <2>2. \A q \in Procs : \A u \in Tenures : Covered(newMax'[q][u])  BY <2>1
  <2>3. QED  BY <1>1, <2>2 DEF RunnerStart
<1>2. CASE WatchPublish(p, t)
  <2>1. PICK i \in lastChange[p]..MaxIndex :
           /\ published' = published \cup ((lastChange[p] + 1)..i)
           /\ newMax' = [newMax EXCEPT ![p][t] =
                            IF i > lastChange[p] /\ i > @ THEN i ELSE @]
    BY <1>2 DEF WatchPublish
  <2>2. 1..i \subseteq published'
    <3>1. 1..lastChange[p] \subseteq published  OBVIOUS
    <3>2. 1..i \subseteq (1..lastChange[p]) \cup ((lastChange[p] + 1)..i)
      BY ManagerAssumption
    <3>3. QED  BY <2>1, <3>1, <3>2
  <2>3. published \subseteq published'  BY <2>1
  <2>4. \A q \in Procs : \A u \in Tenures :
           newMax'[q][u] \in {newMax[q][u], i}
    BY <2>1
  <2>5. \A q \in Procs : \A u \in Tenures : 1..newMax'[q][u] \subseteq published'
    <3> SUFFICES ASSUME NEW q \in Procs, NEW u \in Tenures
                 PROVE  1..newMax'[q][u] \subseteq published'
      OBVIOUS
    <3>1. CASE newMax'[q][u] = i  BY <3>1, <2>2
    <3>2. CASE newMax'[q][u] = newMax[q][u]
      <4>1. 1..newMax[q][u] \subseteq published  OBVIOUS
      <4>2. QED  BY <3>2, <4>1, <2>3
    <3>3. QED  BY <3>1, <3>2, <2>4
  <2>6. QED  BY <1>2, <2>3, <2>5 DEF WatchPublish
<1>3. CASE WatchCommit(p, t)  BY <1>3 DEF WatchCommit
<1>4. CASE PersistTick(p, t)  BY <1>4 DEF PersistTick
<1>5. CASE PersistSend(p, t)  BY <1>5 DEF PersistSend
<1>6. QED  BY <1>1, <1>2, <1>3, <1>4, <1>5 DEF WatchStep, PersistStep

\* The others move no value but to forget it.
LEMMA OtherStepCovered ==
    ASSUME TypeOK, CoveredInv, NEW p \in Procs,
           \/ Lock(p) \/ LockFails(p) \/ Cleanup(p) \/ CleanupDone(p)
           \/ SessionExpires(p) \/ SessionLost(p) \/ MonitorGivesUp(p) \/ Crash(p)
    PROVE  CoveredInv'
<1> USE DEF CoveredInv, Covered, consulVars, channelVars, tenureVars,
        runnerVars, updateVars
<1>1. CASE Lock(p)  BY <1>1 DEF Lock
<1>2. CASE LockFails(p)  BY <1>2, ExitCovered DEF LockFails, Down
<1>3. CASE Cleanup(p)  BY <1>3 DEF Cleanup
<1>4. CASE CleanupDone(p)  BY <1>4 DEF CleanupDone
<1>5. CASE SessionExpires(p)  BY <1>5 DEF SessionExpires
<1>6. CASE SessionLost(p)  BY <1>6 DEF SessionLost
<1>7. CASE MonitorGivesUp(p)  BY <1>7 DEF MonitorGivesUp
<1>8. CASE Crash(p)  BY <1>8, ExitCovered DEF Crash, Down
<1>9. QED  BY <1>1, <1>2, <1>3, <1>4, <1>5, <1>6, <1>7, <1>8

\* The restore point never passes an unpublished change, for any number of
\* processes and with every fault: lost sessions, failed reads and writes,
\* kills and signals.
THEOREM NeverSkips == Spec => []NothingSkipped
<1>1. Init => CoveredInv
  BY DEF Init, CoveredInv, Covered, Nothing
<1>2. TypeOK /\ CoveredInv /\ [Next]_vars => CoveredInv'
  <2>1. CASE Next
    BY <2>1, MainStepCovered, RunnerStepCovered, OtherStepCovered DEF Next
  <2>2. CASE UNCHANGED vars
    BY <2>2 DEF CoveredInv, Covered, vars, consulVars, runnerVars, updateVars
  <2>3. QED  BY <2>1, <2>2
<1>3. CoveredInv => NothingSkipped
  BY DEF CoveredInv, Covered, NothingSkipped
<1>4. QED  BY <1>1, <1>2, <1>3, TypeCorrect, PTL DEF Spec

-----------------------------------------------------------------------------
(* One leader.                                                             *)

\* The main goroutine gives the lock up only in Unlock and when the process ends,
\* and gives up no other process's lock.
LEMMA MainStepLease ==
    ASSUME TypeOK, LeaseInv, NEW p \in Procs, MainStep(p)
    PROVE  LeaseInv'
BY DEF TypeOK, LeaseInv, InTenure, Goto, Exit, consulVars,
       MainStep, Boot, LoopTimer, LoopStop, Restore, TakeUpdate, Save, LeadStop,
       LeadLockLost, LeadReleased, Return, StopRunner, StopRunnerPanics,
       SinkStopped, Unlock, Fail

\* The runner's goroutines do not touch the lock.
LEMMA RunnerStepLease ==
    ASSUME LeaseInv, NEW p \in Procs, NEW t \in Tenures,
           WatchStep(p, t) \/ PersistStep(p, t)
    PROVE  LeaseInv'
BY DEF LeaseInv, consulVars,
       WatchStep, PersistStep, RunnerStart, WatchPublish, WatchCommit,
       PersistTick, PersistSend

\* Lock takes a lock nobody has, and no other step takes a lock from a leader.
LEMMA OtherStepLease ==
    ASSUME "session" \notin Faults, TypeOK, LeaseInv, NEW p \in Procs,
           \/ Lock(p) \/ LockFails(p) \/ Cleanup(p) \/ CleanupDone(p)
           \/ SessionExpires(p) \/ SessionLost(p) \/ MonitorGivesUp(p) \/ Crash(p)
    PROVE  LeaseInv'
BY ManagerAssumption
   DEF TypeOK, LeaseInv, InTenure, Goto, Exit, consulVars,
       Lock, LockFails, Crash, Cleanup, CleanupDone, SessionExpires, SessionLost,
       MonitorGivesUp

\* Between Lock and Unlock a process has the lock, provided that Consul ends no
\* live leader's session.
LEMMA LeaderHasLock ==
    ASSUME "session" \notin Faults
    PROVE  Spec => []LeaseInv
<1>1. TypeOK /\ LeaseInv /\ [Next]_vars => LeaseInv'
  <2>1. CASE UNCHANGED vars
    BY <2>1 DEF LeaseInv, vars, consulVars
  <2>2. CASE Next
    BY <2>2, MainStepLease, RunnerStepLease, OtherStepLease DEF Next
  <2>3. QED  BY <2>1, <2>2
<1>2. Init => LeaseInv
  BY DEF Init, LeaseInv, InTenure
<1>3. QED  BY <1>2, TypeCorrect, <1>1, PTL DEF Spec

\* Two processes cannot both be between Lock and Unlock, for any number of
\* processes and with crashes and failed requests, provided that Consul ends no
\* live leader's session.
THEOREM AtMostOneLeader ==
    ASSUME "session" \notin Faults
    PROVE  Spec => []OneLeader
<1>1. LeaseInv => OneLeader
  BY DEF LeaseInv, OneLeader
<1>2. QED  BY <1>1, LeaderHasLock, PTL

-----------------------------------------------------------------------------
(* No panic.                                                               *)

\* stopCh is open until StopRunner closes it, and the main goroutine gets to
\* StopRunner once in a tenure.
LEMMA MainStepStop ==
    ASSUME Runner.born = "open", MaxTenures <= 1, TypeOK, MainInv, StopOnceInv,
           NoPanic, NEW p \in Procs, MainStep(p)
    PROVE  StopOnceInv' /\ NoPanic'
BY ManagerAssumption
   DEF TypeOK, MainInv, StopOnceInv, NoPanic, InTenure, Tenures, Goto, Exit,
       consulVars, channelVars, tenureVars, runnerVars,
       MainStep, Boot, LoopTimer, LoopStop, Restore, TakeUpdate, Save, LeadStop,
       LeadLockLost, LeadReleased, Return, StopRunner, StopRunnerPanics,
       SinkStopped, Unlock, Fail

\* The runner's goroutines close no stopCh.
LEMMA RunnerStepStop ==
    ASSUME Runner.born = "open", MaxTenures <= 1, TypeOK, MainInv, StopOnceInv,
           NoPanic, NEW p \in Procs, NEW t \in Tenures,
           WatchStep(p, t) \/ PersistStep(p, t)
    PROVE  StopOnceInv' /\ NoPanic'
BY ManagerAssumption
   DEF TypeOK, MainInv, StopOnceInv, NoPanic, InTenure, Tenures, Goto, Exit,
       consulVars, channelVars, tenureVars, runnerVars,
       WatchStep, PersistStep, RunnerStart, WatchPublish, WatchCommit,
       PersistTick, PersistSend

\* The others close no stopCh, and Lock does not begin a second tenure.
LEMMA OtherStepStop ==
    ASSUME Runner.born = "open", MaxTenures <= 1, TypeOK, MainInv, StopOnceInv,
           NoPanic, NEW p \in Procs,
           \/ Lock(p) \/ LockFails(p) \/ Cleanup(p) \/ CleanupDone(p)
           \/ SessionExpires(p) \/ SessionLost(p) \/ MonitorGivesUp(p) \/ Crash(p)
    PROVE  StopOnceInv' /\ NoPanic'
BY ManagerAssumption
   DEF TypeOK, MainInv, StopOnceInv, NoPanic, InTenure, Tenures, Goto, Exit,
       consulVars, channelVars, tenureVars, runnerVars,
       Lock, LockFails, Crash, Cleanup, CleanupDone, SessionExpires, SessionLost,
       MonitorGivesUp

\* Stop panics in no process whose runner is born with an open stopCh (all but
\* the deployments runner), as long as no run of it acquires the lock twice.
THEOREM StopsOnce ==
    ASSUME Runner.born = "open", MaxTenures <= 1
    PROVE  Spec => []NoPanic
<1> DEFINE Safe == StopOnceInv /\ NoPanic
<1>1. Init => Safe
  BY DEF Init, StopOnceInv, NoPanic
<1>2. ASSUME TypeOK, MainInv, Safe, UNCHANGED vars
      PROVE  Safe'
  BY <1>2 DEF StopOnceInv, NoPanic, vars, consulVars, channelVars, tenureVars,
              runnerVars
<1>3. ASSUME TypeOK, MainInv, Safe, Next
      PROVE  Safe'
  BY <1>3, MainStepStop, RunnerStepStop, OtherStepStop DEF Next
<1>4. (TypeOK /\ MainInv) /\ Safe /\ [Next]_vars => Safe'  BY <1>2, <1>3
<1>5. Safe => NoPanic  OBVIOUS
<1> HIDE DEF Safe
<1>6. QED  BY TypeCorrect, <1>1, <1>4, <1>5, PTL DEF Spec

-----------------------------------------------------------------------------
(* The managers implement Leadership.                                      *)

\* A process that ends forgets every value of its own.
LEMMA ExitForward ==
    ASSUME TypeOK, ForwardInv, NEW p \in Procs, NEW how \in Down, Exit(p, how)
    PROVE  ForwardInv'
BY DEF TypeOK, ForwardInv, Exit, Goto, Down, Nothing, Indices, Tenures, consulVars

\* The main goroutine takes the values in their order: what it saves is older than
\* what is still on its way.  Only one process saves, for only one has the lock.
LEMMA MainStepForward ==
    ASSUME MaxTenures <= 1, "get" \notin Faults, TypeOK, MainInv, LeaseInv,
           ForwardInv, NEW p \in Procs, MainStep(p)
    PROVE  ForwardInv'
<1> USE ManagerAssumption
    DEF TypeOK, MainInv, ForwardInv, Goto, Down, InTenure, Tenures, Indices,
        Nothing, consulVars, channelVars, tenureVars, runnerVars, updateVars
<1>1. CASE Boot(p)  BY <1>1 DEF Boot
<1>2. CASE LoopTimer(p)  BY <1>2 DEF LoopTimer
<1>3. CASE LoopStop(p)  BY <1>3, ExitForward DEF LoopStop
<1>4. CASE Restore(p)
  <2>1. lastChange' = [lastChange EXCEPT ![p] = saved]
    BY <1>4 DEF Restore, RestoreValues
  <2>2. /\ tenure[p] # 0 /\ pc' = [pc EXCEPT ![p] = "lead"]
        /\ hand[p] = Nothing /\ updateCh[p] = Nothing
        /\ \A t \in Tenures : watch[p][t] = "off" /\ sending[p][t] = Nothing
        /\ UNCHANGED <<saved, tenure, hand, updateCh, sending, newMax>>
    BY <1>4 DEF Restore
  <2>3. /\ \A t \in Tenures : watch'[p][t] \in {"off", "spawned"}
        /\ \A q \in Procs : q # p => watch'[q] = watch[q]
    BY <1>4, <2>2 DEF Restore
  <2>4. lastChange'[p] = saved /\ \A q \in Procs : q # p => lastChange'[q] = lastChange[q]
    BY <2>1
  <2>5. QED  BY <2>2, <2>3, <2>4
<1>5. CASE TakeUpdate(p)
  <2>1. /\ pc[p] = "lead" /\ updateCh[p] # Nothing
        /\ pc' = [pc EXCEPT ![p] = "save"]
        /\ hand' = [hand EXCEPT ![p] = updateCh[p]]
        /\ updateCh' = [updateCh EXCEPT ![p] = Nothing]
        /\ UNCHANGED <<saved, tenure, lastChange, watch, newMax, sending>>
    BY <1>5 DEF TakeUpdate
  <2>2. /\ hand'[p] = updateCh[p] /\ updateCh'[p] = Nothing
        /\ \A q \in Procs : q # p => hand'[q] = hand[q] /\ updateCh'[q] = updateCh[q]
    BY <2>1
  <2>3. tenure[p] # 0  BY <2>1
  <2>4. QED  BY <2>1, <2>2, <2>3
<1>6. CASE Save(p)
  <2>1. \A q \in Procs : pc[q] \in {"lead", "save"} => q = p
    BY <1>6 DEF Save, LeaseInv
  <2>2. QED  BY <1>6, <2>1 DEF Save
<1>7. CASE LeadStop(p)  BY <1>7 DEF LeadStop, Return
<1>8. CASE LeadLockLost(p)  BY <1>8 DEF LeadLockLost, Return
<1>9. CASE LeadReleased(p)  BY <1>9 DEF LeadReleased, Return
<1>10. CASE StopRunner(p)  BY <1>10 DEF StopRunner
<1>11. CASE StopRunnerPanics(p)  BY <1>11, ExitForward DEF StopRunnerPanics
<1>12. CASE SinkStopped(p)  BY <1>12 DEF SinkStopped
<1>13. CASE Unlock(p)  BY <1>13 DEF Unlock
<1>14. CASE Fail(p)  BY <1>14, ExitForward DEF Fail
<1>15. QED
  BY <1>1, <1>2, <1>3, <1>4, <1>5, <1>6, <1>7, <1>8, <1>9, <1>10, <1>11,
     <1>12, <1>13, <1>14 DEF MainStep

\* watch moves the last change forward only, and the persister sends what it reads.
LEMMA RunnerStepForward ==
    ASSUME MaxTenures <= 1, TypeOK, ForwardInv, NEW p \in Procs,
           NEW t \in Tenures, WatchStep(p, t) \/ PersistStep(p, t)
    PROVE  ForwardInv'
<1> USE ManagerAssumption
    DEF TypeOK, ForwardInv, Tenures, Indices, Nothing, consulVars, channelVars,
        tenureVars, runnerVars, updateVars
<1>1. CASE RunnerStart(p, t)  BY <1>1 DEF RunnerStart
<1>2. CASE WatchPublish(p, t)  BY <1>2 DEF WatchPublish
<1>3. CASE WatchCommit(p, t)  BY <1>3 DEF WatchCommit
<1>4. CASE PersistTick(p, t)  BY <1>4 DEF PersistTick
<1>5. CASE PersistSend(p, t)  BY <1>5 DEF PersistSend
<1>6. QED  BY <1>1, <1>2, <1>3, <1>4, <1>5 DEF WatchStep, PersistStep

\* The others move no value but to forget it.
LEMMA OtherStepForward ==
    ASSUME MaxTenures <= 1, TypeOK, MainInv, ForwardInv, NEW p \in Procs,
           \/ Lock(p) \/ LockFails(p) \/ Cleanup(p) \/ CleanupDone(p)
           \/ SessionExpires(p) \/ SessionLost(p) \/ MonitorGivesUp(p) \/ Crash(p)
    PROVE  ForwardInv'
<1> USE ManagerAssumption
    DEF TypeOK, MainInv, ForwardInv, Goto, Down, Tenures, Nothing, consulVars,
        channelVars, tenureVars, runnerVars, updateVars
<1>1. CASE Lock(p)
  <2>1. tenure[p] = 0  BY <1>1 DEF Lock
  <2>2. QED  BY <1>1, <2>1 DEF Lock
<1>2. CASE LockFails(p)  BY <1>2, ExitForward DEF LockFails
<1>3. CASE Cleanup(p)  BY <1>3 DEF Cleanup
<1>4. CASE CleanupDone(p)  BY <1>4 DEF CleanupDone
<1>5. CASE SessionExpires(p)  BY <1>5 DEF SessionExpires
<1>6. CASE SessionLost(p)  BY <1>6 DEF SessionLost
<1>7. CASE MonitorGivesUp(p)  BY <1>7 DEF MonitorGivesUp
<1>8. CASE Crash(p)  BY <1>8, ExitForward DEF Crash
<1>9. QED  BY <1>1, <1>2, <1>3, <1>4, <1>5, <1>6, <1>7, <1>8

\* The leader is the process between Lock and Unlock, before a step and after it.
LEMMA LeaderBefore ==
    ASSUME OneLeader
    PROVE  /\ \A p \in Procs : pc[p] \in InTenure => Leader = p
           /\ (\A p \in Procs : pc[p] \notin InTenure) => Leader = NoOne
BY DEF OneLeader, Leader

LEMMA LeaderAfter ==
    ASSUME OneLeader'
    PROVE  /\ \A p \in Procs : pc'[p] \in InTenure => Leader' = p
           /\ (\A p \in Procs : pc'[p] \notin InTenure) => Leader' = NoOne
BY DEF OneLeader, Leader

\* A step that leaves every process on its side of Lock and Unlock leaves the leader.
LEMMA SameLeader ==
    ASSUME OneLeader, OneLeader',
           \A p \in Procs : pc'[p] \in InTenure <=> pc[p] \in InTenure
    PROVE  Leader' = Leader
<1>1. CASE \E p \in Procs : pc[p] \in InTenure
  BY <1>1, LeaderBefore, LeaderAfter
<1>2. CASE \A p \in Procs : pc[p] \notin InTenure
  BY <1>2, LeaderBefore, LeaderAfter
<1>3. QED  BY <1>1, <1>2

\* A process that ends steps down if it leads.
LEMMA ExitStepsDown ==
    ASSUME TypeOK, OneLeader, OneLeader', NEW p \in Procs, NEW how \in Down,
           Exit(p, how)
    PROVE  [L!Next]_(L!vars)
<1> USE DEF TypeOK, Exit, Goto, consulVars
<1>1. how \notin InTenure  BY DEF Down, InTenure
<1>2. CASE pc[p] \in InTenure
  <2>1. Leader = p  BY <1>2, LeaderBefore
  <2>2. \A q \in Procs : pc'[q] \notin InTenure
    BY <1>1, <1>2 DEF OneLeader
  <2>3. Leader' = NoOne  BY <2>2, LeaderAfter
  <2>4. QED  BY <2>1, <2>3 DEF L!Next, L!StepDown
<1>3. CASE pc[p] \notin InTenure
  <2>1. \A q \in Procs : pc'[q] \in InTenure <=> pc[q] \in InTenure
    BY <1>1, <1>3
  <2>2. Leader' = Leader  BY <2>1, SameLeader
  <2>3. QED  BY <2>2 DEF L!vars
<1>4. QED  BY <1>2, <1>3

\* The managers implement Leadership, for any number of processes, with failed
\* locks, writes and unlocks, kills and signals: one leader, and a restore point
\* that only the leader moves, only forward, and only over published changes.
THEOREM ImplementLeadership ==
    ASSUME "session" \notin Faults, "get" \notin Faults, MaxTenures <= 1
    PROVE  Spec => ImplementsLeadership
<1>1. Init => ForwardInv /\ L!Init
  <2> SUFFICES ASSUME Init
               PROVE  ForwardInv /\ L!Init
    OBVIOUS
  <2>1. ForwardInv  BY DEF Init, ForwardInv, Nothing
  <2>2. \A p \in Procs : pc[p] \notin InTenure  BY DEF Init, InTenure
  <2>3. L!Init  BY <2>2 DEF Init, L!Init, Leader
  <2>4. QED  BY <2>1, <2>3
<1>2. TypeOK /\ MainInv /\ LeaseInv /\ ForwardInv /\ [Next]_vars => ForwardInv'
  <2>1. ASSUME UNCHANGED vars, ForwardInv
        PROVE  ForwardInv'
    BY <2>1 DEF ForwardInv, vars, consulVars, tenureVars, runnerVars, updateVars
  <2>2. QED
    BY <2>1, MainStepForward, RunnerStepForward, OtherStepForward DEF Next
<1>3. /\ TypeOK /\ MainInv /\ LeaseInv /\ OneLeader /\ ForwardInv
      /\ TypeOK' /\ OneLeader' /\ NothingSkipped'
      /\ [Next]_vars
      => [L!Next]_(L!vars)
  <2> SUFFICES ASSUME TypeOK, MainInv, LeaseInv, OneLeader, ForwardInv,
                      TypeOK', OneLeader', NothingSkipped', [Next]_vars
               PROVE  [L!Next]_(L!vars)
    OBVIOUS
  <2> DEFINE Stays == \A q \in Procs : pc'[q] \in InTenure <=> pc[q] \in InTenure
  <2> USE DEF Goto, consulVars
  <2>1. ASSUME Stays, UNCHANGED <<saved, published>>
        PROVE  [L!Next]_(L!vars)
    BY <2>1, SameLeader DEF L!vars
  <2>2. ASSUME NEW p \in Procs, MainStep(p)
        PROVE  [L!Next]_(L!vars)
    <3>1. CASE Save(p)
      <4>1. pc[p] \in InTenure /\ Stays
        BY <3>1 DEF Save, TypeOK, InTenure
      <4>2. Leader \in Procs /\ Leader' = Leader
        BY <4>1, LeaderBefore, SameLeader
      <4>3. CASE UNCHANGED saved
        BY <2>1, <3>1, <4>1, <4>3 DEF Save
      <4>4. CASE saved' = hand[p]
        <5>1. saved' \in Nat /\ saved' >= saved
          BY <3>1, <4>4, ManagerAssumption
             DEF Save, MainInv, ForwardInv, TypeOK, Indices
        <5>2. 1..saved' \subseteq published
          BY <3>1 DEF Save, NothingSkipped
        <5>3. QED  BY <3>1, <4>2, <5>1, <5>2 DEF Save, L!Next, L!Advance
      <4>5. QED  BY <3>1, <4>3, <4>4 DEF Save
    <3>2. CASE Unlock(p)
      <4>1. Leader = p
        BY <3>2, LeaderBefore DEF Unlock, InTenure
      <4>2. \A q \in Procs : pc'[q] \notin InTenure
        BY <3>2 DEF Unlock, OneLeader, TypeOK, InTenure
      <4>3. Leader' = NoOne  BY <4>2, LeaderAfter
      <4>4. QED  BY <3>2, <4>1, <4>3 DEF Unlock, L!Next, L!StepDown
    <3>3. CASE LoopStop(p) \/ StopRunnerPanics(p) \/ Fail(p)
      BY <3>3, ExitStepsDown DEF LoopStop, StopRunnerPanics, Fail, Down
    <3>4. CASE Boot(p)
      BY <2>1, <3>4 DEF Boot, TypeOK, Down, InTenure
    <3>5. CASE \/ LoopTimer(p) \/ Restore(p) \/ TakeUpdate(p) \/ LeadStop(p)
               \/ LeadLockLost(p) \/ LeadReleased(p) \/ StopRunner(p)
               \/ SinkStopped(p)
      BY <2>1, <3>5 DEF LoopTimer, Restore, TakeUpdate, LeadStop, LeadLockLost,
         LeadReleased, Return, StopRunner, SinkStopped, TypeOK, InTenure
    <3>6. QED
      BY <2>2, <3>1, <3>2, <3>3, <3>4, <3>5 DEF MainStep
  <2>3. ASSUME NEW p \in Procs, Lock(p)
        PROVE  [L!Next]_(L!vars)
    <3>1. \A q \in Procs : pc[q] \notin InTenure
      BY <2>3, ManagerAssumption DEF Lock, LeaseInv
    <3>2. Leader = NoOne  BY <3>1, LeaderBefore
    <3>3. pc'[p] \in InTenure  BY <2>3 DEF Lock, TypeOK, InTenure
    <3>4. Leader' = p  BY <3>3, LeaderAfter
    <3>5. QED  BY <2>3, <3>2, <3>4 DEF Lock, L!Next, L!Elect
  <2>4. ASSUME NEW p \in Procs, LockFails(p) \/ Crash(p)
        PROVE  [L!Next]_(L!vars)
    BY <2>4, ExitStepsDown DEF LockFails, Crash, Down
  <2>5. ASSUME NEW p \in Procs, NEW t \in Tenures, WatchStep(p, t)
        PROVE  [L!Next]_(L!vars)
    <3>1. CASE WatchPublish(p, t)
      <4>1. Leader' = Leader  BY <3>1, SameLeader DEF WatchPublish
      <4>2. QED  BY <3>1, <4>1 DEF WatchPublish, L!Next, L!Publish
    <3>2. CASE RunnerStart(p, t) \/ WatchCommit(p, t)
      BY <2>1, <3>2 DEF RunnerStart, WatchCommit
    <3>3. QED  BY <2>5, <3>1, <3>2 DEF WatchStep
  <2>6. ASSUME NEW p \in Procs,
               \/ Cleanup(p) \/ CleanupDone(p)
               \/ \E t \in Tenures : PersistStep(p, t)
               \/ SessionExpires(p) \/ SessionLost(p) \/ MonitorGivesUp(p)
        PROVE  [L!Next]_(L!vars)
    BY <2>1, <2>6 DEF Cleanup, CleanupDone, PersistStep, PersistTick, PersistSend,
       SessionExpires, SessionLost, MonitorGivesUp
  <2>7. CASE UNCHANGED vars  BY <2>1, <2>7 DEF vars
  <2>8. QED  BY <2>2, <2>3, <2>4, <2>5, <2>6, <2>7 DEF Next
<1>4. Spec => [](TypeOK /\ MainInv)  BY TypeCorrect
<1>5. Spec => []LeaseInv  BY LeaderHasLock
<1>6. Spec => []OneLeader  BY AtMostOneLeader
<1>7. Spec => []NothingSkipped  BY NeverSkips
<1>8. QED
  BY <1>1, <1>2, <1>3, <1>4, <1>5, <1>6, <1>7, PTL
     DEF Spec, ImplementsLeadership, L!Spec
=============================================================================
