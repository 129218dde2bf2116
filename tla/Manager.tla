------------------------------ MODULE Manager ------------------------------
(***************************************************************************)
(* Several processes that run the same firehose (helper/manager.go).  They *)
(* compete for one Consul lock; the one that gets it reads the saved       *)
(* restore point, starts its runner, and writes the runner's last change   *)
(* back to Consul from time to time, until it is told to stop or learns    *)
(* that it lost the lock.                                                  *)
(*                                                                         *)
(* A process is four kinds of goroutine: the main one (pc), the signal     *)
(* handler (sig) and, for each tenure (each time the lock is acquired), a  *)
(* watch goroutine (watch, newMax) and a persist goroutine (sending).  The *)
(* last two never end before the process does: watch reads no stop         *)
(* channel, and the break of persistLastChangeTime leaves only its select. *)
(*                                                                         *)
(* Nomad's changes are the numbers 1..MaxIndex in the order Nomad made     *)
(* them (for allocations, in the order of their times), and published says *)
(* which of them a watch handed on: to the sink, or to the goroutine that  *)
(* fetches the object.  What becomes of them there, and what a stale list  *)
(* does, is the subject of IndexWatch, AllocWatch and QueueSink.           *)
(***************************************************************************)
EXTENDS Integers, Runners

CONSTANTS
    Procs,       \* the processes
    Runner,      \* the runner's profile
    MaxIndex,    \* bound: Nomad makes changes 1..MaxIndex
    MaxStarts,   \* bound: how many processes are started, restarts included
    MaxTenures,  \* bound: how often one run acquires the lock (see LoopTimer)
    Faults,      \* the faults that happen, a subset of AllFaults
    NoOne        \* the lock's holder when it is free

\* "session" Consul ends a live leader's session, or its monitor gives up;
\* "lock", "get", "put", "release" that request to Consul fails;
\* "crash" a process is killed; "signal" a process is sent an interrupt.
AllFaults == {"session", "lock", "get", "put", "release", "crash", "signal"}

ASSUME ManagerAssumption ==
    /\ Runner \in RunnerProfiles
    /\ MaxIndex \in Nat
    /\ MaxStarts \in Nat
    /\ MaxTenures \in Nat
    /\ Faults \subseteq AllFaults
    /\ NoOne \notin Procs

VARIABLES
    holder,      \* Consul: the process whose session holds the .lock key
    saved,       \* Consul: the .value key (0 when missing)
    published,   \* the changes handed on by a watch of any process
    pc,          \* where the main goroutine is, or how the process ended
    starts,      \* how many processes were started so far
    sig,         \* the signal handler: "waiting", "closing", "done"
    stopCh,      \* Manager.stopCh is closed
    releaseCh,   \* Manager.voluntarilyReleaseLockCh is closed
    lockErrorCh, \* Manager.lockErrorCh is closed
    tenure,      \* how often this run acquired the lock
    result,      \* what acquireConsulLeadership is about to return
    runnerCh,    \* the runner's stopCh: "nil", "open" or "closed"
    lastChange,  \* the runner's lastChangeTime or lastChangeIndex
    watch,       \* per tenure, the goroutines Start spawns
    newMax,      \* per tenure, watch's local newMax
    sending,     \* per tenure, the value its persister is sending, or Nothing
    updateCh,    \* the runner's one-slot channel, or Nothing
    hand         \* the update the main goroutine is writing to Consul

consulVars == <<holder, saved>>
channelVars == <<sig, stopCh, releaseCh>>
tenureVars == <<lockErrorCh, tenure, result>>
runnerVars == <<runnerCh, lastChange, watch, newMax>>
updateVars == <<sending, updateCh, hand>>
vars == <<consulVars, published, pc, starts, channelVars, tenureVars, runnerVars,
          updateVars>>

Nothing == -1
Tenures == 1..MaxTenures
Indices == 0..MaxIndex

\* How a process is down: never started, returned nil, log.Fatal, a panic, a kill.
Down == {"off", "finished", "fatal", "panicked", "killed"}

\* Between Lock's return and Unlock's.
InTenure == {"restore", "lead", "save", "stop", "drain", "unlock"}

-----------------------------------------------------------------------------

Init ==
    /\ holder = NoOne
    /\ saved = 0
    /\ published = {}
    /\ pc = [p \in Procs |-> "off"]
    /\ starts = 0
    /\ sig = [p \in Procs |-> "waiting"]
    /\ stopCh = [p \in Procs |-> FALSE]
    /\ releaseCh = [p \in Procs |-> FALSE]
    /\ lockErrorCh = [p \in Procs |-> FALSE]
    /\ tenure = [p \in Procs |-> 0]
    /\ result = [p \in Procs |-> "nil"]
    /\ runnerCh = [p \in Procs |-> Runner.born]
    /\ lastChange = [p \in Procs |-> 0]
    /\ watch = [p \in Procs |-> [t \in Tenures |-> "off"]]
    /\ newMax = [p \in Procs |-> [t \in Tenures |-> 0]]
    /\ sending = [p \in Procs |-> [t \in Tenures |-> Nothing]]
    /\ updateCh = [p \in Procs |-> Nothing]
    /\ hand = [p \in Procs |-> Nothing]

Goto(p, there) == pc' = [pc EXCEPT ![p] = there]

\* The process ends: every goroutine goes with its memory.
Exit(p, how) ==
    /\ Goto(p, how)
    /\ sig' = [sig EXCEPT ![p] = "waiting"]
    /\ stopCh' = [stopCh EXCEPT ![p] = FALSE]
    /\ releaseCh' = [releaseCh EXCEPT ![p] = FALSE]
    /\ lockErrorCh' = [lockErrorCh EXCEPT ![p] = FALSE]
    /\ tenure' = [tenure EXCEPT ![p] = 0]
    /\ result' = [result EXCEPT ![p] = "nil"]
    /\ runnerCh' = [runnerCh EXCEPT ![p] = Runner.born]
    /\ lastChange' = [lastChange EXCEPT ![p] = 0]
    /\ watch' = [watch EXCEPT ![p] = [t \in Tenures |-> "off"]]
    /\ newMax' = [newMax EXCEPT ![p] = [t \in Tenures |-> 0]]
    /\ sending' = [sending EXCEPT ![p] = [t \in Tenures |-> Nothing]]
    /\ updateCh' = [updateCh EXCEPT ![p] = Nothing]
    /\ hand' = [hand EXCEPT ![p] = Nothing]
    /\ UNCHANGED <<consulVars, published, starts>>

-----------------------------------------------------------------------------
(* The main goroutine: Start, continuouslyAcquireConsulLeadership.         *)

\* The process is started: NewManager, then Start.
Boot(p) ==
    /\ pc[p] \in Down
    /\ starts < MaxStarts
    /\ starts' = starts + 1
    /\ Goto(p, "loop")
    /\ UNCHANGED <<consulVars, published, channelVars, tenureVars, runnerVars,
                   updateVars>>

\* The select of the acquisition loop: stopCh is closed.
LoopStop(p) ==
    /\ pc[p] = "loop"
    /\ stopCh[p]
    /\ Exit(p, "finished")

\* The select of the acquisition loop: the 250 ms timer.  It may win over a
\* closed stopCh.  A run comes back to the loop only once its signal handler
\* has begun cleanup, so acquiring again takes a handler, or a loop, that
\* stalls for 250 ms: MaxTenures = 1 says that it does not.
LoopTimer(p) ==
    /\ pc[p] = "loop"
    /\ tenure[p] < MaxTenures
    /\ Goto(p, "lock")
    /\ UNCHANGED <<consulVars, published, starts, channelVars, tenureVars,
                   runnerVars, updateVars>>

\* Lock returns.  It was given lockCh, which is never set: nothing but the
\* lock, or an error, ends the wait.
Lock(p) ==
    /\ pc[p] = "lock"
    /\ holder = NoOne
    /\ holder' = p
    /\ tenure' = [tenure EXCEPT ![p] = @ + 1]
    /\ lockErrorCh' = [lockErrorCh EXCEPT ![p] = FALSE]
    /\ Goto(p, "restore")
    /\ UNCHANGED <<saved, published, starts, channelVars, result, runnerVars,
                   updateVars>>

\* Lock fails: main ends in log.Fatal.
LockFails(p) ==
    /\ "lock" \in Faults
    /\ pc[p] = "lock"
    /\ Exit(p, "fatal")

\* What restoreLastChangeTime returns: the saved value, or 0 if it cannot be read.
RestoreValues == {saved} \cup (IF "get" \in Faults THEN {0} ELSE {})

\* Mutant of Restore: the runner is not given the restore point.
RestoreNothing(p) ==
    /\ pc[p] = "restore"
    /\ releaseCh' = [releaseCh EXCEPT ![p] = FALSE]
    /\ watch' = [watch EXCEPT ![p][tenure[p]] = "spawned"]
    /\ Goto(p, "lead")
    /\ UNCHANGED <<consulVars, published, starts, sig, stopCh, tenureVars,
                   runnerCh, lastChange, newMax, updateVars>>

\* A new release channel, SetRestoreValue, and the go statement of the runner.
Restore(p) ==
    /\ pc[p] = "restore"
    /\ \E v \in RestoreValues : lastChange' = [lastChange EXCEPT ![p] = v]
    /\ releaseCh' = [releaseCh EXCEPT ![p] = FALSE]
    /\ watch' = [watch EXCEPT ![p][tenure[p]] = "spawned"]
    /\ Goto(p, "lead")
    /\ UNCHANGED <<consulVars, published, starts, sig, stopCh, tenureVars,
                   runnerCh, newMax, updateVars>>

-----------------------------------------------------------------------------
(* The main goroutine: the select of acquireConsulLeadership.              *)

\* Mutant of TakeUpdate: received from a channel that may be empty.
TakeUpdateUnchecked(p) ==
    /\ pc[p] = "lead"
    /\ hand' = [hand EXCEPT ![p] = updateCh[p]]
    /\ updateCh' = [updateCh EXCEPT ![p] = Nothing]
    /\ Goto(p, "save")
    /\ UNCHANGED <<consulVars, published, starts, channelVars, tenureVars,
                   runnerVars, sending>>

\* An update of the runner is received.
TakeUpdate(p) ==
    /\ pc[p] = "lead"
    /\ updateCh[p] # Nothing
    /\ hand' = [hand EXCEPT ![p] = updateCh[p]]
    /\ updateCh' = [updateCh EXCEPT ![p] = Nothing]
    /\ Goto(p, "save")
    /\ UNCHANGED <<consulVars, published, starts, channelVars, tenureVars,
                   runnerVars, sending>>

\* It is put in Consul's KV store, with no check of the lock; an error is logged.
Save(p) ==
    /\ pc[p] = "save"
    /\ \/ saved' = hand[p]
       \/ "put" \in Faults /\ UNCHANGED saved
    /\ hand' = [hand EXCEPT ![p] = Nothing]
    /\ Goto(p, "lead")
    /\ UNCHANGED <<holder, published, starts, channelVars, tenureVars, runnerVars,
                   sending, updateCh>>

\* Mutant of Return: the lock is released before the runner is stopped.
ReturnUnlocked(p, value) ==
    /\ pc[p] = "lead"
    /\ result' = [result EXCEPT ![p] = value]
    /\ holder' = IF holder = p THEN NoOne ELSE holder
    /\ Goto(p, "stop")
    /\ UNCHANGED <<saved, published, starts, channelVars, lockErrorCh, tenure,
                   runnerVars, updateVars>>

\* The function returns: its deferred function stops the runner first.
Return(p, value) ==
    /\ pc[p] = "lead"
    /\ result' = [result EXCEPT ![p] = value]
    /\ Goto(p, "stop")
    /\ UNCHANGED <<consulVars, published, starts, channelVars, lockErrorCh, tenure,
                   runnerVars, updateVars>>

\* Mutant of LeadReleased: the case stops the runner, and so does the defer.
LeadReleasedStops(p) ==
    /\ releaseCh[p]
    /\ pc[p] = "lead"
    /\ runnerCh' = [runnerCh EXCEPT ![p] = "closed"]
    /\ result' = [result EXCEPT ![p] = "nil"]
    /\ Goto(p, "stop")
    /\ UNCHANGED <<consulVars, published, starts, channelVars, lockErrorCh, tenure,
                   lastChange, watch, newMax, updateVars>>

LeadStop(p) == stopCh[p] /\ Return(p, "nil")
LeadLockLost(p) == lockErrorCh[p] /\ Return(p, "error")
LeadReleased(p) == releaseCh[p] /\ Return(p, "nil")

\* Runner.Stop closes the runner's stopCh...
StopRunner(p) ==
    /\ pc[p] = "stop"
    /\ runnerCh[p] = "open"
    /\ runnerCh' = [runnerCh EXCEPT ![p] = "closed"]
    /\ Goto(p, "drain")
    /\ UNCHANGED <<consulVars, published, starts, channelVars, tenureVars,
                   lastChange, watch, newMax, updateVars>>

\* ... which panics if there is no channel, or if it is closed already.
StopRunnerPanics(p) ==
    /\ pc[p] = "stop"
    /\ runnerCh[p] # "open"
    /\ Exit(p, "panicked")

\* Runner.Stop returns from sink.Stop, once the sink's queue is empty.
SinkStopped(p) ==
    /\ pc[p] = "drain"
    /\ Goto(p, "unlock")
    /\ UNCHANGED <<consulVars, published, starts, channelVars, tenureVars,
                   runnerVars, updateVars>>

\* Unlock; an error is logged.  A nil result goes back to the loop.
Unlock(p) ==
    /\ pc[p] = "unlock"
    /\ \/ holder' = IF holder = p THEN NoOne ELSE holder
       \/ "release" \in Faults /\ UNCHANGED holder
    /\ Goto(p, IF result[p] = "nil" THEN "loop" ELSE "fail")
    /\ UNCHANGED <<saved, published, starts, channelVars, tenureVars, runnerVars,
                   updateVars>>

\* An error result is returned by Start to main, which ends in log.Fatal.
Fail(p) ==
    /\ pc[p] = "fail"
    /\ Exit(p, "fatal")

-----------------------------------------------------------------------------
(* The signal handler.                                                     *)

\* An interrupt is caught: cleanup closes the release channel...
Cleanup(p) ==
    /\ "signal" \in Faults
    /\ pc[p] \notin Down
    /\ sig[p] = "waiting"
    /\ sig' = [sig EXCEPT ![p] = "closing"]
    /\ releaseCh' = [releaseCh EXCEPT ![p] = TRUE]
    /\ UNCHANGED <<consulVars, published, pc, starts, stopCh, tenureVars,
                   runnerVars, updateVars>>

\* Mutant of CleanupDone: stopCh stays open.
CleanupForgets(p) ==
    /\ sig[p] = "closing"
    /\ sig' = [sig EXCEPT ![p] = "done"]
    /\ UNCHANGED <<consulVars, published, pc, starts, stopCh, releaseCh,
                   tenureVars, runnerVars, updateVars>>

\* ... and then stopCh.
CleanupDone(p) ==
    /\ sig[p] = "closing"
    /\ sig' = [sig EXCEPT ![p] = "done"]
    /\ stopCh' = [stopCh EXCEPT ![p] = TRUE]
    /\ UNCHANGED <<consulVars, published, pc, starts, releaseCh, tenureVars,
                   runnerVars, updateVars>>

-----------------------------------------------------------------------------
(* The runner's goroutines.                                                *)

\* The spawned Start runs: stopCh is made and the two goroutines begin.
RunnerStart(p, t) ==
    /\ watch[p][t] = "spawned"
    /\ watch' = [watch EXCEPT ![p][t] = "listing"]
    /\ newMax' = [newMax EXCEPT ![p][t] = lastChange[p]]
    /\ runnerCh' = [runnerCh EXCEPT ![p] = IF Runner.remakes THEN "open" ELSE @]
    /\ UNCHANGED <<consulVars, published, pc, starts, channelVars, tenureVars,
                   lastChange, updateVars>>

\* Mutant of WatchPublish: the newest change is counted, not published.
WatchPublishShort(p, t) ==
    /\ watch[p][t] = "listing"
    /\ \E i \in lastChange[p]..MaxIndex :
          /\ i > lastChange[p] \/ newMax[p][t] # lastChange[p]
          /\ published' = published \cup ((lastChange[p] + 1)..(i - 1))
          /\ newMax' = [newMax EXCEPT ![p][t] =
                           IF i > lastChange[p] /\ i > @ THEN i ELSE @]
    /\ watch' = [watch EXCEPT ![p][t] = "publishing"]
    /\ UNCHANGED <<consulVars, pc, starts, channelVars, tenureVars, runnerCh,
                   lastChange, updateVars>>

\* watch lists the objects as of change i and publishes what is newer than the
\* runner's last change.  (A list that leaves newMax and lastChange as they
\* are is no step.)
WatchPublish(p, t) ==
    /\ watch[p][t] = "listing"
    /\ \E i \in lastChange[p]..MaxIndex :
          /\ i > lastChange[p] \/ newMax[p][t] # lastChange[p]
          /\ published' = published \cup ((lastChange[p] + 1)..i)
          /\ newMax' = [newMax EXCEPT ![p][t] =
                           IF i > lastChange[p] /\ i > @ THEN i ELSE @]
    /\ watch' = [watch EXCEPT ![p][t] = "publishing"]
    /\ UNCHANGED <<consulVars, pc, starts, channelVars, tenureVars, runnerCh,
                   lastChange, updateVars>>

\* Mutant of WatchCommit: the last change does not move.
WatchForgets(p, t) ==
    /\ watch[p][t] = "publishing"
    /\ watch' = [watch EXCEPT ![p][t] = "listing"]
    /\ UNCHANGED <<consulVars, published, pc, starts, channelVars, tenureVars,
                   runnerCh, lastChange, newMax, updateVars>>

\* The end of watch's loop body: only now does the last change move.
WatchCommit(p, t) ==
    /\ watch[p][t] = "publishing"
    /\ watch' = [watch EXCEPT ![p][t] = "listing"]
    /\ lastChange' = [lastChange EXCEPT ![p] = newMax[p][t]]
    /\ UNCHANGED <<consulVars, published, pc, starts, channelVars, tenureVars,
                   runnerCh, newMax, updateVars>>

\* A tick of persistLastChangeTime, or its closed stopCh: the last change is
\* read and the send begins.
PersistTick(p, t) ==
    /\ watch[p][t] \in {"listing", "publishing"}
    /\ sending[p][t] = Nothing
    /\ sending' = [sending EXCEPT ![p][t] = lastChange[p]]
    /\ UNCHANGED <<consulVars, published, pc, starts, channelVars, tenureVars,
                   runnerVars, updateCh, hand>>

\* The send finds the channel's slot free.
PersistSend(p, t) ==
    /\ sending[p][t] # Nothing
    /\ updateCh[p] = Nothing
    /\ updateCh' = [updateCh EXCEPT ![p] = sending[p][t]]
    /\ sending' = [sending EXCEPT ![p][t] = Nothing]
    /\ UNCHANGED <<consulVars, published, pc, starts, channelVars, tenureVars,
                   runnerVars, hand>>

-----------------------------------------------------------------------------
(* Consul and the operating system.                                        *)

\* The session of a process that is gone, or gave its tenure up, expires.
SessionExpires(p) ==
    /\ holder = p
    /\ pc[p] \notin InTenure
    /\ holder' = NoOne
    /\ UNCHANGED <<saved, published, pc, starts, channelVars, tenureVars,
                   runnerVars, updateVars>>

\* A live leader's session ends: its lock is free before it knows.
SessionLost(p) ==
    /\ "session" \in Faults
    /\ holder = p
    /\ pc[p] \in InTenure
    /\ holder' = NoOne
    /\ UNCHANGED <<saved, published, pc, starts, channelVars, tenureVars,
                   runnerVars, updateVars>>

\* Consul's monitor closes the lock error channel: the lock is lost, or the
\* monitor's retries are used up.
MonitorGivesUp(p) ==
    /\ pc[p] \in {"restore", "lead", "save"}
    /\ ~lockErrorCh[p]
    /\ holder # p \/ "session" \in Faults
    /\ lockErrorCh' = [lockErrorCh EXCEPT ![p] = TRUE]
    /\ UNCHANGED <<consulVars, published, pc, starts, channelVars, tenure, result,
                   runnerVars, updateVars>>

\* The process is killed.
Crash(p) ==
    /\ "crash" \in Faults
    /\ pc[p] \notin Down
    /\ Exit(p, "killed")

-----------------------------------------------------------------------------

\* The main goroutine, but for the wait in Lock.
MainStep(p) ==
    \/ Boot(p) \/ LoopTimer(p) \/ LoopStop(p)
    \/ Restore(p) \/ TakeUpdate(p) \/ Save(p)
    \/ LeadStop(p) \/ LeadLockLost(p) \/ LeadReleased(p)
    \/ StopRunner(p) \/ StopRunnerPanics(p) \/ SinkStopped(p)
    \/ Unlock(p) \/ Fail(p)

StopCase(p) == LoopStop(p) \/ LeadStop(p) \/ LeadLockLost(p) \/ LeadReleased(p)

WatchStep(p, t) == RunnerStart(p, t) \/ WatchPublish(p, t) \/ WatchCommit(p, t)

PersistStep(p, t) == PersistTick(p, t) \/ PersistSend(p, t)

Next ==
    \E p \in Procs :
        \/ MainStep(p) \/ Lock(p) \/ LockFails(p)
        \/ Cleanup(p) \/ CleanupDone(p)
        \/ \E t \in Tenures : WatchStep(p, t) \/ PersistStep(p, t)
        \/ SessionExpires(p) \/ SessionLost(p) \/ MonitorGivesUp(p) \/ Crash(p)

Spec == Init /\ [][Next]_vars

(***************************************************************************)
(* Fairness.  The Go scheduler runs every goroutine that can go on (weak   *)
(* fairness); select picks among its ready cases at random, so a stop case *)
(* that is ready again and again is taken (strong fairness).  A supervisor *)
(* starts the process again, Consul expires a dead session and gives a     *)
(* free lock to one of those who wait (not to each of them), and the sink  *)
(* empties its queue.  Nothing makes a fault or a signal happen.           *)
(***************************************************************************)
Fairness ==
    /\ \A p \in Procs :
          /\ WF_vars(MainStep(p))
          /\ SF_vars(StopCase(p))
          /\ WF_vars(CleanupDone(p))
          /\ WF_vars(SessionExpires(p))
          /\ \A t \in Tenures : WF_vars(WatchStep(p, t)) /\ WF_vars(PersistStep(p, t))
    /\ WF_vars(\E p \in Procs : Lock(p))

FairSpec == Spec /\ Fairness

-----------------------------------------------------------------------------
(* Properties.                                                             *)

\* Every variable has its type.
TypeOK ==
    /\ holder \in Procs \cup {NoOne}
    /\ saved \in Indices
    /\ published \subseteq 1..MaxIndex
    /\ pc \in [Procs -> Down \cup InTenure \cup {"loop", "lock", "fail"}]
    /\ starts \in 0..MaxStarts
    /\ sig \in [Procs -> {"waiting", "closing", "done"}]
    /\ stopCh \in [Procs -> BOOLEAN]
    /\ releaseCh \in [Procs -> BOOLEAN]
    /\ lockErrorCh \in [Procs -> BOOLEAN]
    /\ tenure \in [Procs -> 0..MaxTenures]
    /\ result \in [Procs -> {"nil", "error"}]
    /\ runnerCh \in [Procs -> {"nil", "open", "closed"}]
    /\ lastChange \in [Procs -> Indices]
    /\ watch \in [Procs -> [Tenures -> {"off", "spawned", "listing", "publishing"}]]
    /\ newMax \in [Procs -> [Tenures -> Indices]]
    /\ sending \in [Procs -> [Tenures -> Indices \cup {Nothing}]]
    /\ updateCh \in [Procs -> Indices \cup {Nothing}]
    /\ hand \in [Procs -> Indices \cup {Nothing}]

\* The restore point never passes a change that no process published, whatever
\* is lost, killed or restarted, and however many processes believe they lead:
\* a process that resumes from it (restoreLastChangeTime) skips nothing.
NothingSkipped == 1..saved \subseteq published

\* What the main goroutine's place says of its tenure and of the update in its
\* hand; with it TypeOK is inductive.
MainInv ==
    \A p \in Procs :
        /\ pc[p] = "lock" => tenure[p] < MaxTenures
        /\ pc[p] \in InTenure => tenure[p] \in Tenures
        /\ pc[p] = "save" => hand[p] # Nothing

\* NothingSkipped as an inductive invariant: every value on its way to the restore
\* point, in the watch goroutines, the channel and the main goroutine, is one up
\* to which all changes were published.
Covered(v) == 1..v \subseteq published

CoveredInv ==
    /\ Covered(saved)
    /\ \A p \in Procs :
          /\ Covered(lastChange[p]) /\ Covered(updateCh[p]) /\ Covered(hand[p])
          /\ \A t \in Tenures : Covered(newMax[p][t]) /\ Covered(sending[p][t])

\* No two processes are between Lock and Unlock at the same time, so only one
\* writes the restore point (when Consul ends no live leader's session).
OneLeader ==
    \A p, q \in Procs : pc[p] \in InTenure /\ pc[q] \in InTenure => p = q

\* OneLeader as an inductive invariant: who is between Lock and Unlock has the lock.
LeaseInv == \A p \in Procs : pc[p] \in InTenure => holder = p

\* Stop never closes a nil or an already closed channel.
NoPanic == \A p \in Procs : pc[p] # "panicked"

\* NoPanic as an inductive invariant, where the runner's stopCh is born open and
\* there is one tenure: the channel is open until the tenure's StopRunner.
StopOnceInv ==
    \A p \in Procs :
        /\ runnerCh[p] # "nil"
        /\ runnerCh[p] = "closed" =>
              tenure[p] # 0 /\ pc[p] \notin {"restore", "lead", "save", "stop"}

\* The process between Lock and Unlock, if there is one.
Leader ==
    IF \E p \in Procs : pc[p] \in InTenure
    THEN CHOOSE p \in Procs : pc[p] \in InTenure
    ELSE NoOne

L == INSTANCE Leadership WITH leader <- Leader

\* The managers implement Leadership: one leader, and a restore point that the
\* leader alone moves, forward, over published changes (when Consul ends no live
\* leader's session, the restore point can be read, and no goroutine stalls).
ImplementsLeadership == L!Spec

\* What ImplementsLeadership needs besides LeaseInv, where there is one tenure: the
\* values on their way to the restore point are older the nearer they are to it,
\* and before a tenure there are none.
ForwardInv ==
    \A p \in Procs :
        /\ tenure[p] = 0 \/ pc[p] = "restore" =>
              /\ hand[p] = Nothing /\ updateCh[p] = Nothing
              /\ \A t \in Tenures : watch[p][t] = "off" /\ sending[p][t] = Nothing
        /\ \A t \in Tenures :
              /\ watch[p][t] \in {"listing", "publishing"} =>
                    lastChange[p] <= newMax[p][t]
              /\ sending[p][t] <= lastChange[p]
              /\ sending[p][t] # Nothing =>
                    hand[p] <= sending[p][t] /\ updateCh[p] <= sending[p][t]
        /\ hand[p] <= lastChange[p] /\ updateCh[p] <= lastChange[p]
        /\ updateCh[p] # Nothing => hand[p] <= updateCh[p]
        /\ pc[p] \in {"lead", "save"} =>
              /\ saved <= lastChange[p]
              /\ hand[p] # Nothing => saved <= hand[p]
              /\ updateCh[p] # Nothing => saved <= updateCh[p]
              /\ \A t \in Tenures :
                    sending[p][t] # Nothing => saved <= sending[p][t]

\* A leader that is told to stop does stop (signalHandler, cleanup): it drains
\* its sink, releases the lock, and its process ends.
LeaderStops ==
    \A p \in Procs : (pc[p] = "lead" /\ sig[p] # "waiting") ~> (pc[p] \in Down)

\* As long as some process stays up, every change is published and the restore
\* point catches up with it, whoever takes the lock over from whom.
CatchesUp ==
    (<>[](\E p \in Procs : pc[p] \notin Down)) => <>(saved = MaxIndex)

\* helper/manager.go:61, of the acquisition loop: "it will run until the stopCh
\* is closed".  A process whose stopCh is closed ends.
RunsUntilStopped == \A p \in Procs : stopCh[p] ~> (pc[p] \in Down)
=============================================================================
