----------------------------- MODULE AllocWatch -----------------------------
(***************************************************************************)
(* The watch goroutine of the allocations firehose.  It lists the          *)
(* allocations, and emits the events of their tasks.  Unlike the other     *)
(* firehoses (IndexWatch) it tells old from new by the events' own times,  *)
(* which the Nomad clients write, and not by Nomad's index.                *)
(*                                                                         *)
(* An event is the index at which Nomad's servers learned of it; the       *)
(* clients' clocks, and how long their updates take, decide its time.      *)
(***************************************************************************)
EXTENDS Integers, Sequences

CONSTANTS
    MaxEvents,    \* bound: how many events there are
    MaxTime,      \* bound: the latest time of an event
    MaxRestarts   \* bound: how often the process is started again

ASSUME AllocWatchAssumption ==
    /\ MaxEvents \in Nat
    /\ MaxTime \in Nat
    /\ MaxRestarts \in Nat

VARIABLES
    time,       \* Nomad: time[e] is the time of the e-th event
    at,         \* where watch is: "list" or "visit"
    waitIndex,  \* q.WaitIndex
    lastIndex,  \* meta.LastIndex of the list that is being visited
    todo,       \* the listed events newer than the last change, not yet visited
    lastChange, \* lastChangeTime
    newMax,     \* watch's local newMax
    emitted,    \* the events put in the sink, by any process
    mine,       \* those this process put there
    saved,      \* the restore point
    restarts    \* how often the process was started again

watchVars == <<at, waitIndex, lastIndex, todo, lastChange, newMax>>
sinkVars == <<emitted, mine>>
savedVars == <<saved, restarts>>
vars == <<time, watchVars, sinkVars, savedVars>>

Times == 1..MaxTime
Events == 1..MaxEvents

-----------------------------------------------------------------------------

Init ==
    /\ time = <<>>
    /\ at = "list"
    /\ waitIndex = 1
    /\ lastIndex = 1
    /\ todo = {}
    /\ lastChange = 0
    /\ newMax = 0
    /\ emitted = {}
    /\ mine = {}
    /\ saved = 0
    /\ restarts = 0

\* A client's event reaches the servers.
Event ==
    /\ Len(time) < MaxEvents
    /\ \E t \in Times : time' = Append(time, t)
    /\ UNCHANGED <<watchVars, sinkVars, savedVars>>

\* Mutant of ListAt: the events of the last change are selected again.
ListAgain(k) ==
    /\ at = "list"
    /\ k + 1 # waitIndex
    /\ lastIndex' = k + 1
    /\ todo' = {e \in 1..k : time[e] >= lastChange}
    /\ at' = "visit"
    /\ UNCHANGED <<time, waitIndex, lastChange, newMax, sinkVars, savedVars>>

\* The blocking query returns the first k events; the table's first index is 1.
ListAt(k) ==
    /\ at = "list"
    /\ k + 1 # waitIndex
    /\ lastIndex' = k + 1
    /\ todo' = {e \in 1..k : time[e] > lastChange}
    /\ at' = "visit"
    /\ UNCHANGED <<time, waitIndex, lastChange, newMax, sinkVars, savedVars>>

\* AllowStale: the server that answers may be behind.
List == \E k \in 0..Len(time) : ListAt(k)

\* Mutant of Visit: newMax passes the event.
VisitBeyond ==
    /\ at = "visit"
    /\ \E e \in todo :
          /\ todo' = todo \ {e}
          /\ newMax' = IF time[e] >= newMax THEN time[e] + 1 ELSE newMax
          /\ emitted' = emitted \cup {e}
          /\ mine' = mine \cup {e}
    /\ UNCHANGED <<time, at, waitIndex, lastIndex, lastChange, savedVars>>

\* One event that is newer than the last change is published.
Visit ==
    /\ at = "visit"
    /\ \E e \in todo :
          /\ todo' = todo \ {e}
          /\ newMax' = IF time[e] > newMax THEN time[e] ELSE newMax
          /\ emitted' = emitted \cup {e}
          /\ mine' = mine \cup {e}
    /\ UNCHANGED <<time, at, waitIndex, lastIndex, lastChange, savedVars>>

\* Mutant of Commit: the last change is the index of the list, not a time.
CommitLastIndex ==
    /\ at = "visit"
    /\ todo = {}
    /\ waitIndex' = lastIndex
    /\ lastChange' = lastIndex
    /\ at' = "list"
    /\ UNCHANGED <<time, lastIndex, todo, newMax, sinkVars, savedVars>>

\* The end of the loop's body.
Commit ==
    /\ at = "visit"
    /\ todo = {}
    /\ waitIndex' = lastIndex
    /\ lastChange' = newMax
    /\ at' = "list"
    /\ UNCHANGED <<time, lastIndex, todo, newMax, sinkVars, savedVars>>

\* The persister reads the last change, and the manager saves it.
Persist ==
    /\ saved # lastChange
    /\ saved' = lastChange
    /\ UNCHANGED <<time, watchVars, sinkVars, restarts>>

\* The process ends, and a new one resumes from the restore point.
Restart ==
    /\ restarts < MaxRestarts
    /\ restarts' = restarts + 1
    /\ at' = "list"
    /\ waitIndex' = 1
    /\ lastIndex' = 1
    /\ todo' = {}
    /\ lastChange' = saved
    /\ newMax' = saved
    /\ mine' = {}
    /\ UNCHANGED <<time, emitted, saved>>

Next == Event \/ List \/ Visit \/ Commit \/ Persist \/ Restart

Spec == Init /\ [][Next]_vars

\* A list that is asked for again and again is up to date in the end; watch goes
\* on when it can.
Fairness == SF_vars(ListAt(Len(time))) /\ WF_vars(Visit) /\ WF_vars(Commit)

FairSpec == Spec /\ Fairness

-----------------------------------------------------------------------------
(* Properties.                                                             *)

\* Every variable has its type.
TypeOK ==
    /\ time \in Seq(Times) /\ Len(time) <= MaxEvents
    /\ at \in {"list", "visit"}
    /\ waitIndex \in 1..(MaxEvents + 1)
    /\ lastIndex \in 1..(MaxEvents + 1)
    /\ todo \subseteq Events
    /\ lastChange \in 0..MaxTime
    /\ newMax \in 0..MaxTime
    /\ emitted \subseteq Events
    /\ mine \subseteq emitted
    /\ saved \in 0..MaxTime
    /\ restarts \in 0..MaxRestarts

\* Every event so far has reached the servers after those with earlier times, and
\* no two have the same time.
InStep == \A d, e \in 1..Len(time) : d < e => time[d] < time[e]

\* Where events arrive in step, a restart loses none: those up to the restore
\* point were emitted, although lists are stale and the process may end anywhere.
SavedMeansEmitted ==
    InStep => \A e \in 1..Len(time) : time[e] <= saved => e \in emitted

\* A process emits no event twice, whatever order the events arrive in and
\* however stale the lists are.
EmittedOnce ==
    [][restarts' = restarts => (todo \ todo') \cap mine = {}]_vars

\* Where events arrive in step, every event that Nomad learns of is emitted.
EmittedInStep ==
    \A e \in Events : (e <= Len(time)) ~> (e \in emitted \/ ~InStep)

\* README.md:112 (allocations): "emit each task state as a new firehose event".
\* Every event that has its time to itself is emitted, in whatever order events
\* reach Nomad.
EachEventEmitted ==
    \A e \in Events :
        (e <= Len(time) /\ \A d \in DOMAIN time \ {e} : time[d] # time[e])
            ~> (e \in emitted)

-----------------------------------------------------------------------------
(* The inductive invariants behind SavedMeansEmitted and EmittedOnce;      *)
(* AllocWatchProofs proves them.                                           *)

\* What the process holds and emitted is known to Nomad, and the list it visits is
\* one that Nomad had.
KnownInv ==
    /\ lastIndex - 1 <= Len(time)
    /\ emitted \subseteq 1..Len(time)
    /\ at = "visit" => todo \subseteq 1..(lastIndex - 1)
    /\ at = "list" => todo = {} /\ newMax = lastChange

\* What is still to visit is newer than all the process emitted before this list,
\* and nothing the process emitted is newer than its newMax.
RoundInv ==
    /\ lastChange <= newMax
    /\ \A e \in todo : time[e] > lastChange
    /\ todo \cap mine = {}
    /\ \A e \in mine : time[e] <= newMax

\* The last change, newMax and the restore point are times of emitted events.
Reached(t) == t = 0 \/ \E e \in emitted : time[e] = t
ReachedInv == Reached(lastChange) /\ Reached(newMax) /\ Reached(saved)

\* While the events arrive in step, those up to the restore point and to the last
\* change were emitted, and so were those of the list that are not still to visit.
InStepInv ==
    InStep =>
        /\ \A e \in 1..Len(time) :
              time[e] <= saved \/ time[e] <= lastChange => e \in emitted
        /\ at = "visit" => 1..(lastIndex - 1) \subseteq emitted \cup todo
        /\ newMax = lastChange \/ \E e \in 1..(lastIndex - 1) : time[e] = newMax
=============================================================================
