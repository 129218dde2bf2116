----------------------------- MODULE IndexWatch -----------------------------
(***************************************************************************)
(* The watch goroutine of a firehose that follows the index of a Nomad     *)
(* table (nodes, deployments, jobs, jobliststubs, evaluations): it lists   *)
(* the table with a blocking, possibly stale query, emits what its filter  *)
(* selects, and moves the last change.  The last change is saved from time *)
(* to time, and a new process resumes from what was saved; Manager has the *)
(* details of how.  Here one process watches at a time.                    *)
(*                                                                         *)
(* The firehoses are the same text but for two things:                     *)
(*                                                                         *)
(*   selects  "newer": an object is selected if it was modified after the  *)
(*            last change, which becomes the largest such index;           *)
(*            "exact": it is selected if it was modified at the last       *)
(*            change, which becomes the index of the list;                 *)
(*   fetches  a selected object is fetched by a goroutine of its own, which*)
(*            emits what it gets; or the listed stub itself is emitted.    *)
(***************************************************************************)
EXTENDS Integers, Sequences, FiniteSetsExt

CONSTANTS
    Objects,      \* the identifiers of the table's objects
    Watch,        \* the firehose's profile
    MaxIndex,     \* bound: Nomad makes changes 1..MaxIndex
    MaxRestarts,  \* bound: how often the process is started again
    InfoFaults    \* whether a fetch may fail for an object that exists

WatchProfiles == [selects : {"newer", "exact"}, fetches : BOOLEAN]

\* `jobliststubs`
StubsWatch == [selects |-> "newer", fetches |-> FALSE]

\* `nodes`, `deployments` and `jobs`
FetchWatch == [selects |-> "newer", fetches |-> TRUE]

\* `evaluations`
EvaluationsWatch == [selects |-> "exact", fetches |-> FALSE]

ASSUME IndexWatchAssumption ==
    /\ Watch \in WatchProfiles
    /\ MaxIndex \in Nat
    /\ MaxRestarts \in Nat
    /\ InfoFaults \in BOOLEAN

VARIABLES
    log,        \* Nomad: log[i] is what index i did to the table
    at,         \* where watch is: "list" or "visit"
    waitIndex,  \* q.WaitIndex
    lastIndex,  \* meta.LastIndex of the list that is being visited
    todo,       \* the selected <<object, ModifyIndex>> pairs not yet visited
    lastChange, \* the firehose's lastChangeIndex
    newMax,     \* watch's local newMax
    fetches,    \* the fetch goroutines: <<object, listed index, fetched index>>
    emitted,    \* every <<object, ModifyIndex>> put in the sink
    latest,     \* per object, the index this process emitted last (0: none)
    saved,      \* the restore point
    restarts    \* how often the process was started again

nomadVars == <<log>>
watchVars == <<at, waitIndex, lastIndex, todo, lastChange, newMax>>
sinkVars == <<emitted, latest>>
savedVars == <<saved, restarts>>
vars == <<nomadVars, watchVars, fetches, sinkVars, savedVars>>

Indices == 0..MaxIndex
Versions == Objects \X (1..MaxIndex)
Changes == [obj : Objects, gone : BOOLEAN]

\* The object's ModifyIndex as of index k, or 0 if the table does not have it.
ModifyIndex(o, k) ==
    LET last == Max({0} \cup {j \in 1..k : log[j].obj = o})
    IN  IF last > 0 /\ log[last].gone THEN 0 ELSE last

\* The table as of index k.
Table(k) == {e \in Versions : e[2] = ModifyIndex(e[1], k)}

\* Mutant of Selected: whatever is listed is selected.
SelectedAll(v) == v > 0

\* Mutant of Selected: one change too far.
SelectedLate(v) == v > lastChange + 1

Selected(v) ==
    IF Watch.selects = "newer" THEN v > lastChange ELSE v = lastChange

-----------------------------------------------------------------------------

Init ==
    /\ log = <<>>
    /\ at = "list"
    /\ waitIndex = 0
    /\ lastIndex = 0
    /\ todo = {}
    /\ lastChange = 0
    /\ newMax = 0
    /\ fetches = {}
    /\ emitted = {}
    /\ latest = [o \in Objects |-> 0]
    /\ saved = 0
    /\ restarts = 0

\* Nomad sets or deletes an object.
Change ==
    /\ Len(log) < MaxIndex
    /\ \E c \in Changes :
          /\ c.gone => ModifyIndex(c.obj, Len(log)) > 0
          /\ log' = Append(log, c)
    /\ UNCHANGED <<watchVars, fetches, sinkVars, savedVars>>

\* The blocking query returns the table as of index k.  (A query that fails is
\* repeated after a while; so is one whose index is the one waited for.)
ListAt(k) ==
    /\ at = "list"
    /\ k # waitIndex
    /\ lastIndex' = k
    /\ todo' = {e \in Table(k) : Selected(e[2])}
    /\ at' = "visit"
    /\ UNCHANGED <<nomadVars, waitIndex, lastChange, newMax, fetches, sinkVars,
                   savedVars>>

\* AllowStale: the server that answers may be behind, even behind waitIndex.
List == \E k \in 0..Len(log) : ListAt(k)

\* publish: the sink takes the version.
Put(o, v) ==
    /\ emitted' = emitted \cup {<<o, v>>}
    /\ latest' = [latest EXCEPT ![o] = v]

\* One selected object: it is fetched by a new goroutine, or published at once.
Visit ==
    /\ at = "visit"
    /\ \E e \in todo :
          /\ todo' = todo \ {e}
          /\ newMax' = IF e[2] > newMax THEN e[2] ELSE newMax
          /\ IF Watch.fetches
             THEN /\ fetches' = fetches \cup {<<e[1], e[2], 0>>}
                  /\ UNCHANGED sinkVars
             ELSE /\ Put(e[1], e[2])
                  /\ UNCHANGED fetches
    /\ UNCHANGED <<nomadVars, at, waitIndex, lastIndex, lastChange, savedVars>>

\* Mutant of Commit: the last change is the index of the list.
CommitLastIndex ==
    /\ at = "visit"
    /\ todo = {}
    /\ waitIndex' = lastIndex
    /\ lastChange' = lastIndex
    /\ at' = "list"
    /\ UNCHANGED <<nomadVars, lastIndex, todo, newMax, fetches, sinkVars,
                   savedVars>>

\* Mutant of Commit: the last change is the one to come.
CommitBeyond ==
    /\ at = "visit"
    /\ todo = {}
    /\ waitIndex' = lastIndex
    /\ lastChange' = newMax + 1
    /\ at' = "list"
    /\ UNCHANGED <<nomadVars, lastIndex, todo, newMax, fetches, sinkVars,
                   savedVars>>

\* The end of the loop's body.
Commit ==
    /\ at = "visit"
    /\ todo = {}
    /\ waitIndex' = lastIndex
    /\ lastChange' = IF Watch.selects = "newer" THEN newMax ELSE lastIndex
    /\ at' = "list"
    /\ UNCHANGED <<nomadVars, lastIndex, todo, newMax, fetches, sinkVars,
                   savedVars>>

\* Info returns the object as it is now, not as it was listed.
Info ==
    /\ \E f \in fetches :
          LET now == ModifyIndex(f[1], Len(log)) IN
          /\ f[3] = 0
          /\ now > 0
          /\ fetches' = (fetches \ {f}) \cup {<<f[1], f[2], now>>}
    /\ UNCHANGED <<nomadVars, watchVars, sinkVars, savedVars>>

\* Info fails, for one because the object is gone: the goroutine ends.
InfoFails ==
    /\ \E f \in fetches :
          /\ f[3] = 0
          /\ InfoFaults \/ ModifyIndex(f[1], Len(log)) = 0
          /\ fetches' = fetches \ {f}
    /\ UNCHANGED <<nomadVars, watchVars, sinkVars, savedVars>>

\* The goroutine publishes what it fetched, and ends.
PutFetched ==
    /\ \E f \in fetches :
          /\ f[3] > 0
          /\ Put(f[1], f[3])
          /\ fetches' = fetches \ {f}
    /\ UNCHANGED <<nomadVars, watchVars, savedVars>>

\* The persister reads the last change, and the manager saves it.
Persist ==
    /\ saved # lastChange
    /\ saved' = lastChange
    /\ UNCHANGED <<nomadVars, watchVars, fetches, sinkVars, restarts>>

\* Mutant of Restart: the new process begins with what changes from now on.
RestartFromNow ==
    /\ restarts < MaxRestarts
    /\ restarts' = restarts + 1
    /\ at' = "list"
    /\ waitIndex' = Len(log)
    /\ lastIndex' = 0
    /\ todo' = {}
    /\ lastChange' = Len(log)
    /\ newMax' = Len(log)
    /\ fetches' = {}
    /\ latest' = [o \in Objects |-> 0]
    /\ UNCHANGED <<nomadVars, emitted, saved>>

\* The process ends, and a new one resumes from the restore point.
Restart ==
    /\ restarts < MaxRestarts
    /\ restarts' = restarts + 1
    /\ at' = "list"
    /\ waitIndex' = saved
    /\ lastIndex' = 0
    /\ todo' = {}
    /\ lastChange' = saved
    /\ newMax' = saved
    /\ fetches' = {}
    /\ latest' = [o \in Objects |-> 0]
    /\ UNCHANGED <<nomadVars, emitted, saved>>

Next ==
    \/ Change
    \/ List \/ Visit \/ Commit
    \/ Info \/ InfoFails \/ PutFetched
    \/ Persist \/ Restart

Spec == Init /\ [][Next]_vars

\* A list that is asked for again and again is up to date in the end; a goroutine
\* that can go on does; an Info call that may succeed is answered.
Fairness ==
    /\ SF_vars(ListAt(Len(log)))
    /\ WF_vars(Visit)
    /\ WF_vars(Commit)
    /\ WF_vars(Info)
    /\ WF_vars(PutFetched)

FairSpec == Spec /\ Fairness

-----------------------------------------------------------------------------
(* Properties.                                                             *)

F == INSTANCE Feed

\* Every variable has its type.
TypeOK ==
    /\ log \in Seq(Changes) /\ Len(log) <= MaxIndex
    /\ at \in {"list", "visit"}
    /\ waitIndex \in Indices
    /\ lastIndex \in Indices
    /\ todo \subseteq Versions
    /\ lastChange \in Indices
    /\ newMax \in Indices
    /\ fetches \subseteq Objects \X (1..MaxIndex) \X Indices
    /\ emitted \subseteq Versions
    /\ latest \in [Objects -> Indices]
    /\ saved \in Indices
    /\ restarts \in 0..MaxRestarts

\* Change j needs nothing more from watch.
Covered(j) ==
    F!Delivered(j) \/ \E f \in fetches : f[1] = log[j].obj /\ f[2] >= j

\* Where nothing is lost with a process, the last change never passes a change
\* whose object was neither emitted, nor is being fetched, nor deleted since:
\* no stale list and no list between two changes makes watch miss one.
NothingPassedOver == \A j \in 1..lastChange : Covered(j)

\* A process emits the versions of an object in the order Nomad made them.
EmittedInOrder ==
    [][\A o \in Objects : restarts' = restarts => latest'[o] >= latest[o]]_vars

\* The firehose implements Feed: what it resumes from was delivered, whatever
\* the lists show and whenever the process ends (jobliststubs).
ImplementsFeed == F!Spec

\* README.md:167 (evaluations), and so for the others: the firehose will "emit a
\* firehose event per change".  An object that stays as it is after a change
\* gets emitted as it is.
EventuallyEmitted ==
    \A e \in Versions :
        (ModifyIndex(e[1], Len(log)) = e[2])
            ~> (e \in emitted \/ ModifyIndex(e[1], Len(log)) # e[2])

-----------------------------------------------------------------------------
(* The inductive invariants behind NothingPassedOver, EmittedInOrder and   *)
(* ImplementsFeed; IndexWatchProofs proves them.                           *)

\* Nomad's index v set the object.
Had(o, v) == v \in 1..Len(log) /\ log[v].obj = o /\ ~log[v].gone

\* What was listed, fetched and emitted are versions that Nomad had; a fetch gets
\* the listed version or a later one.
KnownInv ==
    /\ lastIndex <= Len(log)
    /\ \A e \in todo : Had(e[1], e[2]) /\ e[2] <= lastIndex
    /\ \A e \in emitted : Had(e[1], e[2])
    /\ \A f \in fetches :
          /\ Had(f[1], f[2])
          /\ f[3] > 0 => Had(f[1], f[3]) /\ f[3] >= f[2]
    /\ Watch.fetches \/ fetches = {}
    /\ at = "list" => todo = {}

\* The restore point, the last change and newMax are in this order, none of them
\* beyond what Nomad did, and newMax is of this list once it moved.
AheadInv ==
    Watch.selects = "newer" =>
        /\ saved <= lastChange /\ lastChange <= newMax /\ newMax <= Len(log)
        /\ newMax = lastChange \/ (at = "visit" /\ newMax <= lastIndex)
        /\ \A e \in todo : e[2] > lastChange

\* No fetch is lost: none fails for an object that exists, or ends with a process.
Lossless ==
    /\ Watch.selects = "newer"
    /\ Watch.fetches => ~InfoFaults /\ MaxRestarts = 0

\* A change up to the last change is covered; one of the list is, or its object is
\* still to visit.
CoverInv ==
    Lossless =>
        /\ NothingPassedOver
        /\ at = "visit" =>
              \A j \in 1..lastIndex :
                  Covered(j) \/ \E e \in todo : e[1] = log[j].obj /\ e[2] >= j

\* Of an object there is one version to visit, and it is later than the one that
\* was emitted last.
OrderInv ==
    Watch.selects = "newer" /\ ~Watch.fetches =>
        /\ \A d, e \in todo : d[1] = e[1] => d = e
        /\ \A o \in Objects : latest[o] <= newMax
        /\ \A e \in todo : latest[e[1]] <= lastChange
=============================================================================
