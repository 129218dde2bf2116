------------------------------ MODULE Pipeline ------------------------------
(***************************************************************************)
(* A firehose from end to end: the watch of jobliststubs (IndexWatch), the *)
(* queue and the writers of its sink (QueueSink), the restore point, and   *)
(* the processes that run it one after the other.                          *)
(*                                                                         *)
(* The last change moves when the sink has accepted the items up to it,    *)
(* not when the destination has them: what is saved runs ahead of what is  *)
(* delivered by as much as the queue and the writers hold.                 *)
(***************************************************************************)
EXTENDS Integers, Sequences, FiniteSets

CONSTANTS
    Objects,      \* the identifiers of the table's objects
    MaxIndex,     \* bound: Nomad makes changes 1..MaxIndex
    MaxRestarts,  \* bound: how often the process is started again
    Sink,         \* the sink's profile
    Writers,      \* its writers
    Capacity,     \* the queue's capacity
    MaxItems,     \* bound: how many items the firehose puts
    Faults        \* QueueSink's faults

VARIABLES
    log, at, waitIndex, lastIndex, todo, lastChange, newMax, fetches, emitted,
    latest, saved, restarts,                    \* those of IndexWatch
    put, queue, writer, hand, delivered, dropped, refused, stop, waitedFor, up,
                                                \* those of QueueSink
    version,    \* version[n] is the <<object, ModifyIndex>> of item n
    lost        \* the items that went with a process though they were saved

watchVars == <<log, at, waitIndex, lastIndex, todo, lastChange, newMax, fetches,
               emitted, latest, saved, restarts>>
queueVars == <<put, queue, writer, hand, delivered, dropped, refused, stop, waitedFor,
               up>>
vars == <<watchVars, queueVars, version, lost>>

\* The process that leads: its watch publishes what it lists, and it runs.
W == INSTANCE IndexWatch WITH
        Watch <- [selects |-> "newer", fetches |-> FALSE],
        InfoFaults <- FALSE
S == INSTANCE QueueSink

ASSUME PipelineAssumption ==
    /\ MaxIndex \in Nat
    /\ MaxRestarts \in Nat
    /\ Sink \in S!SinkProfiles
    /\ IsFiniteSet(Writers)
    /\ Sink.writers = "one" => Cardinality(Writers) = 1
    /\ Sink.writers = "three" => Cardinality(Writers) = 3
    /\ Capacity \in Nat \ {0}
    /\ MaxItems \in Nat
    /\ Faults \subseteq S!AllFaults

\* The items that are in the queue or in a writer's hand.
InFlight ==
    {queue[i] : i \in DOMAIN queue} \cup ({hand[w] : w \in Writers} \ {0})

\* Those that no process would send again if this one ended now: the next one
\* resumes behind them.
Exposed == {n \in InFlight : version[n][2] <= saved}

-----------------------------------------------------------------------------

Init ==
    /\ W!Init
    /\ S!Init
    /\ version = <<>>
    /\ lost = {}

\* Nomad changes, and watch lists and commits, beside the sink.
WatchStep ==
    /\ W!Change \/ (up /\ (W!List \/ W!Commit))
    /\ UNCHANGED <<queueVars, version, lost>>

\* Mutant of Publish: watch goes on although the queue is full.
PublishDrops ==
    \E e \in todo :
        /\ W!Visit /\ e \notin todo'
        /\ IF Len(queue) < Capacity
           THEN S!Put /\ version' = Append(version, e)
           ELSE UNCHANGED <<queueVars, version>>
        /\ UNCHANGED lost

\* watch publishes a version: it waits until the queue has room.
Publish ==
    \E e \in todo :
        /\ W!Visit /\ e \notin todo'
        /\ S!Put
        /\ version' = Append(version, e)
        /\ UNCHANGED lost

\* The writers send, and the runner's Stop waits, beside watch.
SinkStep ==
    /\ \/ \E w \in Writers : S!WriterStep(w)
       \/ S!StopCalled \/ S!StopReturns
    /\ UNCHANGED <<watchVars, version, lost>>

\* Mutant of Persist: the last change is saved while the runner stops.
PersistAlways ==
    /\ up
    /\ W!Persist
    /\ UNCHANGED <<queueVars, version, lost>>

\* The manager saves the last change as long as it does not stop the runner.
Persist ==
    /\ up /\ stop = "no"
    /\ W!Persist
    /\ UNCHANGED <<queueVars, version, lost>>

\* The process ends: of its queue and its writers nothing is left.
End ==
    /\ S!ProcessEnds
    /\ lost' = lost \cup Exposed
    /\ UNCHANGED <<watchVars, version>>

\* The next one resumes from the restore point.
Resume ==
    /\ ~up
    /\ W!Restart
    /\ up' = TRUE
    /\ queue' = <<>>
    /\ writer' = [w \in Writers |-> "spawned"]
    /\ hand' = [w \in Writers |-> 0]
    /\ stop' = "no"
    /\ waitedFor' = 0
    /\ UNCHANGED <<put, delivered, dropped, refused, version, lost>>

Next == WatchStep \/ Publish \/ SinkStep \/ Persist \/ End \/ Resume

Spec == Init /\ [][Next]_vars

-----------------------------------------------------------------------------
(* Properties.                                                             *)

\* Every variable has its type.
TypeOK ==
    /\ W!TypeOK
    /\ S!TypeOK
    /\ version \in Seq(emitted) /\ Len(version) = put
    /\ lost \subseteq 1..put

\* What a process that is killed loses for good is at most what its queue and its
\* writers hold; once Stop has returned it is at most one item per writer, for
\* what watch put in the queue since Stop was called is not saved any more.
LossBounded ==
    up => Cardinality(Exposed) <=
              Cardinality(Writers) + (IF stop = "done" THEN 0 ELSE Capacity)

\* The items that were sent, whatever the destination did with them, are on their
\* way there, or were lost with a process.
Sent == S!Over \cup InFlight \cup lost

\* Feed as seen from the far end: the version of such an item counts as emitted.
Far == INSTANCE Feed WITH emitted <- {version[n] : n \in Sent}

\* Nothing else is lost: a change below the restore point is one of these, or its
\* object was deleted since.  (persistLastChangeTime: a new process "will try to
\* resume from where it left off".)
ResumesWhereItLeftOff == \A j \in 1..saved : Far!Delivered(j)

\* The processes' sinks, one after the other, implement Delivery: a restart sends
\* no item of the process before it, and the items stay in order.
ImplementsDelivery == S!ImplementsDelivery

-----------------------------------------------------------------------------
(* The inductive invariants behind TypeOK, LossBounded,                    *)
(* ResumesWhereItLeftOff and ImplementsDelivery; PipelineProofs proves     *)
(* them.                                                                   *)

\* Those of the watch and of the sink (but for S!HeldInv, which a restart breaks:
\* what the writers had in hand is gone).
WatchInv == W!KnownInv /\ W!AheadInv
SinkInv == S!HandInv /\ S!QueueInv /\ S!DrainInv /\ S!FateInv /\ S!OrderInv

\* Change j is in an item that watch put up to version m, or its object is gone.
Reached(j, m) ==
    \/ \E n \in Sent :
          /\ version[n][1] = log[j].obj
          /\ version[n][2] \in j..m
    \/ \E d \in j..Len(log) : log[d].obj = log[j].obj /\ log[d].gone

\* What is saved was put in the sink, and so was what will be saved; what was put
\* beyond it may go with the process, for the next one puts it again.
SavedInv ==
    /\ \A j \in 1..saved : Reached(j, saved)
    /\ up => \A j \in 1..lastChange : Reached(j, lastChange)
    /\ up /\ at = "visit" =>
          \A j \in 1..lastIndex :
              Reached(j, newMax) \/ \E e \in todo : e[1] = log[j].obj /\ e[2] >= j
    /\ ~up => Exposed \subseteq lost

\* What was put since Stop was called is not saved.
StopInv == stop # "no" => \A n \in (waitedFor + 1)..put : version[n][2] > saved
=============================================================================
