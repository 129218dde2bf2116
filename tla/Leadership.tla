----------------------------- MODULE Leadership -----------------------------
(***************************************************************************)
(* What the managers of one firehose promise together, without their       *)
(* goroutines, channels and sessions: one leader at a time, and a restore  *)
(* point that only the leader moves, only forward, and never past a change *)
(* that was not published.                                                 *)
(***************************************************************************)
EXTENDS Integers

CONSTANTS Procs, NoOne

VARIABLES
    leader,     \* the process that may move the restore point, or NoOne
    saved,      \* the restore point
    published   \* the changes that were published

vars == <<leader, saved, published>>

Init ==
    /\ leader = NoOne
    /\ saved = 0
    /\ published = {}

\* Leadership is taken only when nobody has it.
Elect ==
    /\ leader = NoOne
    /\ leader' \in Procs
    /\ UNCHANGED <<saved, published>>

\* The leader steps down, or dies.
StepDown ==
    /\ leader \in Procs
    /\ leader' = NoOne
    /\ UNCHANGED <<saved, published>>

\* The leader moves the restore point over published changes.
Advance ==
    /\ leader \in Procs
    /\ saved' \in Nat
    /\ saved' >= saved
    /\ 1..saved' \subseteq published
    /\ UNCHANGED <<leader, published>>

\* Changes are published, by the leader or by one that no longer leads.
Publish ==
    /\ published \subseteq published'
    /\ UNCHANGED <<leader, saved>>

Next == Elect \/ StepDown \/ Advance \/ Publish

Spec == Init /\ [][Next]_vars
=============================================================================
