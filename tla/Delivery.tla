------------------------------ MODULE Delivery ------------------------------
(***************************************************************************)
(* What a sink promises, without its channels and writers: of the items it *)
(* accepted, each reaches the destination at most once or is dropped with  *)
(* a logged error, never both, and what reached it stays.  One writer that *)
(* sends an item at a time keeps the order in which they were accepted.    *)
(***************************************************************************)
EXTENDS Integers, SequencesExt

CONSTANTS Ordered   \* whether they are delivered in order

VARIABLES
    put,        \* items 1..put were accepted
    delivered,  \* the items that reached the destination, in order
    dropped     \* the items given up with a logged error

vars == <<put, delivered, dropped>>

Init ==
    /\ put = 0
    /\ delivered = <<>>
    /\ dropped = {}

Accept ==
    /\ put' = put + 1
    /\ UNCHANGED <<delivered, dropped>>

\* An accepted item has one fate.
Settled == ToSet(delivered) \cup dropped

OneFate ==
    /\ Settled \subseteq 1..put
    /\ IsInjective(delivered)
    /\ ToSet(delivered) \cap dropped = {}

InOrder == \A i, j \in 1..Len(delivered) : i < j => delivered[i] < delivered[j]

Settle ==
    /\ IsPrefix(delivered, delivered')
    /\ dropped \subseteq dropped'
    /\ OneFate'
    /\ Ordered => InOrder'
    /\ UNCHANGED put

Next == Accept \/ Settle

Spec == Init /\ [][Next]_vars
=============================================================================
