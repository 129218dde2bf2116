-------------------------------- MODULE Feed --------------------------------
(***************************************************************************)
(* What a firehose promises of the objects of one Nomad table, without     *)
(* lists, fetches and restarts: it emits versions that Nomad had, and its  *)
(* restore point moves only forward, over changes that were delivered.     *)
(***************************************************************************)
EXTENDS Integers, Sequences

CONSTANTS Objects

VARIABLES
    log,        \* Nomad's changes: log[i] is what index i did
    emitted,    \* the versions that were emitted, each <<object, index>>
    saved       \* the restore point

vars == <<log, emitted, saved>>

\* What one index of the table does: it sets an object, or deletes it.
Changes == [obj : Objects, gone : BOOLEAN]

\* Change j needs no event any more: its object was emitted as of then or later,
\* or it was deleted later.
Delivered(j) ==
    \/ \E e \in emitted : e[1] = log[j].obj /\ e[2] >= j
    \/ \E d \in j..Len(log) : log[d].obj = log[j].obj /\ log[d].gone

Init ==
    /\ log = <<>>
    /\ emitted = {}
    /\ saved = 0

Change ==
    /\ \E c \in Changes : log' = Append(log, c)
    /\ UNCHANGED <<emitted, saved>>

Emit ==
    /\ \E v \in 1..Len(log) :
          /\ ~log[v].gone
          /\ emitted' = emitted \cup {<<log[v].obj, v>>}
    /\ UNCHANGED <<log, saved>>

Save ==
    /\ saved' \in saved..Len(log)
    /\ \A j \in 1..saved' : Delivered(j)
    /\ UNCHANGED <<log, emitted>>

Next == Change \/ Emit \/ Save

Spec == Init /\ [][Next]_vars
=============================================================================
