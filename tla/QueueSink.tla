----------------------------- MODULE QueueSink -----------------------------
(***************************************************************************)
(* A sink with a bounded queue and writers that send one item at a time    *)
(* (sink/redis.go, nsq.go, kafka.go, kinesis.go, http.go, mongodb.go,      *)
(* rabbitmq.go, syslog_unix.go), and the process it runs in: the firehose  *)
(* puts items until the process ends, also while Stop waits for the queue  *)
(* to be empty, for neither watch nor the writers are told to stop.        *)
(***************************************************************************)
EXTENDS Integers, Sequences, FiniteSets, Sinks

CONSTANTS
    Sink,      \* the sink's profile
    Writers,   \* its writers
    Capacity,  \* the queue's capacity (1000 in the code)
    MaxItems,  \* bound: how many items the firehose puts
    Faults     \* the faults that happen, a subset of AllFaults

\* "open" a writer cannot open its channel or connection; "send" a send fails,
\* with the item at its destination or not; "refuse" the destination does not take
\* an item; "crash" the process is killed.
AllFaults == {"open", "send", "refuse", "crash"}

ASSUME QueueSinkAssumption ==
    /\ Sink \in SinkProfiles
    /\ IsFiniteSet(Writers)
    /\ Sink.writers = "one" => Cardinality(Writers) = 1
    /\ Sink.writers = "three" => Cardinality(Writers) = 3
    /\ Capacity \in Nat \ {0}
    /\ MaxItems \in Nat
    /\ Faults \subseteq AllFaults

VARIABLES
    put,        \* items 1..put were accepted by Put
    queue,      \* putCh
    writer,     \* per writer: "spawned", "ready", "sending" or "ended"
    hand,       \* per writer, the item it is sending (0: none)
    delivered,  \* the items that reached the destination, in order
    dropped,    \* the items whose send was logged as failed and did fail
    refused,    \* the items that did not reach it, which nothing noticed
    stop,       \* Stop: "no" (not called), "waiting" (for the queue), "done"
    waitedFor,  \* how many items were accepted when Stop was called
    up          \* whether the process runs

workVars == <<writer, hand>>
fateVars == <<delivered, dropped, refused>>
stopVars == <<stop, waitedFor>>
vars == <<put, queue, workVars, fateVars, stopVars, up>>

Items == 1..MaxItems

-----------------------------------------------------------------------------

\* The process leads: Start was called.
Init ==
    /\ put = 0
    /\ queue = <<>>
    /\ writer = [w \in Writers |-> "spawned"]
    /\ hand = [w \in Writers |-> 0]
    /\ delivered = <<>>
    /\ dropped = {}
    /\ refused = {}
    /\ stop = "no"
    /\ waitedFor = 0
    /\ up = TRUE

\* Mutant of Put: the queue has no bound.
PutUnbounded ==
    /\ up
    /\ put < MaxItems
    /\ put' = put + 1
    /\ queue' = Append(queue, put + 1)
    /\ UNCHANGED <<workVars, fateVars, stopVars, up>>

\* Put returns once the queue has room.
Put ==
    /\ up
    /\ put < MaxItems
    /\ Len(queue) < Capacity
    /\ put' = put + 1
    /\ queue' = Append(queue, put + 1)
    /\ UNCHANGED <<workVars, fateVars, stopVars, up>>

\* Stop returned, and closed what the writers send on.
Closed == stop = "done" /\ Sink.closes

\* A writer begins.
WriterStart(w) ==
    /\ up /\ ~(Closed /\ Sink.opens)
    /\ writer[w] = "spawned"
    /\ writer' = [writer EXCEPT ![w] = "ready"]
    /\ UNCHANGED <<put, queue, hand, fateVars, stopVars, up>>

\* It cannot open what it needs, logs that, and returns.
OpenFails(w) ==
    /\ up
    /\ Sink.opens /\ ("open" \in Faults \/ Closed)
    /\ writer[w] = "spawned"
    /\ writer' = [writer EXCEPT ![w] = "ended"]
    /\ UNCHANGED <<put, queue, hand, fateVars, stopVars, up>>

\* It receives an item.
Take(w) ==
    /\ up /\ ~Closed
    /\ writer[w] = "ready"
    /\ queue # <<>>
    /\ queue' = Tail(queue)
    /\ hand' = [hand EXCEPT ![w] = Head(queue)]
    /\ writer' = [writer EXCEPT ![w] = "sending"]
    /\ UNCHANGED <<put, fateVars, stopVars, up>>

\* It receives an item, but what it would send that on is closed: the send fails.
TakeClosed(w) ==
    /\ up /\ Closed
    /\ writer[w] = "ready"
    /\ queue # <<>>
    /\ queue' = Tail(queue)
    /\ dropped' = dropped \cup {Head(queue)}
    /\ UNCHANGED <<put, workVars, delivered, refused, stopVars, up>>

\* Mutant of Release: the writer sends the item again.
ReleaseLate(w) ==
    /\ \/ hand' = [hand EXCEPT ![w] = 0] /\ writer' = [writer EXCEPT ![w] = "ready"]
       \/ UNCHANGED <<hand, writer>>
    /\ UNCHANGED <<put, queue, stopVars, up>>

\* It is done with the item.
Release(w) ==
    /\ hand' = [hand EXCEPT ![w] = 0]
    /\ writer' = [writer EXCEPT ![w] = "ready"]
    /\ UNCHANGED <<put, queue, stopVars, up>>

\* The item reaches the destination, whether or not the answer does.
Send(w) ==
    /\ up
    /\ writer[w] = "sending"
    /\ delivered' = Append(delivered, hand[w])
    /\ UNCHANGED <<dropped, refused>>
    /\ Release(w)

\* It does not, and the send succeeds all the same: nothing is logged, the item is
\* gone.
SendRefused(w) ==
    /\ up
    /\ "refuse" \in Faults /\ ~Sink.checks
    /\ writer[w] = "sending"
    /\ refused' = refused \cup {hand[w]}
    /\ UNCHANGED <<delivered, dropped>>
    /\ Release(w)

\* Mutant of SendFails: the item goes back to the queue.
SendFailsRequeues(w) ==
    /\ up
    /\ "send" \in Faults \/ Closed
    /\ writer[w] = "sending"
    /\ queue' = Append(queue, hand[w])
    /\ hand' = [hand EXCEPT ![w] = 0]
    /\ writer' = [writer EXCEPT ![w] = "ready"]
    /\ UNCHANGED <<put, fateVars, stopVars, up>>

\* Mutant of SendFails: the writer returns.
SendFailsReturns(w) ==
    /\ up
    /\ "send" \in Faults \/ Closed
    /\ writer[w] = "sending"
    /\ dropped' = dropped \cup {hand[w]}
    /\ hand' = [hand EXCEPT ![w] = 0]
    /\ writer' = [writer EXCEPT ![w] = "ended"]
    /\ UNCHANGED <<put, queue, delivered, refused, stopVars, up>>

\* The send fails, as it may when it is under way while Stop closes the connection:
\* the error is logged, the item is not tried again.
SendFails(w) ==
    /\ up
    /\ "send" \in Faults \/ Closed
    /\ writer[w] = "sending"
    /\ dropped' = dropped \cup {hand[w]}
    /\ UNCHANGED <<delivered, refused>>
    /\ Release(w)

\* Stop is called, by the Runner's Stop.
StopCalled ==
    /\ up
    /\ stop = "no"
    /\ stop' = "waiting"
    /\ waitedFor' = put
    /\ UNCHANGED <<put, queue, workVars, fateVars, up>>

\* Mutant of StopReturns: Stop does not wait.
StopReturnsAtOnce ==
    /\ up
    /\ stop = "waiting"
    /\ stop' = "done"
    /\ UNCHANGED <<put, queue, workVars, fateVars, waitedFor, up>>

\* Stop sees an empty queue, closes a channel no writer reads, and returns.  A sink
\* that closes its connection does so in the same step.
StopReturns ==
    /\ up
    /\ stop = "waiting"
    /\ queue = <<>>
    /\ stop' = "done"
    /\ UNCHANGED <<put, queue, workVars, fateVars, waitedFor, up>>

\* The process ends once the manager has released the lock, or is killed.
ProcessEnds ==
    /\ up
    /\ stop = "done" \/ "crash" \in Faults
    /\ up' = FALSE
    /\ UNCHANGED <<put, queue, workVars, fateVars, stopVars>>

WriterStep(w) ==
    \/ WriterStart(w) \/ OpenFails(w)
    \/ Take(w) \/ TakeClosed(w)
    \/ Send(w) \/ SendRefused(w) \/ SendFails(w)

Next ==
    \/ Put
    \/ \E w \in Writers : WriterStep(w)
    \/ StopCalled \/ StopReturns \/ ProcessEnds

Spec == Init /\ [][Next]_vars

\* Each goroutine goes on when it can.  Stop looks at the queue once a second; it
\* is only sure to see an empty queue once the firehose has no more to put.
Fairness ==
    /\ \A w \in Writers : WF_vars(WriterStep(w))
    /\ WF_vars(Put)
    /\ WF_vars(StopReturns)

FairSpec == Spec /\ Fairness

-----------------------------------------------------------------------------
(* Properties.                                                             *)

D == INSTANCE Delivery WITH Ordered <- Cardinality(Writers) = 1

\* Every variable has its type.
TypeOK ==
    /\ put \in 0..MaxItems
    /\ queue \in Seq(Items) /\ Len(queue) <= Capacity
    /\ writer \in [Writers -> {"spawned", "ready", "sending", "ended"}]
    /\ hand \in [Writers -> 0..MaxItems]
    /\ delivered \in Seq(Items)
    /\ dropped \subseteq Items /\ refused \subseteq Items
    /\ stop \in {"no", "waiting", "done"}
    /\ waitedFor \in 0..MaxItems
    /\ up \in BOOLEAN

\* The items that were sent, one way or another.
Over == D!Settled \cup refused

\* The sink implements Delivery: no item is sent twice, or sent and dropped,
\* whatever fails, and one writer keeps their order.
ImplementsDelivery == D!Spec

\* Once Stop returned, of the items accepted before it was called only those in
\* the writers' hands can still be lost with the process: one per writer.
LostAtStop ==
    stop = "done" =>
        Cardinality((1..waitedFor) \ Over) <= Cardinality(Writers)

\* Stop returns, although the firehose goes on putting items while it waits, if a
\* single writer could open what it needs.
StopEnds ==
    (stop = "waiting" /\ \E w \in Writers : writer[w] \in {"ready", "sending"})
        ~> (stop = "done" \/ ~up)

-----------------------------------------------------------------------------
(* The inductive invariants behind TypeOK, LostAtStop and                  *)
(* ImplementsDelivery; QueueSinkProofs proves them.                        *)

\* A writer that sends has an item in hand, and no other writer has.
HandInv == \A w \in Writers : writer[w] = "sending" <=> hand[w] # 0

\* The queue holds the last items that were put, in their order: the writers have
\* taken items 1..Taken.
Taken == put - Len(queue)
QueueInv == Taken >= 0 /\ \A i \in 1..Len(queue) : queue[i] = Taken + i

\* What was taken met its fate, or is in the hand of a writer.
HeldInv == \A n \in 1..Taken : n \in Over \/ \E w \in Writers : hand[w] = n

\* It met one fate only, and none while it is in a hand; no two writers have it.
FateInv ==
    /\ \A w \in Writers : hand[w] <= Taken /\ hand[w] \notin Over
    /\ \A v, w \in Writers : hand[v] = hand[w] /\ hand[v] # 0 => v = w
    /\ Over \subseteq 1..Taken
    /\ D!OneFate

\* Once Stop returned, the writers have taken what it waited for.
DrainInv ==
    /\ waitedFor <= put
    /\ stop = "done" => waitedFor <= Taken

\* One writer has a later item in hand than those it delivered.
OrderInv ==
    Cardinality(Writers) = 1 =>
        /\ D!InOrder
        /\ \A i \in DOMAIN delivered : \A w \in Writers :
              hand[w] # 0 => delivered[i] < hand[w]
=============================================================================
