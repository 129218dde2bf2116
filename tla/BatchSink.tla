----------------------------- MODULE BatchSink -----------------------------
(***************************************************************************)
(* A sink that sends batches (sink/sqs.go, event_bridge.go), the service   *)
(* it sends them to, and the processes that run it one after the other.    *)
(*                                                                         *)
(* Put fills putCh.  The batch goroutine collects items in a buffer, and   *)
(* sends the buffer to batchCh when it is full, or at a tick of its timer. *)
(* The write goroutine sends one batch at a time to the service, whose     *)
(* client sends a request again when it gets no answer.                    *)
(*                                                                         *)
(* Items are numbered over all processes; an item's id (SQS's              *)
(* MessageDeduplicationId) is a counter that every process starts at 0.    *)
(***************************************************************************)
EXTENDS Integers, Sequences, SequencesExt, FiniteSets, Sinks

CONSTANTS
    BatchSinks,     \* the profiles looked at: SINK_TYPE is one of them
    Capacity,       \* putCh's capacity (1000 in the code)
    BatchSize,      \* how many items make a batch (10)
    BatchCapacity,  \* batchCh's capacity (100)
    MaxItems,       \* bound: how many items the firehose puts
    MaxRestarts,    \* bound: how often the process is started again
    Faults          \* the faults that happen, a subset of AllFaults

\* "send" a request fails; "long" it is too long; "partial" the service refuses
\* some of its entries; "again" the client sends it twice; "crash" a kill.
AllFaults == {"send", "long", "partial", "again", "crash"}

ASSUME BatchSinkAssumption ==
    /\ BatchSinks \subseteq BatchProfiles
    /\ Capacity \in Nat \ {0}
    /\ BatchSize \in Nat \ {0}
    /\ BatchCapacity \in Nat \ {0}
    /\ MaxItems \in Nat
    /\ MaxRestarts \in Nat
    /\ Faults \subseteq AllFaults

VARIABLES
    sink,       \* the sink's profile
    put,        \* items 1..put were accepted by Put
    putCh,      \* the queue
    buffer,     \* batch's local buffer
    batcher,    \* batch: "collect", or "full": it sends the buffer to batchCh
    batchCh,    \* the queue of batches
    writer,     \* write: "idle", "batch" (sends it) or "split" (item by item)
    entries,    \* the entries to send, each [item, id]
    id,         \* write's local id
    delivered,  \* the items that reached the destination, in order
    repeated,   \* the items that reached it more than once
    dropped,    \* the items whose send was logged as failed and did fail
    queued,     \* the items this process logged as sent
    refused,    \* the entries refused in its requests that succeeded
    born,       \* how many items were accepted when the process started
    seen,       \* the service: the ids it has accepted of late
    patched,    \* whether a request was ever sent again to a service that had
                \* taken a part of it only
    stop,       \* Stop: "no" (not called), "waiting" (for putCh), "done"
    waitedFor,  \* how many items were accepted when Stop was called
    up,         \* whether a process runs
    restarts    \* how often it was started again

batchVars == <<buffer, batcher, batchCh>>
writeVars == <<writer, entries, id>>
serviceVars == <<delivered, repeated, seen, patched>>
reportVars == <<dropped, queued, refused>>
stopVars == <<stop, waitedFor>>
processVars == <<born, up, restarts>>
vars == <<sink, put, putCh, batchVars, writeVars, serviceVars, reportVars, stopVars,
          processVars>>

Items == 1..MaxItems
Entries == [item : Items, id : Nat]

ItemsOf(es) == {es[i].item : i \in DOMAIN es}

\* What the process has accepted and not yet sent; Batched is past putCh.
Batched ==
    ToSet(buffer) \cup (UNION {ToSet(batchCh[i]) : i \in DOMAIN batchCh})
        \cup ItemsOf(entries)
InFlight == ToSet(putCh) \cup Batched

-----------------------------------------------------------------------------

\* The process leads: Start was called.
Init ==
    /\ sink \in BatchSinks
    /\ put = 0
    /\ putCh = <<>>
    /\ buffer = <<>>
    /\ batcher = "collect"
    /\ batchCh = <<>>
    /\ writer = "idle"
    /\ entries = <<>>
    /\ id = 0
    /\ delivered = <<>>
    /\ repeated = {}
    /\ dropped = {}
    /\ queued = {}
    /\ refused = {}
    /\ born = 0
    /\ seen = {}
    /\ patched = FALSE
    /\ stop = "no"
    /\ waitedFor = 0
    /\ up = TRUE
    /\ restarts = 0

\* Put returns once the queue has room.
Put ==
    /\ up
    /\ put < MaxItems
    /\ Len(putCh) < Capacity
    /\ put' = put + 1
    /\ putCh' = Append(putCh, put + 1)
    /\ UNCHANGED <<sink, batchVars, writeVars, serviceVars, reportVars, stopVars,
                   processVars>>

-----------------------------------------------------------------------------
(* batch: putCh, buffer, batchCh.                                          *)

\* Mutant of Receive: the buffer is full one item late.
ReceiveLate ==
    /\ up
    /\ batcher = "collect"
    /\ putCh # <<>>
    /\ putCh' = Tail(putCh)
    /\ buffer' = Append(buffer, Head(putCh))
    /\ batcher' = IF Len(buffer') > BatchSize THEN "full" ELSE "collect"
    /\ UNCHANGED <<sink, put, batchCh, writeVars, serviceVars, reportVars, stopVars,
                   processVars>>

\* An item is received; with it the buffer may be full.
Receive ==
    /\ up
    /\ batcher = "collect"
    /\ putCh # <<>>
    /\ putCh' = Tail(putCh)
    /\ buffer' = Append(buffer, Head(putCh))
    /\ batcher' = IF Len(buffer') = BatchSize THEN "full" ELSE "collect"
    /\ UNCHANGED <<sink, put, batchCh, writeVars, serviceVars, reportVars, stopVars,
                   processVars>>

\* Mutant of Tick: the timer flushes full buffers only.
TickFull ==
    /\ up
    /\ batcher = "collect"
    /\ putCh = <<>> /\ Len(buffer) = BatchSize
    /\ batcher' = "full"
    /\ UNCHANGED <<sink, put, putCh, buffer, batchCh, writeVars, serviceVars,
                   reportVars, stopVars, processVars>>

\* A tick sends what there is, unless there is more to receive.
Tick ==
    /\ up
    /\ batcher = "collect"
    /\ putCh = <<>> /\ buffer # <<>>
    /\ batcher' = "full"
    /\ UNCHANGED <<sink, put, putCh, buffer, batchCh, writeVars, serviceVars,
                   reportVars, stopVars, processVars>>

\* Mutant of HandOver: the buffer keeps its items.
HandOverKeeps ==
    /\ up
    /\ batcher = "full"
    /\ Len(batchCh) < BatchCapacity
    /\ batchCh' = Append(batchCh, buffer)
    /\ batcher' = "collect"
    /\ buffer' = IF Len(buffer) = BatchSize THEN <<>> ELSE buffer
    /\ UNCHANGED <<sink, put, putCh, writeVars, serviceVars, reportVars, stopVars,
                   processVars>>

\* The buffer goes to batchCh once that has room, and batch has a new buffer.
HandOver ==
    /\ up
    /\ batcher = "full"
    /\ Len(batchCh) < BatchCapacity
    /\ batchCh' = Append(batchCh, buffer)
    /\ batcher' = "collect"
    /\ buffer' = <<>>
    /\ UNCHANGED <<sink, put, putCh, writeVars, serviceVars, reportVars, stopVars,
                   processVars>>

-----------------------------------------------------------------------------
(* write: batchCh, the service.                                            *)

\* Mutant of TakeBatch: the ids start over in every batch.
TakeBatchAnew ==
    /\ up
    /\ writer = "idle"
    /\ batchCh # <<>>
    /\ batchCh' = Tail(batchCh)
    /\ entries' = [i \in 1..Len(Head(batchCh)) |->
                      [item |-> Head(batchCh)[i], id |-> i - 1]]
    /\ id' = Len(Head(batchCh))
    /\ writer' = "batch"
    /\ UNCHANGED <<sink, put, putCh, buffer, batcher, serviceVars, reportVars,
                   stopVars, processVars>>

\* A batch is received, and its items get the next ids.
TakeBatch ==
    /\ up
    /\ writer = "idle"
    /\ batchCh # <<>>
    /\ batchCh' = Tail(batchCh)
    /\ entries' = [i \in 1..Len(Head(batchCh)) |->
                      [item |-> Head(batchCh)[i], id |-> id + i - 1]]
    /\ id' = id + Len(Head(batchCh))
    /\ writer' = "batch"
    /\ UNCHANGED <<sink, put, putCh, buffer, batcher, serviceVars, reportVars,
                   stopVars, processVars>>

\* The request that is being sent: the whole batch, or its next item alone.
Request == IF writer = "split" THEN <<Head(entries)>> ELSE entries

\* The positions in the request of the entries that the service stores if it takes
\* these: not those whose id it has seen.
Stored(taken) ==
    {i \in DOMAIN Request :
        Request[i] \in taken /\ ~(sink.ids /\ Request[i].id \in seen)}

\* Those among them whose items it does not have yet.
Fresh(taken) == {i \in Stored(taken) : Request[i].item \notin ToSet(delivered)}

\* The service takes these entries, and stores them in the request's order.
Store(taken) ==
    /\ \E order \in [1..Cardinality(Fresh(taken)) -> Fresh(taken)] :
          /\ \A m, n \in DOMAIN order : m < n => order[m] < order[n]
          /\ delivered' =
                delivered \o [n \in DOMAIN order |-> Request[order[n]].item]
    /\ repeated' = repeated \cup
          ({Request[i].item : i \in Stored(taken)} \cap ToSet(delivered))
    /\ seen' = IF sink.ids THEN seen \cup {e.id : e \in taken} ELSE seen

\* Mutant of Answered: the first error ends the retries.
AnsweredBreaks(failed) ==
    /\ \/ /\ writer = "split" /\ Len(entries) > 1 /\ ~failed
          /\ entries' = Tail(entries)
          /\ UNCHANGED writer
       \/ /\ writer = "batch" \/ Len(entries) = 1 \/ failed
          /\ entries' = <<>>
          /\ writer' = "idle"
    /\ UNCHANGED <<sink, put, putCh, batchVars, id, stopVars, processVars>>

\* The request is done with, whether or not it failed: write goes on to the next
\* item of a batch it splits, or to the next batch.
Answered(failed) ==
    /\ \/ /\ writer = "split" /\ Len(entries) > 1
          /\ entries' = Tail(entries)
          /\ UNCHANGED writer
       \/ /\ writer = "batch" \/ Len(entries) = 1
          /\ entries' = <<>>
          /\ writer' = "idle"
    /\ UNCHANGED <<sink, put, putCh, batchVars, id, stopVars, processVars>>

\* What the service may refuse of the request, each time that it gets it.
Refusals == IF "partial" \in Faults THEN SUBSET ToSet(Request) ELSE {{}}

\* The request succeeds, which is logged.  The output, which names the entries
\* that were refused, is not read.
SendOk ==
    /\ up
    /\ writer # "idle"
    /\ \E no \in Refusals :
          /\ Store(ToSet(Request) \ no)
          /\ refused' = refused \cup {e.item : e \in no}
    /\ queued' = queued \cup ItemsOf(Request)
    /\ UNCHANGED <<dropped, patched>>
    /\ Answered(FALSE)

\* The service takes the request, or some of its entries, but the answer is lost,
\* so the client sends the whole request again; write knows nothing of it.
SendAgain ==
    /\ up
    /\ "again" \in Faults
    /\ writer # "idle"
    /\ \E no \in Refusals :
          /\ Store(ToSet(Request) \ no)
          /\ patched' = (patched \/ no # {})
    /\ UNCHANGED <<sink, put, putCh, batchVars, writeVars, reportVars, stopVars,
                   processVars>>

\* Mutant of SendFails: the items that failed are batched again.
SendFailsRequeues ==
    /\ up
    /\ "send" \in Faults
    /\ writer = "batch"
    /\ batchCh' = Append(batchCh, [i \in DOMAIN entries |-> entries[i].item])
    /\ entries' = <<>>
    /\ writer' = "idle"
    /\ UNCHANGED <<sink, put, putCh, buffer, batcher, id, serviceVars, reportVars,
                   stopVars, processVars>>

\* The request fails, which is logged; it is not sent again.
SendFails ==
    /\ up
    /\ "send" \in Faults
    /\ writer # "idle"
    /\ dropped' = dropped \cup (ItemsOf(Request) \ ToSet(delivered))
    /\ UNCHANGED <<serviceVars, queued, refused>>
    /\ Answered(TRUE)

\* The service takes nothing of a batch that is too long: the sink sends its items
\* one by one, with the ids they have.  (Without splits it is a SendFails.)
SendTooLong ==
    /\ up
    /\ "long" \in Faults
    /\ writer = "batch" /\ sink.splits
    /\ ItemsOf(entries) \cap ToSet(delivered) = {}
    /\ writer' = "split"
    /\ UNCHANGED <<sink, put, putCh, batchVars, entries, id, serviceVars, reportVars,
                   stopVars, processVars>>

-----------------------------------------------------------------------------
(* Stop, and the end of the process.                                       *)

\* Stop is called, by the Runner's Stop.
StopCalled ==
    /\ up
    /\ stop = "no"
    /\ stop' = "waiting"
    /\ waitedFor' = put
    /\ UNCHANGED <<sink, put, putCh, batchVars, writeVars, serviceVars, reportVars,
                   processVars>>

\* Mutant of StopReturns: Stop does not wait.
StopReturnsAtOnce ==
    /\ up
    /\ stop = "waiting"
    /\ stop' = "done"
    /\ UNCHANGED <<sink, put, putCh, batchVars, writeVars, serviceVars, reportVars,
                   waitedFor, processVars>>

\* Stop sees an empty putCh, closes a channel neither goroutine reads, and returns.
StopReturns ==
    /\ up
    /\ stop = "waiting"
    /\ putCh = <<>>
    /\ stop' = "done"
    /\ UNCHANGED <<sink, put, putCh, batchVars, writeVars, serviceVars, reportVars,
                   waitedFor, processVars>>

\* The process ends once the manager has released the lock, or is killed.
ProcessEnds ==
    /\ up
    /\ stop = "done" \/ "crash" \in Faults
    /\ up' = FALSE
    /\ putCh' = <<>>
    /\ buffer' = <<>>
    /\ batcher' = "collect"
    /\ batchCh' = <<>>
    /\ writer' = "idle"
    /\ entries' = <<>>
    /\ id' = 0
    /\ stop' = "no"
    /\ waitedFor' = 0
    /\ queued' = {}
    /\ refused' = {}
    /\ born' = put
    /\ UNCHANGED <<sink, put, serviceVars, dropped, restarts>>

\* A new process leads.
Restart ==
    /\ ~up
    /\ restarts < MaxRestarts
    /\ up' = TRUE
    /\ restarts' = restarts + 1
    /\ UNCHANGED <<sink, put, putCh, batchVars, writeVars, serviceVars, reportVars,
                   born, stopVars>>

\* The service forgets the ids of five minutes ago, here all at once.  A request takes
\* less than that.
Forget ==
    /\ writer = "idle"
    /\ seen # {}
    /\ seen' = {}
    /\ UNCHANGED <<sink, put, putCh, batchVars, writeVars, delivered, repeated,
                   patched, reportVars, stopVars, processVars>>

Batch == Receive \/ Tick \/ HandOver
Write == TakeBatch \/ SendOk \/ SendFails \/ SendTooLong

Next ==
    \/ Put
    \/ Batch
    \/ Write \/ SendAgain
    \/ StopCalled \/ StopReturns \/ ProcessEnds \/ Restart
    \/ Forget

Spec == Init /\ [][Next]_vars

\* Each goroutine goes on when it can, and a request is answered in the end.
FairSpec == Spec /\ WF_vars(Batch) /\ WF_vars(Write)

-----------------------------------------------------------------------------
(* Properties.                                                             *)

D == INSTANCE Delivery WITH Ordered <- FALSE

\* Every variable has its type; no batch has more than BatchSize items, which is
\* as many as the services take.
TypeOK ==
    /\ sink \in BatchSinks
    /\ put \in 0..MaxItems
    /\ putCh \in Seq(Items) /\ Len(putCh) <= Capacity
    /\ buffer \in Seq(Items) /\ Len(buffer) <= BatchSize
    /\ batcher \in {"collect", "full"}
    /\ batchCh \in Seq(Seq(Items)) /\ Len(batchCh) <= BatchCapacity
    /\ writer \in {"idle", "batch", "split"}
    /\ entries \in Seq(Entries) /\ Len(entries) <= BatchSize
    /\ id \in 0..MaxItems
    /\ delivered \in Seq(Items)
    /\ repeated \subseteq Items /\ dropped \subseteq Items
    /\ queued \subseteq Items /\ refused \subseteq Items
    /\ born \in 0..MaxItems
    /\ seen \subseteq 0..MaxItems
    /\ patched \in BOOLEAN
    /\ stop \in {"no", "waiting", "done"}
    /\ waitedFor \in 0..MaxItems
    /\ up \in BOOLEAN
    /\ restarts \in 0..MaxRestarts

\* The sink implements Delivery: nothing that reached the destination is reported
\* as failed, and nothing that was given up reaches it, however batches are split,
\* refused in part and sent again.
ImplementsDelivery == D!Spec

\* The destination gets the items in the order in which they were accepted, across
\* failed, split and repeated requests and across restarts, until a request is sent
\* again of which it took a part only.  After that, an item is still overtaken by
\* none but those it shares a batch with.
OrderKept ==
    \A i, j \in DOMAIN delivered : i < j =>
        /\ ~patched => delivered[i] < delivered[j]
        /\ delivered[i] < delivered[j] + BatchSize

\* An item whose request was sent twice is stored once, where items carry ids (SQS).
AtMostOnce == sink.ids => repeated = {}

\* Every item a running process accepted is on its way, or reported as sent or as
\* failed, or at its destination: the buffer, the batches and the retries lose
\* none on the way.
Accounted ==
    (born + 1)..put \subseteq InFlight \cup ToSet(delivered) \cup dropped \cup queued

\* In the first process, whose ids are new to the service, an item that is reported
\* as sent was stored, unless the service refused that entry.
StoredInFirstProcess ==
    restarts = 0 => queued \subseteq ToSet(delivered) \cup refused

\* Once Stop returned, of the items accepted before it was called only those past
\* putCh can still be lost with the process: what two batches and a full batchCh
\* hold, for Stop waits for putCh only.
LostAtStop ==
    stop = "done" =>
        /\ (1..waitedFor) \cap InFlight \subseteq Batched
        /\ Cardinality(Batched) <= (BatchCapacity + 2) * BatchSize

\* An item that is accepted does not stay in a buffer that is not full: again and
\* again, nothing is on its way, for it was sent, reported or lost with the process.
Flushed == []<>(InFlight = {})

\* sink/sqs.go:164 logs "queued %d messages" of a batch whose request succeeded: an
\* item that is reported as sent was stored.
QueuedMeansStored == queued \subseteq ToSet(delivered)

-----------------------------------------------------------------------------
(* The inductive invariants behind the properties above; BatchSinkProofs   *)
(* proves them.                                                            *)

\* Of items 1..put, batch has received those up to Received and has sent those up
\* to Sent to batchCh; write has taken those up to Taken, and is done with those up
\* to Done.
Received == put - Len(putCh)
Sent == Received - Len(buffer)
Taken == born + id
Done == Taken - Len(entries)

\* The first item of the i-th batch in batchCh, or of what is behind the last one.
First(i) == IF i \in DOMAIN batchCh THEN batchCh[i][1] ELSE Sent + 1

\* The channels and the two goroutines hold consecutive items, and an entry's id is
\* its item's position among those of the process.
FlowInv ==
    /\ \A i \in DOMAIN putCh : putCh[i] = Received + i
    /\ \A i \in DOMAIN buffer : buffer[i] = Sent + i
    /\ \A i \in DOMAIN entries :
          entries[i].item = Done + i /\ entries[i].id = Done + i - born - 1
    /\ born <= Done

\* So do the batches, each of at most BatchSize items, and none is left out.
BatchesInv ==
    /\ First(1) = Taken + 1
    /\ \A i \in DOMAIN batchCh :
          /\ batchCh[i] # <<>> /\ Len(batchCh[i]) <= BatchSize
          /\ \A j \in DOMAIN batchCh[i] : batchCh[i][j] = First(i) + j - 1
          /\ First(i + 1) = First(i) + Len(batchCh[i])
          /\ \A k \in i..Len(batchCh) : First(i + 1) <= First(k + 1)
          /\ Sent + 1 - First(i) <= (Len(batchCh) + 1 - i) * BatchSize
    /\ (Taken + 1)..Sent \subseteq UNION {ToSet(batchCh[i]) : i \in DOMAIN batchCh}

\* The buffer is flushed when it is full, and is not when it is empty; write sends
\* when it has entries.  Stop returns when batch received what it waits for.
GoroutineInv ==
    /\ batcher = "full" => buffer # <<>>
    /\ batcher = "collect" => Len(buffer) < BatchSize
    /\ writer = "idle" <=> entries = <<>>
    /\ waitedFor <= put
    /\ stop = "done" => waitedFor <= Received
    /\ restarts = 0 /\ up => born = 0

\* What write is done with met one fate or was reported as sent; nothing behind the
\* request did.
FateInv ==
    /\ D!OneFate
    /\ OrderKept
    /\ \A i \in DOMAIN delivered : delivered[i] <= Done + Len(Request)
    /\ dropped \subseteq 1..Done
    /\ (born + 1)..Done \subseteq ToSet(delivered) \cup dropped \cup queued

\* Unless a part of one was stored first, a request that was sent before has nothing
\* left to store: either none of it is stored, or all of it but what carries an id
\* that the service has seen.
RequestInv ==
    \/ patched
    \/ \A i \in DOMAIN delivered : delivered[i] <= Done
    \/ \A i \in DOMAIN Request :
          \/ Request[i].item \in ToSet(delivered)
          \/ sink.ids /\ Request[i].id \in seen

\* The service has seen the ids of what it stores of the entries, and of no other
\* item of the first process.
IdInv ==
    /\ sink.ids =>
          /\ \A e \in ToSet(entries) : e.item \in ToSet(delivered) => e.id \in seen
          /\ repeated = {}
    /\ restarts = 0 =>
          /\ \A n \in seen : n + 1 \in ToSet(delivered)
          /\ queued \subseteq ToSet(delivered) \cup refused
=============================================================================
