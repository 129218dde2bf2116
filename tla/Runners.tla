------------------------------ MODULE Runners ------------------------------
(***************************************************************************)
(* The runners a Manager can be given: one firehose per kind of Nomad      *)
(* object.  Their constructors and their Start and Stop methods are the    *)
(* same text but for how each one treats its stopCh field, on which Stop   *)
(* closes the channel:                                                     *)
(*                                                                         *)
(*   born    what the constructor puts in stopCh: an open channel, or      *)
(*           nothing ("nil");                                              *)
(*   remakes whether Start puts a new channel in stopCh before it spawns   *)
(*           the watch and the persist goroutines.                         *)
(*                                                                         *)
(* The evaluations firehose starts and stops as nodes does, but its watch  *)
(* moves the last change in another way than the watch of Manager: only    *)
(* what Manager says of stopping holds for it; IndexWatch has its watch.   *)
(***************************************************************************)

RunnerProfiles == [born : {"open", "nil"}, remakes : BOOLEAN]

\* `allocations`: stopCh made by NewFirehose and made again by Start.
AllocationsRunner == [born |-> "open", remakes |-> TRUE]

\* `nodes`: the same.
NodesRunner == [born |-> "open", remakes |-> TRUE]

\* `deployments`: NewFirehose leaves stopCh nil; only Start makes it.
DeploymentsRunner == [born |-> "nil", remakes |-> TRUE]

\* `evaluations`: as `nodes`.
EvaluationsRunner == [born |-> "open", remakes |-> TRUE]

\* `jobs` and `jobliststubs`: stopCh made by NewFirehoseBase; Start keeps it.
JobsRunner == [born |-> "open", remakes |-> FALSE]

\* The program's commands: each gives its firehose to a Manager and starts that; an
\* error is fatal.
Commands ==
    [allocations |-> AllocationsRunner, nodes |-> NodesRunner,
     evaluations |-> EvaluationsRunner, jobs |-> JobsRunner,
     jobliststubs |-> JobsRunner, deployments |-> DeploymentsRunner]
=============================================================================
