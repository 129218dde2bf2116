---------------------------- MODULE MCBatchSink ----------------------------
(***************************************************************************)
(* The sink profiles for the runs of BatchSink.                            *)
(***************************************************************************)
EXTENDS BatchSink

BothSinks == {GetSink["sqs"], GetSink["eventbridge"]}
SQSOnly == {GetSink["sqs"]}

=============================================================================
