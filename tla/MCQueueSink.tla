---------------------------- MODULE MCQueueSink ----------------------------
(***************************************************************************)
(* Model values for the runs of QueueSink: its writers and its sink.       *)
(***************************************************************************)
EXTENDS QueueSink

CONSTANTS w1, w2, w3

ThreeWriters == {w1, w2, w3}
ConfiguredSink == GetSink["rabbitmq"]

=============================================================================
