------------------------------- MODULE Sinks -------------------------------
(***************************************************************************)
(* The sinks that have a queue (putCh) and writers that send its items one *)
(* by one.  Their Start, Stop, Put and write methods are the same text but *)
(* for the destination and                                                 *)
(*                                                                         *)
(*   writers  how many writers Start spawns: the number, or "set" by an    *)
(*            environment variable;                                        *)
(*   opens    whether a writer opens a channel or a connection before it   *)
(*            takes its first item, and ends if it cannot;                 *)
(*   closes   whether Stop, last of all, closes the connection that the    *)
(*            writers send on;                                             *)
(*   checks   whether a send fails if the destination does not take the    *)
(*            item.  (http reads no status, amqp asks for no confirmation, *)
(*            and nobody answers a syslog message.)                        *)
(***************************************************************************)
EXTENDS Integers

SinkProfiles ==
    [writers : {"one", "three", "set"}, opens : BOOLEAN, closes : BOOLEAN,
     checks : BOOLEAN]

\* SINK_TYPE redis: one writer, RPUSH.
RedisSink ==
    [writers |-> "one", opens |-> FALSE, closes |-> TRUE, checks |-> TRUE]

\* SINK_TYPE nsq: one writer, Publish.
NSQSink ==
    [writers |-> "one", opens |-> FALSE, closes |-> FALSE, checks |-> TRUE]

\* SINK_TYPE kafka: one writer, SendMessage.
KafkaSink ==
    [writers |-> "one", opens |-> FALSE, closes |-> FALSE, checks |-> TRUE]

\* SINK_TYPE kinesis: three writers, PutRecord.
KinesisSink ==
    [writers |-> "three", opens |-> FALSE, closes |-> FALSE, checks |-> TRUE]

\* SINK_TYPE http: SINK_WORKER_COUNT writers, POST.
HttpSink ==
    [writers |-> "set", opens |-> FALSE, closes |-> FALSE, checks |-> FALSE]

\* SINK_TYPE mongodb: SINK_MONGODB_WORKERS writers, InsertOne.
MongodbSink ==
    [writers |-> "set", opens |-> FALSE, closes |-> TRUE, checks |-> TRUE]

\* SINK_TYPE amqp or rabbitmq: SINK_AMQP_WORKERS writers, each on its own channel.
RabbitmqSink ==
    [writers |-> "set", opens |-> TRUE, closes |-> TRUE, checks |-> FALSE]

\* SINK_TYPE syslog: one writer, which dials first.
SyslogSink ==
    [writers |-> "one", opens |-> TRUE, closes |-> FALSE, checks |-> FALSE]

(***************************************************************************)
(* The sinks that send batches.                                            *)
(*                                                                         *)
(*   splits  whether a batch the service finds too long is sent again item *)
(*           by item;                                                      *)
(*   ids     whether an item carries an id by which the service recognizes *)
(*           what it was sent before.                                      *)
(***************************************************************************)

BatchProfiles == [splits : BOOLEAN, ids : BOOLEAN]

\* SINK_TYPE sqs: SendMessageBatch to a FIFO queue.
SQSSink == [splits |-> TRUE, ids |-> TRUE]

\* SINK_TYPE eventbridge: PutEvents.
EBSink == [splits |-> FALSE, ids |-> FALSE]

\* The sink with a queue that a SINK_TYPE gives.  (stdout prints at once.)
GetSink ==
    [amqp |-> RabbitmqSink, rabbitmq |-> RabbitmqSink, http |-> HttpSink,
     kafka |-> KafkaSink, kinesis |-> KinesisSink, mongodb |-> MongodbSink,
     nsq |-> NSQSink, redis |-> RedisSink, syslog |-> SyslogSink,
     sqs |-> SQSSink, eventbridge |-> EBSink]
=============================================================================
