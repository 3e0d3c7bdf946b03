---------------------------- MODULE TopicPartition ----------------------------
(***************************************************************************)
(* One partition of a Kafka topic, as the retry and the periodic engines   *)
(* use it: they read messages in order, publish to its end and commit      *)
(* after every message.  Kafka is not part of the repository; this is what *)
(* the engines rely on.  Only the messages from the committed offset on    *)
(* are kept: an earlier one is never read again.                           *)
(***************************************************************************)
EXTENDS Naturals, Sequences, FiniteSets

CONSTANTS
  Engines,    \* the engine processes of the consumer group
  NoEngine    \* the owner of a partition that nobody reads

VARIABLES
  queue,      \* the messages from the committed offset on
  position,   \* how many of them the owner has read
  owner       \* the engine that the partition is assigned to

partition == <<queue, position, owner>>

PartitionInit ==
  /\ queue = <<>>
  /\ position = 0
  /\ owner = NoEngine

Publish(message) == queue' = Append(queue, message)

\* e reads the next message.
HasNext(e) == owner = e /\ position < Len(queue)

NextMessage == queue[position + 1]

Advance ==
  /\ position' = position + 1
  /\ UNCHANGED <<queue, owner>>

\* What the owner has read is done with.  An engine that has lost the partition
\* commits nothing.
CommitRead(e) ==
  /\ queue' = IF owner = e THEN SubSeq(queue, position + 1, Len(queue)) ELSE queue
  /\ position' = IF owner = e THEN 0 ELSE position
  /\ UNCHANGED owner

\* e gets the partition and reads it from the committed offset on.
Acquire(e) ==
  /\ owner' = e
  /\ position' = 0
  /\ UNCHANGED queue

\* e is gone.
Release(e) ==
  /\ owner' = IF owner = e THEN NoEngine ELSE owner
  /\ UNCHANGED <<queue, position>>

Holds(id) == \E i \in 1 .. Len(queue) : queue[i].id = id
=============================================================================
