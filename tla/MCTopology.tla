----------------------------- MODULE MCTopology -----------------------------
(***************************************************************************)
(* Instances of Topology for TLC: a consumer and a publisher of one queue, *)
(* and two consumers of another.                                           *)
(***************************************************************************)
EXTENDS Topology

CONSTANTS cons1, pub, cons2, cons3

AllDeclarers == {cons1, pub, cons2, cons3}
TwoDeclarers == {cons1, pub}

OneExchange == [d \in Declarers |-> "events"]
Queues == [d \in Declarers |-> IF d \in TwoDeclarers THEN "events-worker" ELSE "audit"]

SameKey == [d \in Declarers |-> "user.*"]

\* The keys of the README's examples: DeclareQueueTopology("events-worker",
\* "user.created") and Consume("events-worker", "user.*", handler).
ReadmeKeys == [d \in Declarers |-> IF d = pub THEN "user.created" ELSE "user.*"]

\* The publisher has no dead-letter exchange, and so disagrees with its consumer.
PublisherOff == [d \in Declarers |-> d = pub]
NoneOff == [d \in Declarers |-> FALSE]
=============================================================================
