------------------------- MODULE ConsumerRefinement ------------------------
(***************************************************************************)
(* Consumer implements ReliableQueue, for any number of consumers,         *)
(* messages, copies, workers and faults: the initial states map to the     *)
(* empty queue, and each step to one step of the queue or to none.         *)
(***************************************************************************)
EXTENDS ConsumerProof

USE DEF messageVars, copyVars, historyVars, endsVars, closeVars

\* Whether the broker, or a consumer it holds a channel of, has a copy of m.
Alive(m) == \E c \in CopiesOf(m) : Live(c)

OwedBar == {m \in Routable : Alive(m)}
SettledBar == {m \in Routable : Settled(m)}

\* The refinement mapping of module Consumer in these terms.
LEMMA Mapping ==
  /\ Queue!queueVars = <<Routable, OwedBar, SettledBar>>
  /\ Queue!queueVars' = <<Routable', OwedBar', SettledBar'>>
BY DEF Queue!queueVars, OwedBar, SettledBar, Alive

----------------------------------------------------------------------------
(* Steps of the queue.                                                     *)

\* A step that leaves every routable message as much alive and settled as before is
\* none of the queue's.
LEMMA StutterStep ==
  ASSUME UNCHANGED published,
         \A m \in Routable : (Alive(m)' <=> Alive(m)) /\ (Settled(m)' <=> Settled(m))
  PROVE  UNCHANGED Queue!queueVars
<1>1. Routable' = Routable
  BY DEF Routable
<1>2. OwedBar' = OwedBar /\ SettledBar' = SettledBar
  BY <1>1 DEF OwedBar, SettledBar
<1> QED
  BY <1>1, <1>2, Mapping

\* A copy that moves between the queue, consumers and abandoned channels changes
\* nothing for the queue.
LEMMA MoveStep ==
  ASSUME UNCHANGED <<published, done, dropped, msg>>,
         \A c \in Copies : /\ loc'[c] = "none" <=> loc[c] = "none"
                           /\ loc'[c] = "dead" <=> loc[c] = "dead"
                           /\ Live(c)' <=> Live(c)
  PROVE  UNCHANGED Queue!queueVars
<1>1. ASSUME NEW m \in Routable
      PROVE  (Alive(m)' <=> Alive(m)) /\ (Settled(m)' <=> Settled(m))
  BY DEF Alive, Settled, DeadLettered, CopiesOf
<1> QED
  BY <1>1, StutterStep

\* One message is settled, and is then alive or not; the others stay as they are.
LEMMA SettleStep ==
  ASSUME UNCHANGED published, NEW m \in Routable, m \in Messages, Alive(m), Settled(m)',
         \A o \in Routable : o # m => (Alive(o)' <=> Alive(o)) /\ (Settled(o)' <=> Settled(o))
  PROVE  Queue!Settle(m)
<1>1. Routable' = Routable
  BY DEF Routable
<1>2. SettledBar' = SettledBar \cup {m}
  BY <1>1 DEF SettledBar
<1>3. OwedBar' = OwedBar \/ OwedBar' = OwedBar \ {m}
  BY <1>1 DEF OwedBar
<1>4. m \in OwedBar
  BY DEF OwedBar
<1> QED
  BY <1>1, <1>2, <1>3, <1>4 DEF Queue!Settle, OwedBar, SettledBar, Alive

\* A settled message loses its last copy; the others stay as they are.
LEMMA ForgetStep ==
  ASSUME UNCHANGED published, NEW m \in Routable, Alive(m), ~Alive(m)', Settled(m), Settled(m)',
         \A o \in Routable : o # m => (Alive(o)' <=> Alive(o)) /\ (Settled(o)' <=> Settled(o))
  PROVE  Queue!Forget(m)
<1>1. Routable' = Routable
  BY DEF Routable
<1>2. SettledBar' = SettledBar /\ OwedBar' = OwedBar \ {m} /\ m \in OwedBar \cap SettledBar
  BY <1>1 DEF SettledBar, OwedBar
<1> QED
  BY <1>1, <1>2 DEF Queue!Forget, OwedBar, SettledBar, Alive

----------------------------------------------------------------------------
(* Steps of the consumer.                                                  *)

\* A published message is new to the queue.
LEMMA PublishSimulates ==
  ASSUME Inv, NEW m \in Messages, NEW c \in Copies, NEW h \in PublishedHeaders, Publish(m, c, h)
  PROVE  [Queue!QueueNext]_(Queue!queueVars)
<1> USE ConsumerAssumption DEF Inv, TypeOK, Places
<1>1. /\ m \notin published /\ published' = published \cup {m}
      /\ loc[c] = "none" /\ loc' = [loc EXCEPT ![c] = "ready"]
      /\ msg' = [msg EXCEPT ![c] = m]
      /\ UNCHANGED <<done, dropped>>
  BY DEF Publish, Enqueue
<1>2. ASSUME NEW o \in Routable
      PROVE  (Alive(o)' <=> Alive(o)) /\ (Settled(o)' <=> Settled(o))
  <2>1. o # m
    BY <1>1 DEF Routable
  <2>2. CopiesOf(o)' = CopiesOf(o) /\ c \notin CopiesOf(o)
    BY <1>1, <2>1 DEF CopiesOf
  <2>3. \A d \in CopiesOf(o) : loc'[d] = loc[d]
    BY <1>1, <2>2 DEF CopiesOf
  <2> QED
    BY <1>1, <2>2, <2>3 DEF Alive, Live, Settled, DeadLettered
<1>3. CASE m \in Unroutable
  <2>1. Routable' = Routable
    BY <1>1, <1>3 DEF Routable
  <2>2. OwedBar' = OwedBar /\ SettledBar' = SettledBar
    BY <1>2, <2>1 DEF OwedBar, SettledBar
  <2> QED
    BY <2>1, <2>2, Mapping
<1>4. CASE m \notin Unroutable
  <2>1. Routable' = Routable \cup {m} /\ m \notin Routable
    BY <1>1, <1>4 DEF Routable
  <2>2. CopiesOf(m)' = {c} /\ loc'[c] = "ready"
    BY <1>1 DEF CopiesOf, FreshCopies
  <2>3. Alive(m)' /\ ~Settled(m)'
    BY <1>1, <2>2 DEF Alive, Live, Settled, DeadLettered, SettledWasPublished
  <2>4. OwedBar' = OwedBar \cup {m}
    BY <1>2, <2>1, <2>3 DEF OwedBar
  <2>5. SettledBar' = SettledBar
    BY <1>2, <2>1, <2>3 DEF SettledBar
  <2>6. Queue!Send(m)
    BY <2>1, <2>4, <2>5 DEF Queue!Send, OwedBar, SettledBar, Alive
  <2> QED
    BY <2>6 DEF Queue!QueueNext
<1> QED
  BY <1>3, <1>4

\* The session loop, the network and shutdown only move copies.
LEMMA LoopSimulates ==
  ASSUME Inv, NEW k \in Consumers, LoopStep(k) \/ NetworkStep(k) \/ ShutdownStep(k)
  PROVE  UNCHANGED Queue!queueVars
<1> USE ConsumerAssumption DEF Inv, TypeOK, Places
<1>1. UNCHANGED <<published, done, dropped, msg>>
  BY LoopFrame, NetworkFrame, ShutdownFrame
<1>2. CASE UNCHANGED loc
  BY <1>1, <1>2, MoveStep DEF Live
<1>3. ASSUME NEW place \in {"ready", "stale"}, Release(k, place)
      PROVE  UNCHANGED Queue!queueVars
  <2>1. ASSUME NEW c \in Copies
        PROVE  /\ loc'[c] = "none" <=> loc[c] = "none"
               /\ loc'[c] = "dead" <=> loc[c] = "dead"
               /\ Live(c)' <=> Live(c)
    BY <1>3 DEF Release, Live
  <2> QED
    BY <1>1, <2>1, MoveStep
<1>4. \/ UNCHANGED loc
      \/ \E place \in {"ready", "stale"} : Release(k, place)
  <2>1. CASE LoopStep(k)      BY <2>1, LoopFrame DEF CloseSession
  <2>2. CASE NetworkStep(k)   BY <2>2 DEF NetworkStep, BrokerDropsLink, ClientLosesChannel, LoseConnection, Reconnect
  <2>3. CASE ShutdownStep(k)  BY <2>3, ShutdownFrame
  <2> QED
    BY <2>1, <2>2, <2>3
<1> QED
  BY <1>2, <1>3, <1>4

\* A handler that returns nil settles its message, if nothing else has before it: by
\* NoMessageLost the queue still has a message that is not settled.
LEMMA SuccessSimulates ==
  ASSUME Inv, NoMessageLost, NEW k \in Consumers, NEW c \in Copies, HandlerSucceeds(k, c)
  PROVE  [Queue!QueueNext]_(Queue!queueVars)
<1> USE ConsumerAssumption DEF Inv, TypeOK, Places
<1>1. /\ done' = done \cup {msg[c]}
      /\ UNCHANGED <<published, dropped, loc, msg>>
  BY DEF HandlerSucceeds
<1>2. msg[c] \in published
  BY DEF HandlerSucceeds, FreshCopies
<1>3. ASSUME NEW o \in Routable
      PROVE  /\ Alive(o)' <=> Alive(o)
             /\ Settled(o)' <=> Settled(o) \/ o = msg[c]
  BY <1>1 DEF Alive, Live, Settled, DeadLettered, CopiesOf
<1>4. CASE msg[c] \in Routable /\ ~Settled(msg[c])
  <2>1. Alive(msg[c])
    BY <1>4 DEF NoMessageLost, Alive, Routable
  <2>2. Queue!Settle(msg[c])
    BY <1>1, <1>2, <1>3, <1>4, <2>1, SettleStep
  <2> QED
    BY <1>2, <2>2 DEF Queue!QueueNext
<1>5. CASE msg[c] \notin Routable \/ Settled(msg[c])
  BY <1>1, <1>3, <1>5, StutterStep
<1> QED
  BY <1>4, <1>5

\* An accepted retry adds a copy to a message that has one: its link is up, so that
\* the copy it replaces is still held.
LEMMA RetrySimulates ==
  ASSUME Inv, NEW k \in Consumers, NEW c \in Copies, NEW n \in Copies, RepublishAccepted(k, c, n)
  PROVE  UNCHANGED Queue!queueVars
<1> USE ConsumerAssumption DEF Inv, TypeOK, Places
<1>1. UNCHANGED <<published, done, dropped>> /\ loc[c] = k
  BY DEF RepublishAccepted, HeldWhileLinked
<1>2. CASE msg[c] \in Unroutable
  BY <1>1, <1>2, MoveStep DEF RepublishAccepted, Live
<1>3. CASE msg[c] \notin Unroutable
  <2>1. /\ loc[n] = "none" /\ n # c
        /\ loc' = [loc EXCEPT ![n] = "ready"]
        /\ msg' = [msg EXCEPT ![n] = msg[c]]
    BY <1>1, <1>3 DEF RepublishAccepted, Enqueue
  <2>2. ASSUME NEW o \in Routable
        PROVE  (Alive(o)' <=> Alive(o)) /\ (Settled(o)' <=> Settled(o))
    <3>1. \A d \in CopiesOf(o) : d \in CopiesOf(o)' /\ loc'[d] = loc[d]
      BY <2>1 DEF CopiesOf
    <3>2. \A d \in CopiesOf(o)' : d \in CopiesOf(o) \/ (d = n /\ o = msg[c])
      BY <2>1 DEF CopiesOf
    <3>3. loc'[n] = "ready" /\ (o = msg[c] => Alive(o))
      BY <1>1, <2>1 DEF Alive, Live, CopiesOf
    <3>4. Alive(o)' <=> Alive(o)
      BY <3>1, <3>2, <3>3 DEF Alive, Live
    <3>5. Settled(o)' <=> Settled(o)
      BY <1>1, <3>1, <3>2, <3>3 DEF Settled, DeadLettered
    <3> QED
      BY <3>4, <3>5
  <2> QED
    BY <1>1, <2>2, StutterStep
<1> QED
  BY <1>2, <1>3

\* An acknowledgement, if it takes the last copy, takes that of a settled message.
LEMMA AckSimulates ==
  ASSUME Inv, NoMessageLost', NEW k \in Consumers, NEW c \in Copies, Ack(k, c)
  PROVE  [Queue!QueueNext]_(Queue!queueVars)
<1> USE ConsumerAssumption DEF Inv, TypeOK, Places
<1>1. UNCHANGED <<published, done, dropped, msg>>
  BY DEF Ack
<1>2. CASE ~Effective(k, c)
  BY <1>1, <1>2, MoveStep DEF Ack, Settle, Live
<1>3. CASE Effective(k, c)
  <2>1. loc[c] = k /\ loc' = [loc EXCEPT ![c] = "gone"]
    BY <1>3 DEF Ack, Settle, Effective
  <2>2. msg[c] \in published
    BY <2>1 DEF FreshCopies
  <2>3. \A o : CopiesOf(o)' = CopiesOf(o)
    BY <1>1, <2>1 DEF CopiesOf
  <2>4. ASSUME NEW o \in Routable
        PROVE  (o # msg[c] => (Alive(o)' <=> Alive(o))) /\ (Settled(o)' <=> Settled(o))
    <3>1. o # msg[c] => c \notin CopiesOf(o)
      BY DEF CopiesOf
    <3>2. \A d \in CopiesOf(o) : d # c => loc'[d] = loc[d]
      BY <2>1 DEF CopiesOf
    <3>3. loc'[c] # "dead" /\ loc[c] # "dead"
      BY <2>1
    <3> QED
      BY <1>1, <2>3, <3>1, <3>2, <3>3 DEF Alive, Live, Settled, DeadLettered
  <2>5. Alive(msg[c])
    BY <2>1 DEF Alive, Live, CopiesOf
  <2>6. CASE msg[c] \in Routable /\ ~Alive(msg[c])'
    <3>1. Settled(msg[c])'
      BY <1>1, <2>6 DEF NoMessageLost, Alive, Routable
    <3>2. Queue!Forget(msg[c])
      BY <1>1, <2>4, <2>5, <2>6, <3>1, ForgetStep
    <3> QED
      BY <2>2, <3>2 DEF Queue!QueueNext
  <2>7. CASE msg[c] \notin Routable \/ Alive(msg[c])'
    BY <1>1, <2>4, <2>5, <2>7, StutterStep
  <2> QED
    BY <2>6, <2>7
<1> QED
  BY <1>2, <1>3

\* A rejection settles the message of the copy it takes.
LEMMA RejectSimulates ==
  ASSUME Inv, NEW k \in Consumers, NEW c \in Copies, Reject(k, c)
  PROVE  [Queue!QueueNext]_(Queue!queueVars)
<1> USE ConsumerAssumption DEF Inv, TypeOK, Places
<1>1. UNCHANGED <<published, done, msg>>
  BY DEF Reject
<1>2. CASE ~Effective(k, c)
  BY <1>1, <1>2, MoveStep DEF Reject, Settle, Live
<1>3. CASE Effective(k, c)
  <2>1. /\ loc[c] = k
        /\ loc' = [loc EXCEPT ![c] = IF DisableDeadLetter THEN "gone" ELSE "dead"]
        /\ dropped' = IF DisableDeadLetter THEN dropped \cup {msg[c]} ELSE dropped
    BY <1>3 DEF Reject, Settle, Effective
  <2>2. msg[c] \in published
    BY <2>1 DEF FreshCopies
  <2>3. \A o : CopiesOf(o)' = CopiesOf(o)
    BY <1>1, <2>1 DEF CopiesOf
  <2>4. ASSUME NEW o \in Routable, o # msg[c]
        PROVE  (Alive(o)' <=> Alive(o)) /\ (Settled(o)' <=> Settled(o))
    <3>1. c \notin CopiesOf(o)
      BY <2>4 DEF CopiesOf
    <3>2. \A d \in CopiesOf(o) : loc'[d] = loc[d]
      BY <2>1, <3>1 DEF CopiesOf
    <3>3. o \in dropped' <=> o \in dropped
      BY <2>1, <2>4
    <3> QED
      BY <1>1, <2>3, <3>2, <3>3 DEF Alive, Live, Settled, DeadLettered
  <2>5. Alive(msg[c]) /\ c \in CopiesOf(msg[c])
    BY <2>1 DEF Alive, Live, CopiesOf
  <2>6. Settled(msg[c])'
    BY <1>1, <2>1, <2>3, <2>5 DEF Settled, DeadLettered
  <2>7. CASE msg[c] \in Routable
    <3>1. Queue!Settle(msg[c])
      BY <1>1, <2>2, <2>4, <2>5, <2>6, <2>7, SettleStep
    <3> QED
      BY <2>2, <3>1 DEF Queue!QueueNext
  <2>8. CASE msg[c] \notin Routable
    BY <1>1, <2>4, <2>8, StutterStep
  <2> QED
    BY <2>7, <2>8
<1> QED
  BY <1>2, <1>3

\* What else happens to a delivery moves its copy or leaves it where it is.
LEMMA DeliverySimulates ==
  ASSUME Inv, NoMessageLost, NoMessageLost', NEW k \in Consumers, NEW c \in Copies, DeliveryStep(k, c)
  PROVE  [Queue!QueueNext]_(Queue!queueVars)
<1> USE ConsumerAssumption DEF Inv, TypeOK, Places
<1>1. CASE UNCHANGED <<published, done, dropped, msg, loc>>
  BY <1>1, MoveStep DEF Live
<1>2. CASE Deliver(k, c)
  BY <1>2, MoveStep DEF Deliver, Live
<1>3. CASE Requeue(k, c)
  BY <1>3, MoveStep DEF Requeue, Settle, Effective, Live
<1>4. CASE HandlerReturns(k, c)
  BY <1>1, <1>4, SuccessSimulates DEF HandlerReturns, HandlerFails
<1>5. CASE Republish(k, c)
  BY <1>1, <1>5, RetrySimulates DEF Republish, RepublishRefused, RepublishLost
<1> QED
  BY <1>1, <1>2, <1>3, <1>4, <1>5, AckSimulates, RejectSimulates
     DEF DeliveryStep, Receive, Dispatch, AwaitConfirm, ConfirmAcked, ConfirmFails, Acknowledge

----------------------------------------------------------------------------
\* Consumer implements ReliableQueue: consumers, retries, redeliveries and faults
\* never take a message from the queue before it is settled, and never bring back
\* one it is rid of (handleHandlerError, republishWithRetry, Ack and Nack).
THEOREM Refinement == Spec => ImplementsQueue
<1>1. Init => Queue!QueueInit
  <2> SUFFICES ASSUME Init PROVE Queue!QueueInit
    OBVIOUS
  <2>1. Routable = {} /\ OwedBar = {} /\ SettledBar = {}
    BY DEF Init, Routable, OwedBar, SettledBar
  <2> QED
    BY <2>1 DEF Queue!QueueInit, OwedBar, SettledBar, Alive
<1>2. Inv /\ NoMessageLost /\ NoMessageLost' /\ [Next]_vars => [Queue!QueueNext]_(Queue!queueVars)
  <2> SUFFICES ASSUME Inv, NoMessageLost, NoMessageLost', [Next]_vars
               PROVE  [Queue!QueueNext]_(Queue!queueVars)
    OBVIOUS
  <2>1. ASSUME NEW c \in Copies, RequeueStale(c) PROVE UNCHANGED Queue!queueVars
    BY <2>1, MoveStep, ConsumerAssumption DEF RequeueStale, Live, Inv, TypeOK, Places
  <2>2. CASE UNCHANGED vars
    BY <2>2, MoveStep DEF vars, Live
  <2> QED
    BY <2>1, <2>2, PublishSimulates, LoopSimulates, DeliverySimulates DEF Next
<1> QED
  BY <1>1, <1>2, Invariance, MessagesSurvive, PTL DEF Spec, ImplementsQueue, Queue!QueueSpec
=============================================================================
