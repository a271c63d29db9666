------------------------- MODULE ConsumerOnceProof -------------------------
(***************************************************************************)
(* As long as nothing fails and nobody shuts down, the retries of Consumer *)
(* never multiply a message, for any number of consumers, messages, copies *)
(* and workers.                                                            *)
(***************************************************************************)
EXTENDS ConsumerProof

USE DEF messageVars, copyVars, historyVars, endsVars, closeVars

\* Once, with what it rests on.
OnceInv == RetriesConfirmed /\ Inv /\ Once

----------------------------------------------------------------------------
(* As long as nothing is wrong.                                            *)

\* What a consumer works on it holds, on a channel that both ends have.
LEMMA WorkIsHeld ==
  ASSUME OnceInv, NothingWrong, NEW k \in Consumers, NEW c \in Copies, stage[k][c] # "idle"
  PROVE  /\ loc[c] = k /\ loc[c] \notin Places
         /\ chan[k] = "open" /\ link[k] = "open"
<1>1. phase[k] = "consuming"
  BY DEF OnceInv, Inv, Once, SessionsOpen, InSession, SessionsLast
<1>2. chan[k] = "open" /\ link[k] = "open"
  BY <1>1 DEF OnceInv, Once, SessionsLast
<1> QED
  BY <1>2, ConsumerAssumption DEF OnceInv, Inv, HeldWhileLinked

\* A retry is sent with confirms.
LEMMA RepublishConfirmed ==
  ASSUME OnceInv, NothingWrong, NEW k \in Consumers, NEW c \in Copies, stage[k][c] = "republish"
  PROVE  MaxRetries > 0
<1>1. loc[c] # "none"
  BY WorkIsHeld DEF Places
<1>2. RetryCountOf(c) \in Int /\ MaxRetries \in Int
  BY CountIsInt, ConsumerAssumption DEF OnceInv, Inv
<1>3. RetryCountOf(c) < MaxRetries
  BY DEF OnceInv, Inv, RetriesLeft
<1> QED
  BY <1>1, <1>2, <1>3 DEF OnceInv, Once, NoRetryUnconfirmed

\* Nothing that goes wrong is undone.
LEMMA WrongStays ==
  ASSUME Inv, [Next]_vars, NothingWrong'
  PROVE  NothingWrong /\ UNCHANGED faults /\ UNCHANGED cancelled
<1> USE ConsumerAssumption DEF Inv, TypeOK, NothingWrong, Fault
<1>1. ASSUME NEW m \in Messages, NEW c \in Copies, NEW h \in PublishedHeaders, Publish(m, c, h)
      PROVE  UNCHANGED <<faults, cancelled>>
  BY <1>1 DEF Publish
<1>2. ASSUME NEW c \in Copies, RequeueStale(c) PROVE UNCHANGED <<faults, cancelled>>
  BY <1>2 DEF RequeueStale
<1>3. ASSUME NEW k \in Consumers, LoopStep(k) PROVE UNCHANGED <<faults, cancelled>>
  BY <1>3 DEF LoopStep, Consume, CheckContext, OpenSession, OpenFails, Wake, StopOnCancel, SessionEnds, CloseSession
<1>4. ASSUME NEW k \in Consumers, NetworkStep(k) PROVE UNCHANGED <<faults, cancelled>>
  BY <1>4 DEF NetworkStep, BrokerDropsLink, ClientLosesChannel, LoseConnection, Reconnect
<1>5. ASSUME NEW k \in Consumers, ShutdownStep(k) PROVE UNCHANGED <<faults, cancelled>>
  BY <1>5 DEF ShutdownStep, Cancel, Close, CloseReturns
<1>6. ASSUME NEW k \in Consumers, NEW c \in Copies, DeliveryStep(k, c) PROVE UNCHANGED <<faults, cancelled>>
  <2>1. UNCHANGED cancelled
    BY <1>6, DeliveryFrame
  <2>2. CASE Deliver(k, c) \/ Receive(k, c) \/ Dispatch(k, c) \/ HandlerReturns(k, c)
    BY <2>1, <2>2 DEF Deliver, Receive, Dispatch, HandlerReturns, HandlerSucceeds, HandlerFails
  <2>3. CASE Republish(k, c)
    BY <2>1, <2>3 DEF Republish, RepublishRefused, RepublishLost, RepublishAccepted
  <2>4. CASE AwaitConfirm(k, c)
    BY <2>1, <2>4 DEF AwaitConfirm, ConfirmAcked, ConfirmFails
  <2>5. CASE Acknowledge(k, c)
    BY <2>1, <2>5 DEF Acknowledge, Ack, Reject, Requeue
  <2> QED
    BY <1>6, <2>2, <2>3, <2>4, <2>5 DEF DeliveryStep
<1>7. CASE UNCHANGED vars
  BY <1>7 DEF vars
<1>8. UNCHANGED <<faults, cancelled>>
  BY <1>1, <1>2, <1>3, <1>4, <1>5, <1>6, <1>7 DEF Next
<1> QED
  BY <1>8

----------------------------------------------------------------------------
(* The parts of Once.                                                      *)

\* No copy with retries left comes into being on a channel without confirms.
LEMMA UnconfirmedStep ==
  ASSUME OnceInv, [Next]_vars, NothingWrong, NothingWrong'
  PROVE  NoRetryUnconfirmed'
<1> USE DEF OnceInv, Once, NoRetryUnconfirmed
<1>1. CASE MaxRetries > 0
  BY <1>1
<1>2. ASSUME UNCHANGED header, \A c \in Copies : loc[c] = "none" => loc'[c] = "none" PROVE NoRetryUnconfirmed'
  BY <1>2 DEF RetryCountOf
<1>3. ASSUME NEW m \in Messages, NEW c \in Copies, NEW h \in PublishedHeaders, Publish(m, c, h)
      PROVE  NoRetryUnconfirmed'
  BY <1>3 DEF Publish, Enqueue, RetryCountOf, RetriesConfirmed, Inv, TypeOK
<1> USE ConsumerAssumption DEF Inv, TypeOK, Places
<1>4. ASSUME NEW c \in Copies, RequeueStale(c) PROVE NoRetryUnconfirmed'
  BY <1>2, <1>4 DEF RequeueStale
<1>5. ASSUME NEW k \in Consumers, LoopStep(k) \/ NetworkStep(k) \/ ShutdownStep(k) PROVE NoRetryUnconfirmed'
  <2>1. UNCHANGED header
    BY <1>5, LoopFrame, NetworkFrame, ShutdownFrame
  <2>2. \A c \in Copies : loc[c] = "none" => loc'[c] = "none"
    BY <1>5, LoopFrame, ShutdownFrame DEF CloseSession, NetworkStep, BrokerDropsLink, ClientLosesChannel, LoseConnection, Reconnect, Release
  <2> QED
    BY <1>2, <2>1, <2>2
<1>6. ASSUME NEW k \in Consumers, NEW c \in Copies, DeliveryStep(k, c) PROVE NoRetryUnconfirmed'
  <2>1. CASE Republish(k, c)
    BY <1>1, <2>1, RepublishConfirmed DEF Republish, RepublishRefused, RepublishLost, RepublishAccepted
  <2>2. CASE Deliver(k, c)
    BY <1>2, <2>2 DEF Deliver
  <2>3. CASE Receive(k, c) \/ Dispatch(k, c) \/ HandlerReturns(k, c) \/ AwaitConfirm(k, c)
    BY <1>2, <2>3 DEF Receive, Dispatch, HandlerReturns, HandlerSucceeds, HandlerFails, AwaitConfirm,
       ConfirmAcked, ConfirmFails
  <2>4. CASE Acknowledge(k, c)
    BY <1>2, <2>4 DEF Acknowledge, Ack, Reject, Requeue, Settle, Effective
  <2> QED
    BY <1>6, <2>1, <2>2, <2>3, <2>4 DEF DeliveryStep
<1>7. CASE UNCHANGED vars
  BY <1>2, <1>7 DEF vars
<1> QED
  BY <1>3, <1>4, <1>5, <1>6, <1>7 DEF Next

\* No session ends, and both ends of every channel stay the same.
LEMMA SessionsLastStep ==
  ASSUME OnceInv, [Next]_vars, NothingWrong, NothingWrong'
  PROVE  SessionsLast'
<1> USE DEF OnceInv, Once, Inv, TypeOK, SessionsLast
<1>0. UNCHANGED faults /\ ~Fault
  BY WrongStays DEF Fault
<1>1. ASSUME NEW k \in Consumers, LoopStep(k) PROVE SessionsLast'
  <2>1. CASE Consume(k) \/ CheckContext(k) \/ OpenSession(k)
    BY <2>1 DEF Consume, CheckContext, OpenSession, GoTo, AfterContextCheck, NothingWrong
  <2>2. ~OpenFails(k) /\ ~Wake(k) /\ ~CloseSession(k) /\ ~StopOnCancel(k)
    BY <1>0 DEF OpenFails, Wake, CloseSession, StopOnCancel, NothingWrong
  <2>3. ~SessionEnds(k)
    BY <1>0 DEF SessionEnds, LoopInSelect
  <2> QED
    BY <1>1, <2>1, <2>2, <2>3 DEF LoopStep
<1>2. ASSUME NEW k \in Consumers, NetworkStep(k) PROVE FALSE
  BY <1>0, <1>2 DEF NetworkStep, BrokerDropsLink, ClientLosesChannel, LoseConnection, Reconnect
<1>3. ASSUME UNCHANGED <<phase, endsVars>> PROVE SessionsLast'
  BY <1>3
<1>4. ASSUME NEW m \in Messages, NEW c \in Copies, NEW h \in PublishedHeaders, Publish(m, c, h)
      PROVE  SessionsLast'
  BY <1>3, <1>4 DEF Publish
<1>5. ASSUME NEW c \in Copies, RequeueStale(c) PROVE SessionsLast'
  BY <1>3, <1>5 DEF RequeueStale
<1>6. CASE UNCHANGED vars
  BY <1>3, <1>6 DEF vars
<1>7. ASSUME NEW k \in Consumers, ShutdownStep(k) PROVE FALSE
  BY <1>7 DEF ShutdownStep, Cancel, Close, CloseReturns, CloseOrder, NothingWrong
<1> QED
  BY <1>1, <1>2, <1>3, <1>4, <1>5, <1>6, <1>7, DeliveryFrame DEF Next

----------------------------------------------------------------------------
(* Each message goes from one hand to the next.                            *)

Handed == NoneForgotten /\ OneDue

\* Nothing but a session and its messages: the copies stay where they are.
LEMMA HandedFrame ==
  ASSUME Handed, UNCHANGED <<loc, stage, msg, done, dropped>>
  PROVE  Handed'
BY DEF Handed, NoneForgotten, OneDue, Due, Settled, DeadLettered, CopiesOf

\* Work on a copy goes on: no other becomes due, and nothing is settled or rejected.
LEMMA WorkStep ==
  ASSUME OnceInv, NothingWrong, Handed, NEW k \in Consumers, NEW c \in Copies,
         stage[k][c] # "idle",
         NEW s \in Stages \ {"idle", "reject"},
         s \in {"accepted", "ack"} \/ stage[k][c] \notin {"accepted", "ack", "reject"},
         SetStage(k, c, s),
         UNCHANGED <<loc, msg, done, dropped>>
  PROVE  Handed'
<1> USE DEF OnceInv, Inv, TypeOK, SetStage
<1>1. \A j \in Consumers, d \in Copies :
         stage'[j][d] = IF j = k /\ d = c THEN s ELSE stage[j][d]
  OBVIOUS
<1>2. \A d \in Copies : Due(d)' => Due(d)
  BY <1>1 DEF Due
<1>3. \A m : Settled(m)' <=> Settled(m)
  BY DEF Settled, DeadLettered, CopiesOf
<1>4. NoneForgotten'
  BY <1>1 DEF Handed, NoneForgotten
<1>5. OneDue'
  BY <1>1, <1>2, <1>3 DEF Handed, OneDue
<1> QED
  BY <1>4, <1>5 DEF Handed

\* A copy whose work was not due any more leaves its consumer's hands, or one that was
\* due goes back to the queue.
LEMMA LetGoStep ==
  ASSUME OnceInv, NothingWrong, Handed, NEW k \in Consumers, NEW c \in Copies,
         stage[k][c] # "idle",
         NEW place \in {"ready", "gone", "dead"},
         place = "ready" <=> stage[k][c] \notin {"accepted", "ack", "reject"},
         loc' = [loc EXCEPT ![c] = place],
         SetStage(k, c, "idle"),
         UNCHANGED <<msg, done>>,
         \/ place = "gone" /\ stage[k][c] = "ack" /\ UNCHANGED dropped
         \/ place = "ready" /\ UNCHANGED dropped
         \/ stage[k][c] = "reject" /\ dropped' \in {dropped, dropped \cup {msg[c]}}
  PROVE  Handed'
<1> USE ConsumerAssumption DEF OnceInv, Inv, TypeOK, SetStage, Places
<1>1. \A j \in Consumers, d \in Copies :
         stage'[j][d] = IF j = k /\ d = c THEN "idle" ELSE stage[j][d]
  OBVIOUS
<1>2. \A d \in Copies : loc'[d] = IF d = c THEN place ELSE loc[d]
  OBVIOUS
<1>3. loc[c] = k
  BY WorkIsHeld
<1>4. \A d \in Copies : Due(d)' => Due(d)
  BY <1>1, <1>2, <1>3 DEF Due
<1>5. \A d \in Copies : Due(d)' /\ Settled(msg[d])' => Settled(msg[d])
  <2> SUFFICES ASSUME NEW d \in Copies, Due(d)', Settled(msg[d])' PROVE Settled(msg[d])
    OBVIOUS
  <2>1. CASE stage[k][c] = "reject"
    <3>1. msg[d] # msg[c]
      BY <1>4, <2>1 DEF Handed, OneDue
    <3> QED
      BY <1>2, <2>1, <3>1 DEF Settled, DeadLettered, CopiesOf
  <2>2. CASE stage[k][c] # "reject"
    BY <1>2, <2>2 DEF Settled, DeadLettered, CopiesOf
  <2> QED
    BY <2>1, <2>2
<1>6. NoneForgotten'
  BY <1>1, <1>2, <1>3 DEF Handed, NoneForgotten
<1>7. OneDue'
  BY <1>1, <1>4, <1>5 DEF Handed, OneDue
<1> QED
  BY <1>6, <1>7 DEF Handed

\* The one copy of a message that is due has been handled, or failed for good.
LEMMA HandledStep ==
  ASSUME OnceInv, NothingWrong, Handed, NEW k \in Consumers, NEW c \in Copies,
         stage[k][c] = "handling",
         NEW s \in {"ack", "reject"},
         SetStage(k, c, s),
         UNCHANGED <<loc, msg, dropped>>,
         IF s = "ack" THEN done' = done \cup {msg[c]} ELSE UNCHANGED done
  PROVE  Handed'
<1> USE DEF OnceInv, Inv, TypeOK, SetStage
<1>1. \A j \in Consumers, d \in Copies :
         stage'[j][d] = IF j = k /\ d = c THEN s ELSE stage[j][d]
  OBVIOUS
<1>2. Due(c) /\ ~Due(c)'
  BY <1>1, WorkIsHeld, ConsumerAssumption DEF Due, Places
<1>3. \A d \in Copies : Due(d)' => Due(d) /\ msg[d] # msg[c]
  <2>1. \A d \in Copies : Due(d)' => Due(d)
    BY <1>1 DEF Due
  <2> QED
    BY <1>2, <2>1 DEF Handed, OneDue
<1>4. \A d \in Copies : Due(d)' /\ Settled(msg[d])' => Settled(msg[d])
  BY <1>3 DEF Settled, DeadLettered, CopiesOf
<1>5. NoneForgotten'
  BY <1>1 DEF Handed, NoneForgotten
<1>6. OneDue'
  BY <1>1, <1>3, <1>4 DEF Handed, OneDue
<1> QED
  BY <1>5, <1>6 DEF Handed

\* A retry takes the place of the copy it is sent for.
LEMMA ReplaceStep ==
  ASSUME OnceInv, NothingWrong, Handed, NEW k \in Consumers, NEW c \in Copies, NEW n \in Copies,
         RepublishAccepted(k, c, n)
  PROVE  Handed'
<1> USE ConsumerAssumption DEF OnceInv, Inv, TypeOK, SetStage, Places
<1>0. AfterRepublish("accepted") = "accepted"
  BY RepublishConfirmed DEF RepublishAccepted, AfterRepublish
<1>1. CASE msg[c] \in Unroutable
  BY <1>0, <1>1, WorkStep DEF RepublishAccepted, Stages, ActiveStages
<1>2. CASE msg[c] \notin Unroutable
  <2>0. stage[k][c] = "republish" /\ loc[n] = "none" /\ n # c
    <3>1. stage[k][c] = "republish" /\ loc[n] = "none"
      BY <1>2 DEF RepublishAccepted, Enqueue
    <3>2. loc[c] \notin Places
      BY <3>1, WorkIsHeld
    <3> QED
      BY <3>1, <3>2
  <2>1. /\ loc' = [loc EXCEPT ![n] = "ready"]
        /\ msg' = [msg EXCEPT ![n] = msg[c]]
        /\ stage' = [stage EXCEPT ![k][c] = "accepted"]
        /\ UNCHANGED <<done, dropped>>
    BY <1>0, <1>2 DEF RepublishAccepted, Enqueue
  <2>2. \A j \in Consumers, d \in Copies :
           stage'[j][d] = IF j = k /\ d = c THEN "accepted" ELSE stage[j][d]
    BY <2>1
  <2>3. Due(c) /\ loc[c] = k /\ \A j \in Consumers : stage[j][n] = "idle"
    BY <2>0, WorkIsHeld DEF Due, FreshCopies
  <2>4. \A d \in Copies : Due(d)' => d = n \/ (Due(d) /\ d # c)
    BY <2>0, <2>1, <2>2, <2>3 DEF Due
  <2>5. \A d \in Copies : Due(d)' => d = n \/ (Due(d) /\ msg[d] # msg[c])
    BY <2>3, <2>4 DEF Handed, OneDue
  <2>6. \A m : Settled(m)' <=> Settled(m)
    BY <2>0, <2>1 DEF Settled, DeadLettered, CopiesOf
  <2>7. NoneForgotten'
    BY <2>0, <2>1, <2>2 DEF Handed, NoneForgotten
  <2>8. OneDue'
    <3> SUFFICES ASSUME NEW d \in Copies, Due(d)'
                 PROVE  /\ ~Settled(msg[d])'
                        /\ \A e \in Copies : Due(e)' /\ msg'[e] = msg'[d] => e = d
                        /\ \A j \in Consumers, e \in Copies : stage'[j][e] = "reject" => msg'[e] # msg'[d]
      BY DEF OneDue
    <3>1. \A j \in Consumers, e \in Copies : stage'[j][e] = "reject" => stage[j][e] = "reject" /\ e # n
      BY <2>2, <2>3
    <3>2. CASE d = n
      BY <2>1, <2>3, <2>5, <2>6, <3>1, <3>2 DEF Handed, OneDue
    <3>3. CASE d # n
      BY <2>1, <2>3, <2>5, <2>6, <3>1, <3>3 DEF Handed, OneDue
    <3> QED
      BY <3>2, <3>3
  <2> QED
    BY <2>7, <2>8 DEF Handed
<1> QED
  BY <1>1, <1>2

\* A new message comes with one copy.
LEMMA PublishStep ==
  ASSUME OnceInv, NothingWrong, Handed,
         NEW m \in Messages, NEW c \in Copies, NEW h \in PublishedHeaders, Publish(m, c, h)
  PROVE  Handed'
<1> USE ConsumerAssumption DEF OnceInv, Inv, TypeOK, Places
<1>1. /\ m \notin published /\ loc[c] = "none"
      /\ loc' = [loc EXCEPT ![c] = "ready"]
      /\ msg' = [msg EXCEPT ![c] = m]
      /\ UNCHANGED <<stage, done, dropped>>
  BY DEF Publish, Enqueue
<1>2. \A d \in Copies : loc[d] # "none" => msg[d] # m
  BY <1>1 DEF FreshCopies
<1>3. \A d \in Copies : Due(d)' => d = c \/ Due(d)
  BY <1>1 DEF Due
<1>4. \A d \in Copies : Due(d) => msg[d] # m /\ d # c
  BY <1>1, <1>2 DEF Due
<1>5. \A j \in Consumers, d \in Copies : stage[j][d] # "idle" => msg[d] # m /\ d # c
  BY <1>1, <1>2 DEF FreshCopies
<1>6. ~Settled(m)' /\ \A x : x # m => (Settled(x)' <=> Settled(x))
  BY <1>1, <1>2 DEF Settled, DeadLettered, CopiesOf, SettledWasPublished
<1>7. NoneForgotten'
  BY <1>1 DEF Handed, NoneForgotten
<1>8. OneDue'
  BY <1>1, <1>3, <1>4, <1>5, <1>6 DEF Handed, OneDue
<1> QED
  BY <1>7, <1>8 DEF Handed

\* What happens to a delivery.
LEMMA DeliveryHanded ==
  ASSUME OnceInv, NothingWrong, NothingWrong', Handed, UNCHANGED faults,
         NEW k \in Consumers, NEW c \in Copies, DeliveryStep(k, c)
  PROVE  Handed'
<1> USE ConsumerAssumption DEF OnceInv, Inv, TypeOK, Places, Stages, ActiveStages
<1>0. ~Fault
  BY DEF Fault
<1>1. CASE Deliver(k, c)
  <2>1. /\ loc[c] = "ready" /\ loc' = [loc EXCEPT ![c] = k]
        /\ stage' = [stage EXCEPT ![k][c] = "buffered"]
        /\ UNCHANGED <<msg, done, dropped>>
    BY <1>1 DEF Deliver, SetStage
  <2>2. \A d \in Copies : Due(d)' <=> Due(d)
    BY <2>1 DEF Due
  <2>3. \A m : Settled(m)' <=> Settled(m)
    BY <2>1 DEF Settled, DeadLettered, CopiesOf
  <2>4. NoneForgotten'
    BY <2>1 DEF Handed, NoneForgotten
  <2>5. OneDue'
    BY <2>1, <2>2, <2>3 DEF Handed, OneDue
  <2> QED
    BY <2>4, <2>5 DEF Handed
<1>2. CASE Receive(k, c)
  BY <1>2, WorkStep DEF Receive
<1>3. CASE Dispatch(k, c)
  BY <1>3, WorkStep DEF Dispatch
<1>4. CASE HandlerSucceeds(k, c)
  BY <1>4, HandledStep DEF HandlerSucceeds
<1>5. ASSUME NEW f \in BOOLEAN, HandlerFails(k, c, f) PROVE Handed'
  <2>1. CASE SetStage(k, c, "reject")
    BY <1>5, <2>1, HandledStep DEF HandlerFails
  <2>2. CASE SetStage(k, c, "republish")
    BY <1>5, <2>2, WorkStep DEF HandlerFails
  <2> QED
    BY <1>5, <2>1, <2>2 DEF HandlerFails
<1>6. CASE RepublishRefused(k, c)
  BY <1>6, WorkStep DEF RepublishRefused
<1>7. CASE RepublishLost(k, c)
  <2>1. AfterRepublish("lost") \in {"lost", "requeue"}
    BY DEF AfterRepublish
  <2> QED
    BY <1>7, <2>1, WorkStep DEF RepublishLost
<1>8. ASSUME NEW n \in Copies, RepublishAccepted(k, c, n) PROVE Handed'
  BY <1>8, ReplaceStep
<1>9. CASE ConfirmAcked(k, c)
  BY <1>9, WorkStep DEF ConfirmAcked, MayConfirm
<1>10. CASE ConfirmFails(k, c)
  <2>1. stage[k][c] = "lost"
    BY <1>0, <1>10, WorkIsHeld DEF ConfirmFails, NothingWrong
  <2> QED
    BY <1>10, <2>1, WorkStep DEF ConfirmFails
<1>11. ASSUME stage[k][c] # "idle" PROVE Effective(k, c)
  BY <1>11, WorkIsHeld DEF Effective
<1>12. CASE Ack(k, c)
  BY <1>11, <1>12, LetGoStep DEF Ack, Settle, HandlerEnds
<1>13. CASE Reject(k, c)
  <2>1. PICK place \in {"gone", "dead"} : loc' = [loc EXCEPT ![c] = place]
    BY <1>11, <1>13 DEF Reject, Settle
  <2>2. dropped' \in {dropped, dropped \cup {msg[c]}}
    BY <1>13 DEF Reject
  <2> QED
    BY <1>13, <2>1, <2>2, LetGoStep DEF Reject, HandlerEnds
<1>14. CASE Requeue(k, c)
  BY <1>11, <1>14, LetGoStep DEF Requeue, Settle, HandlerEnds
<1> QED
  BY <1>1, <1>2, <1>3, <1>4, <1>5, <1>6, <1>7, <1>8, <1>9, <1>10, <1>12, <1>13, <1>14
     DEF DeliveryStep, HandlerReturns, Republish, AwaitConfirm, Acknowledge

\* Every step hands a message on, and multiplies none.
LEMMA HandedStep ==
  ASSUME OnceInv, [Next]_vars, NothingWrong, NothingWrong', Handed
  PROVE  Handed'
<1>0. UNCHANGED faults /\ ~Fault
  BY WrongStays DEF OnceInv, NothingWrong, Fault
<1>1. ASSUME NEW c \in Copies, RequeueStale(c) PROVE FALSE
  BY <1>1 DEF Handed, NoneForgotten, RequeueStale
<1>2. ASSUME NEW k \in Consumers, LoopStep(k) PROVE Handed'
  <2>1. ~CloseSession(k)
    BY DEF OnceInv, Once, SessionsLast, CloseSession
  <2> QED
    BY <1>2, <2>1, LoopFrame, HandedFrame
<1>3. ASSUME NEW k \in Consumers, NetworkStep(k) PROVE FALSE
  BY <1>0, <1>3 DEF NetworkStep, BrokerDropsLink, ClientLosesChannel, LoseConnection, Reconnect,
                     OnceInv, Once, SessionsLast
<1>4. ASSUME NEW k \in Consumers, ShutdownStep(k) PROVE Handed'
  BY <1>4, ShutdownFrame, HandedFrame
<1>5. CASE UNCHANGED vars
  BY <1>5, HandedFrame DEF vars
<1> QED
  BY <1>0, <1>1, <1>2, <1>3, <1>4, <1>5, PublishStep, DeliveryHanded DEF Next

----------------------------------------------------------------------------
(* The theorem.                                                            *)

\* Every step preserves Once, with what it rests on.
LEMMA OnceStep == OnceInv /\ [Next]_vars => OnceInv'
<1> SUFFICES ASSUME OnceInv, [Next]_vars PROVE OnceInv'
  OBVIOUS
<1>1. Inv'
  BY TypeStep, FreshStep, SessionsStep, CloseStep, BorneStep, BudgetStep, DropsStep,
     CountStep, MatchStep, SlotsStep, SettledStep, HeldStep DEF Inv, OnceInv
<1>2. RetriesConfirmed'
  BY DEF OnceInv, RetriesConfirmed, ReadRetryCount
<1>3. ASSUME NothingWrong' PROVE (NoRetryUnconfirmed /\ SessionsLast /\ NoneForgotten /\ OneDue)'
  <2>1. NothingWrong
    BY <1>3, WrongStays DEF OnceInv
  <2>2. Handed
    BY <2>1 DEF OnceInv, Once, Handed
  <2> QED
    BY <1>3, <2>1, <2>2, UnconfirmedStep, SessionsLastStep, HandedStep DEF Handed
<1> QED
  BY <1>1, <1>2, <1>3 DEF OnceInv, Once

\* Once holds when nothing has been published.
LEMMA OnceInit == RetriesConfirmed /\ Init => OnceInv
<1>1. Init => NoRetryUnconfirmed /\ SessionsLast /\ NoneForgotten /\ OneDue
  BY ConsumerAssumption DEF Init, NoRetryUnconfirmed, SessionsLast, NoneForgotten, OneDue, Due, Places
<1> QED
  BY <1>1, InitInv DEF OnceInv, Once

\* As long as nothing fails, each message goes from one hand to the next.
THEOREM HandToHand == RetriesConfirmed /\ Spec => []Once
<1>1. OnceInv => Once
  BY DEF OnceInv
<1> QED
  BY <1>1, OnceInit, OnceStep, PTL DEF Spec

\* As long as nothing fails and nobody shuts down, retries replace a message and never
\* multiply it: it is owed to the handlers at most once, and not once it is settled.
\* This is so if retries are confirmed, which a channel of handleHandlerError is when
\* MaxRetries > 0, or if no producer sets a count that leaves any.
THEOREM NeverMultiplied == RetriesConfirmed /\ Spec => []ExactlyOnceWithoutFaults
<1>1. OnceInv => ExactlyOnceWithoutFaults
  <2> SUFFICES ASSUME OnceInv, NothingWrong, NEW m \in published
               PROVE  Cardinality(Owed(m)) <= (IF Settled(m) THEN 0 ELSE 1)
    BY DEF ExactlyOnceWithoutFaults
  <2>1. CASE Owed(m) = {}
    BY <2>1, FS_EmptySet
  <2>2. ASSUME NEW c \in Owed(m) PROVE Owed(m) = {c} /\ ~Settled(m)
    BY <2>2 DEF OnceInv, Once, OneDue, Owed, CopiesOf
  <2>3. ASSUME NEW c \in Owed(m) PROVE Cardinality(Owed(m)) = 1
    BY <2>2, <2>3, FS_Singleton
  <2> QED
    BY <2>1, <2>2, <2>3
<1> QED
  BY <1>1, OnceInit, OnceStep, PTL DEF Spec
=============================================================================
