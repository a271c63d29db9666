--------------------------- MODULE ConsumerProof ---------------------------
(***************************************************************************)
(* Proofs about Consumer, for any number of consumers, messages, copies,   *)
(* workers and faults and any MaxRetries.  Inv is inductive: one lemma per *)
(* conjunct, each with one step per action that can disturb it.  The frame *)
(* lemmas say which variables the other actions leave alone.               *)
(***************************************************************************)
EXTENDS Consumer, FiniteSetTheorems, TLAPS

USE DEF messageVars, copyVars, historyVars, endsVars, closeVars

----------------------------------------------------------------------------
(* Frames.                                                                 *)

\* The session loop (Consume, consumeOnce) leaves messages, copies and the
\* context alone, and only the deferred calls of a session move deliveries.
LEMMA LoopFrame ==
  ASSUME NEW k \in Consumers, LoopStep(k)
  PROVE  /\ UNCHANGED <<published, done, dropped, msg, header, fails, fatal,
                        cancelled, closing>>
         /\ CloseSession(k) \/ UNCHANGED <<loc, stage>>
         /\ UNCHANGED conn
         /\ OpenSession(k) \/ UNCHANGED sem
<1>1. CASE Consume(k)       BY <1>1 DEF Consume
<1>2. CASE CheckContext(k)  BY <1>2 DEF CheckContext
<1>3. CASE OpenSession(k)   BY <1>3 DEF OpenSession
<1>4. CASE OpenFails(k)     BY <1>4 DEF OpenFails
<1>5. CASE Wake(k)          BY <1>5 DEF Wake
<1>6. CASE StopOnCancel(k)  BY <1>6 DEF StopOnCancel
<1>7. CASE SessionEnds(k)   BY <1>7 DEF SessionEnds
<1>8. CASE CloseSession(k)  BY <1>8 DEF CloseSession
<1> QED
  BY <1>1, <1>2, <1>3, <1>4, <1>5, <1>6, <1>7, <1>8 DEF LoopStep

\* What happens to a delivery (handleDelivery and the broker's side of it) leaves
\* the session, the context and the set of published messages alone.
LEMMA DeliveryFrame ==
  ASSUME NEW k \in Consumers, NEW c \in Copies, DeliveryStep(k, c)
  PROVE  UNCHANGED <<published, phase, conn, chan, link, cancelled, closing>>
<1>1. CASE Deliver(k, c)         BY <1>1 DEF Deliver
<1>2. CASE Receive(k, c)         BY <1>2 DEF Receive
<1>3. CASE Dispatch(k, c)        BY <1>3 DEF Dispatch
<1>4. CASE HandlerReturns(k, c)  BY <1>4 DEF HandlerReturns, HandlerSucceeds, HandlerFails
<1>5. CASE Republish(k, c)
  BY <1>5 DEF Republish, RepublishRefused, RepublishLost, RepublishAccepted
<1>6. CASE AwaitConfirm(k, c)    BY <1>6 DEF AwaitConfirm, ConfirmAcked, ConfirmFails
<1>7. CASE Acknowledge(k, c)     BY <1>7 DEF Acknowledge, Ack, Reject, Requeue
<1> QED
  BY <1>1, <1>2, <1>3, <1>4, <1>5, <1>6, <1>7 DEF DeliveryStep

\* A lost connection touches the two ends and what the broker holds.
LEMMA NetworkFrame ==
  ASSUME NEW k \in Consumers, NetworkStep(k)
  PROVE  UNCHANGED <<published, done, dropped, msg, header, fails, fatal, phase,
                     stage, sem, cancelled, closing>>
BY DEF NetworkStep, BrokerDropsLink, ClientLosesChannel, LoseConnection, Reconnect

\* Cancelling and Close touch the context and the progress of Close.
LEMMA ShutdownFrame ==
  ASSUME NEW k \in Consumers, ShutdownStep(k)
  PROVE  UNCHANGED <<published, done, dropped, loc, msg, header, fails, fatal,
                     phase, chan, link, stage, sem, faults>>
BY DEF ShutdownStep, Cancel, Close, CloseReturns

\* The retry count of any copy is an integer, whatever its header.
LEMMA CountIsInt ==
  ASSUME TypeOK, NEW c \in Copies
  PROVE  RetryCountOf(c) \in Int
BY DEF TypeOK, RetryHeader, RetryCountOf, ReadRetryCount

\* A header written by NextRetryHeaders is read back as the count it was given.
LEMMA HeaderRoundTrip ==
  ASSUME NEW n \in Int
  PROVE  /\ NextRetryHeaders(n) \in RetryHeader
         /\ ReadRetryCount(NextRetryHeaders(n)) = n
BY DEF NextRetryHeaders, RetryHeader, HeaderKinds, ReadRetryCount

----------------------------------------------------------------------------
(* Each conjunct of Inv is preserved.                                      *)

\* The steps of the session loop and of the environment keep every variable in
\* its type.
LEMMA LoopType ==
  ASSUME TypeOK, NEW k \in Consumers, LoopStep(k) \/ NetworkStep(k) \/ ShutdownStep(k)
  PROVE  TypeOK'
<1> USE ConsumerAssumption DEF TypeOK, Places, Phases, Connections
<1>1. CASE Consume(k)             BY <1>1 DEF Consume, GoTo
<1>2. CASE CheckContext(k)        BY <1>2 DEF CheckContext, GoTo, AfterContextCheck
<1>3. CASE OpenSession(k)         BY <1>3 DEF OpenSession, GoTo
<1>4. CASE OpenFails(k)           BY <1>4 DEF OpenFails, GoTo, Fault
<1>5. CASE Wake(k)                BY <1>5 DEF Wake, GoTo
<1>6. CASE StopOnCancel(k)        BY <1>6 DEF StopOnCancel, GoTo
<1>7. CASE SessionEnds(k)         BY <1>7 DEF SessionEnds, GoTo, Fault
<1>8. CASE CloseSession(k)
  BY <1>8 DEF CloseSession, GoTo, Release, Stages, ActiveStages
<1>9. CASE BrokerDropsLink(k)     BY <1>9 DEF BrokerDropsLink, Release, Fault
<1>10. CASE ClientLosesChannel(k) BY <1>10 DEF ClientLosesChannel, Fault
<1>11. CASE LoseConnection(k)     BY <1>11 DEF LoseConnection, Fault
<1>12. CASE Reconnect(k)          BY <1>12 DEF Reconnect
<1>13. CASE ShutdownStep(k)
  <2>1. CASE Cancel(k)            BY <2>1 DEF Cancel
  <2>2. CASE Close(k)             BY <2>2 DEF Close
  <2>3. CASE CloseReturns(k)      BY <2>3 DEF CloseReturns
  <2> QED
    BY <1>13, <2>1, <2>2, <2>3 DEF ShutdownStep
<1> QED
  BY <1>1, <1>2, <1>3, <1>4, <1>5, <1>6, <1>7, <1>8, <1>9, <1>10, <1>11, <1>12, <1>13
     DEF LoopStep, NetworkStep

\* So do the steps of a delivery.
LEMMA DeliveryType ==
  ASSUME TypeOK, FreshCopies, NEW k \in Consumers, NEW c \in Copies, DeliveryStep(k, c)
  PROVE  TypeOK'
<1> USE ConsumerAssumption DEF TypeOK, Places, Stages, ActiveStages, SetStage
<1>0. stage[k][c] # "idle" => msg[c] \in Messages
  BY DEF FreshCopies
<1>1. CASE Deliver(k, c)          BY <1>1 DEF Deliver
<1>2. CASE Receive(k, c)          BY <1>2 DEF Receive
<1>3. CASE Dispatch(k, c)         BY <1>3 DEF Dispatch
<1>4. CASE HandlerSucceeds(k, c)  BY <1>0, <1>4 DEF HandlerSucceeds
<1>5. ASSUME NEW f \in BOOLEAN, HandlerFails(k, c, f) PROVE TypeOK'
  BY <1>5 DEF HandlerFails, CountFailure
<1>6. CASE RepublishRefused(k, c) BY <1>6 DEF RepublishRefused
<1>7. CASE RepublishLost(k, c)    BY <1>7 DEF RepublishLost, AfterRepublish, Fault
<1>8. ASSUME NEW n \in Copies, RepublishAccepted(k, c, n) PROVE TypeOK'
  <2> DEFINE h == NextRetryHeaders(RetryCountOf(c) + 1)
  <2>1. h \in RetryHeader
    BY CountIsInt, HeaderRoundTrip
  <2>2. CASE msg[c] \in Unroutable
    BY <1>8, <2>2 DEF RepublishAccepted, AfterRepublish
  <2>3. CASE msg[c] \notin Unroutable
    <3> HIDE DEF h
    <3>1. /\ loc' = [loc EXCEPT ![n] = "ready"]
          /\ msg' = [msg EXCEPT ![n] = msg[c]]
          /\ header' = [header EXCEPT ![n] = h]
          /\ fails' = [fails EXCEPT ![n] = fails[c]]
      BY <1>8, <2>3 DEF RepublishAccepted, Enqueue, h
    <3>2. /\ stage' = [stage EXCEPT ![k][c] = AfterRepublish("accepted")]
          /\ UNCHANGED <<published, done, dropped, fatal, phase, conn, chan, link, sem,
                         cancelled, closing, faults>>
      BY <1>8 DEF RepublishAccepted
    <3> QED
      BY <2>1, <3>1, <3>2 DEF AfterRepublish
  <2> QED
    BY <2>2, <2>3
<1>9. CASE ConfirmAcked(k, c)     BY <1>9 DEF ConfirmAcked
<1>10. CASE ConfirmFails(k, c)    BY <1>10 DEF ConfirmFails, Fault
<1>11. CASE Ack(k, c)             BY <1>11 DEF Ack, Settle, HandlerEnds
<1>12. CASE Reject(k, c)          BY <1>0, <1>12 DEF Reject, Settle, HandlerEnds
<1>13. CASE Requeue(k, c)         BY <1>13 DEF Requeue, Settle, HandlerEnds
<1> QED
  BY <1>1, <1>2, <1>3, <1>4, <1>5, <1>6, <1>7, <1>8, <1>9, <1>10, <1>11, <1>12, <1>13
     DEF DeliveryStep, HandlerReturns, Republish, AwaitConfirm, Acknowledge

\* Every step keeps every variable in its type.
LEMMA TypeStep == Inv /\ [Next]_vars => TypeOK'
<1> SUFFICES ASSUME Inv, [Next]_vars PROVE TypeOK'
  OBVIOUS
<1> USE DEF Inv
<1>1. ASSUME NEW m \in Messages, NEW c \in Copies, NEW h \in PublishedHeaders, Publish(m, c, h)
      PROVE  TypeOK'
  <2>1. ReadRetryCount(h) \in Int
    BY ConsumerAssumption DEF ReadRetryCount, RetryHeader
  <2> QED
    BY <1>1, <2>1, ConsumerAssumption DEF Publish, Enqueue, TypeOK, Places
<1>2. ASSUME NEW c \in Copies, RequeueStale(c) PROVE TypeOK'
  BY <1>2 DEF RequeueStale, TypeOK, Places
<1>3. CASE UNCHANGED vars
  BY <1>3 DEF vars, TypeOK
<1> QED
  BY <1>1, <1>2, <1>3, LoopType, DeliveryType DEF Next

\* A copy has no stage before it exists, and its message is published afterwards.
LEMMA FreshStep == Inv /\ [Next]_vars => FreshCopies'
<1> SUFFICES ASSUME Inv, [Next]_vars PROVE FreshCopies'
  OBVIOUS
<1> USE ConsumerAssumption DEF Inv, TypeOK, FreshCopies, Places
<1>1. ASSUME NEW m \in Messages, NEW c \in Copies, NEW h \in PublishedHeaders, Publish(m, c, h)
      PROVE  FreshCopies'
  BY <1>1 DEF Publish, Enqueue
<1>2. ASSUME NEW c \in Copies, RequeueStale(c) PROVE FreshCopies'
  BY <1>2 DEF RequeueStale
<1>3. ASSUME NEW k \in Consumers, LoopStep(k) PROVE FreshCopies'
  <2>1. UNCHANGED <<published, msg>>
    BY <1>3, LoopFrame
  <2>2. CASE CloseSession(k)
    <3>1. \A c \in Copies : loc'[c] = "none" <=> loc[c] = "none"
      BY <2>2 DEF CloseSession, Release
    <3>2. \A j \in Consumers, c \in Copies : stage[j][c] = "idle" => stage'[j][c] = "idle"
      BY <2>2 DEF CloseSession, ActiveStages
    <3> QED
      BY <2>1, <3>1, <3>2
  <2>3. CASE UNCHANGED <<loc, stage>>
    BY <2>1, <2>3
  <2> QED
    BY <1>3, <2>2, <2>3, LoopFrame
<1>4. ASSUME NEW k \in Consumers, NetworkStep(k) PROVE FreshCopies'
  BY <1>4 DEF NetworkStep, BrokerDropsLink, ClientLosesChannel, LoseConnection, Reconnect, Release
<1>5. ASSUME NEW k \in Consumers, ShutdownStep(k) PROVE FreshCopies'
  BY <1>5, ShutdownFrame
<1>6. ASSUME NEW k \in Consumers, NEW c \in Copies, DeliveryStep(k, c) PROVE FreshCopies'
  <2> USE DEF SetStage, HandlerEnds
  <2>1. CASE Deliver(k, c)         BY <2>1 DEF Deliver
  <2>2. CASE Receive(k, c)         BY <2>2 DEF Receive
  <2>3. CASE Dispatch(k, c)        BY <2>3 DEF Dispatch
  <2>4. CASE HandlerReturns(k, c)
    <3>1. CASE HandlerSucceeds(k, c)
      BY <3>1 DEF HandlerSucceeds
    <3>2. ASSUME NEW f \in BOOLEAN, HandlerFails(k, c, f) PROVE FreshCopies'
      BY <3>2 DEF HandlerFails
    <3> QED
      BY <2>4, <3>1, <3>2 DEF HandlerReturns
  <2>5. CASE RepublishRefused(k, c) \/ RepublishLost(k, c)
    BY <2>5 DEF RepublishRefused, RepublishLost
  <2>6. ASSUME NEW n \in Copies, RepublishAccepted(k, c, n) PROVE FreshCopies'
    <3>1. loc[c] # "none" /\ msg[c] \in published
      BY <2>6 DEF RepublishAccepted
    <3>2. CASE msg[c] \in Unroutable
      BY <2>6, <3>1, <3>2 DEF RepublishAccepted
    <3>3. CASE msg[c] \notin Unroutable
      <4>1. /\ loc[n] = "none" /\ n # c
            /\ loc' = [loc EXCEPT ![n] = "ready"]
            /\ msg' = [msg EXCEPT ![n] = msg[c]]
        BY <2>6, <3>1, <3>3 DEF RepublishAccepted, Enqueue
      <4> QED
        BY <2>6, <3>1, <4>1 DEF RepublishAccepted
    <3> QED
      BY <3>2, <3>3
  <2>7. CASE AwaitConfirm(k, c)
    <3>1. CASE ConfirmAcked(k, c)  BY <3>1 DEF ConfirmAcked, MayConfirm
    <3>2. CASE ConfirmFails(k, c)  BY <3>2 DEF ConfirmFails
    <3> QED
      BY <2>7, <3>1, <3>2 DEF AwaitConfirm
  <2>8. CASE Acknowledge(k, c)
    <3>1. CASE Ack(k, c)      BY <3>1 DEF Ack, Settle
    <3>2. CASE Reject(k, c)   BY <3>2 DEF Reject, Settle
    <3>3. CASE Requeue(k, c)  BY <3>3 DEF Requeue, Settle
    <3> QED
      BY <2>8, <3>1, <3>2, <3>3 DEF Acknowledge
  <2> QED
    BY <1>6, <2>1, <2>2, <2>3, <2>4, <2>5, <2>6, <2>7, <2>8 DEF DeliveryStep, Republish
<1>7. CASE UNCHANGED vars
  BY <1>7 DEF vars
<1> QED
  BY <1>1, <1>2, <1>3, <1>4, <1>5, <1>6, <1>7 DEF Next

\* Sessions open and close as a whole: CloseSession finds no handler running, and
\* deliveries move only while a session is open.
LEMMA SessionsStep == Inv /\ [Next]_vars => SessionsOpen'
<1> SUFFICES ASSUME Inv, [Next]_vars PROVE SessionsOpen'
  OBVIOUS
<1> USE DEF Inv, TypeOK, SessionsOpen, InSession
<1>1. ASSUME NEW m \in Messages, NEW c \in Copies, NEW h \in PublishedHeaders, Publish(m, c, h)
      PROVE  SessionsOpen'
  BY <1>1 DEF Publish
<1>2. ASSUME NEW c \in Copies, RequeueStale(c) PROVE SessionsOpen'
  BY <1>2 DEF RequeueStale
<1>3. ASSUME NEW k \in Consumers, LoopStep(k) PROVE SessionsOpen'
  <2> USE DEF GoTo
  <2>0. CASE Consume(k)
    BY <2>0 DEF Consume
  <2>1. CASE CheckContext(k)
    BY <2>1 DEF CheckContext
  <2>2. CASE OpenSession(k) \/ OpenFails(k) \/ Wake(k)
    BY <2>2, SMTT(30) DEF OpenSession, OpenFails, Wake
  <2>3. CASE StopOnCancel(k) \/ SessionEnds(k)
    BY <2>3 DEF StopOnCancel, SessionEnds
  <2>4. CASE CloseSession(k)
    BY <2>4 DEF CloseSession, InflightDrained, Active, ActiveStages, Stages
  <2> QED
    BY <1>3, <2>0, <2>1, <2>2, <2>3, <2>4 DEF LoopStep
<1>4. ASSUME NEW k \in Consumers, NetworkStep(k) PROVE SessionsOpen'
  BY <1>4 DEF NetworkStep, BrokerDropsLink, ClientLosesChannel, LoseConnection, Reconnect
<1>5. ASSUME NEW k \in Consumers, ShutdownStep(k) PROVE SessionsOpen'
  BY <1>5, ShutdownFrame
<1>6. ASSUME NEW k \in Consumers, NEW c \in Copies, DeliveryStep(k, c) PROVE SessionsOpen'
  <2>1. phase[k] \in InSession
    <3>1. CASE stage[k][c] # "idle"  BY <3>1
    <3>2. CASE link[k] = "open"      BY <3>2
    <3> QED
      BY <1>6, <3>1, <3>2
         DEF DeliveryStep, Deliver, Receive, Dispatch, HandlerReturns, HandlerSucceeds,
             HandlerFails, Republish, RepublishRefused, RepublishLost, RepublishAccepted,
             AwaitConfirm, ConfirmAcked, MayConfirm, ConfirmFails, Acknowledge, Ack,
             Reject, Requeue
  <2>2. \A j \in Consumers : j # k => stage'[j] = stage[j]
    BY <1>6
       DEF DeliveryStep, Deliver, Receive, Dispatch, HandlerReturns, HandlerSucceeds,
           HandlerFails, Republish, RepublishRefused, RepublishLost, RepublishAccepted,
           AwaitConfirm, ConfirmAcked, ConfirmFails, Acknowledge, Ack, Reject,
           Requeue, SetStage, HandlerEnds
  <2> QED
    BY <1>6, <2>1, <2>2, DeliveryFrame, SMTT(30)
<1>7. CASE UNCHANGED vars
  BY <1>7 DEF vars
<1> QED
  BY <1>1, <1>2, <1>3, <1>4, <1>5, <1>6, <1>7 DEF Next

\* After Close returned, a late Consume call gets no further than its check of the
\* context.
LEMMA CloseStep == Inv /\ [Next]_vars => CloseOrder'
<1> SUFFICES ASSUME Inv, [Next]_vars PROVE CloseOrder'
  OBVIOUS
<1> USE DEF Inv, TypeOK, CloseOrder
<1>1. ASSUME NEW m \in Messages, NEW c \in Copies, NEW h \in PublishedHeaders, Publish(m, c, h)
      PROVE  CloseOrder'
  BY <1>1 DEF Publish
<1>2. ASSUME NEW c \in Copies, RequeueStale(c) PROVE CloseOrder'
  BY <1>2 DEF RequeueStale
<1>3. ASSUME NEW k \in Consumers, LoopStep(k) PROVE CloseOrder'
  <2> USE DEF GoTo
  <2>1. CASE Consume(k) \/ CheckContext(k)
    BY <2>1 DEF Consume, CheckContext, AfterContextCheck
  <2>2. CASE OpenSession(k) \/ OpenFails(k) \/ Wake(k)
    BY <2>2 DEF OpenSession, OpenFails, Wake
  <2>3. CASE StopOnCancel(k) \/ SessionEnds(k)
    BY <2>3 DEF StopOnCancel, SessionEnds, LoopInSelect
  <2>4. CASE CloseSession(k)
    BY <2>4 DEF CloseSession
  <2> QED
    BY <1>3, <2>1, <2>2, <2>3, <2>4 DEF LoopStep
<1>4. ASSUME NEW k \in Consumers, NetworkStep(k) PROVE CloseOrder'
  BY <1>4, NetworkFrame
<1>5. ASSUME NEW k \in Consumers, ShutdownStep(k) PROVE CloseOrder'
  BY <1>5 DEF ShutdownStep, Cancel, Close, CloseReturns, NoneRunning
<1>6. ASSUME NEW k \in Consumers, NEW c \in Copies, DeliveryStep(k, c) PROVE CloseOrder'
  BY <1>6, DeliveryFrame
<1>7. CASE UNCHANGED vars
  BY <1>7 DEF vars
<1> QED
  BY <1>1, <1>2, <1>3, <1>4, <1>5, <1>6, <1>7 DEF Next

\* Every published message that routes back keeps a bearing copy: a retry is
\* accepted by the broker before its original stops bearing the message.
LEMMA BorneStep == Inv /\ [Next]_vars => Borne'
<1> SUFFICES ASSUME Inv, [Next]_vars PROVE Borne'
  OBVIOUS
<1>0. ASSUME UNCHANGED <<published, done, msg>>, dropped \subseteq dropped',
             \A c \in Copies : Bearing(c) => Bearing(c)'
      PROVE  Borne'
  BY <1>0 DEF Inv, Borne
<1> USE ConsumerAssumption DEF Inv, TypeOK, Borne, Bearing, Places
<1>1. ASSUME NEW m \in Messages, NEW c \in Copies, NEW h \in PublishedHeaders, Publish(m, c, h)
      PROVE  Borne'
  <2>1. Bearing(c)' /\ msg'[c] = m
    BY <1>1 DEF Publish, Enqueue
  <2>2. /\ published' = published \cup {m}
        /\ UNCHANGED <<done, dropped, stage>>
        /\ \A d \in Copies : Bearing(d) => msg'[d] = msg[d] /\ loc'[d] = loc[d]
    BY <1>1 DEF Publish, Enqueue
  <2> QED
    BY <2>1, <2>2, SMTT(30)
<1>2. ASSUME NEW c \in Copies, RequeueStale(c) PROVE Borne'
  BY <1>2 DEF RequeueStale
<1>3. ASSUME NEW k \in Consumers, LoopStep(k) PROVE Borne'
  <2>1. CASE CloseSession(k)
    <3>1. ASSUME NEW c \in Copies, Bearing(c) PROVE Bearing(c)'
      BY <2>1, <3>1 DEF CloseSession, Release
    <3> QED
      BY <1>3, <3>1, LoopFrame
  <2>2. CASE UNCHANGED <<loc, stage>>
    BY <1>3, <2>2, LoopFrame
  <2> QED
    BY <1>3, <2>1, <2>2, LoopFrame
<1>4. ASSUME NEW k \in Consumers, NetworkStep(k) PROVE Borne'
  <2>1. CASE BrokerDropsLink(k)
    BY <1>0, <2>1 DEF BrokerDropsLink, Release, messageVars, copyVars
  <2>2. CASE UNCHANGED loc
    BY <1>4, <2>2, NetworkFrame
  <2> QED
    BY <1>4, <2>1, <2>2 DEF NetworkStep, ClientLosesChannel, LoseConnection, Reconnect
<1>5. ASSUME NEW k \in Consumers, ShutdownStep(k) PROVE Borne'
  <2>1. UNCHANGED <<published, done, dropped, msg, loc, stage>>
    BY <1>5, ShutdownFrame
  <2> QED
    BY <2>1
<1>6. ASSUME NEW k \in Consumers, NEW c \in Copies, DeliveryStep(k, c) PROVE Borne'
  <2> USE DEF SetStage, HandlerEnds
  <2>1. CASE Deliver(k, c)
    <3>1. \A d \in Copies : Bearing(d) => Bearing(d)'
      BY <2>1, SMTT(30) DEF Deliver
    <3> HIDE DEF Borne, Bearing
    <3> QED
      BY <1>0, <2>1, <3>1 DEF Deliver, messageVars, copyVars
  <2>2. CASE Receive(k, c)          BY <2>2 DEF Receive
  <2>3. CASE Dispatch(k, c)         BY <2>3 DEF Dispatch
  <2>4. CASE HandlerSucceeds(k, c)  BY <2>4 DEF HandlerSucceeds
  <2>5. ASSUME NEW f \in BOOLEAN, HandlerFails(k, c, f) PROVE Borne'
    BY <2>5 DEF HandlerFails
  <2>6. CASE RepublishRefused(k, c) BY <2>6 DEF RepublishRefused
  <2>7. CASE RepublishLost(k, c)    BY <2>7 DEF RepublishLost, AfterRepublish
  <2>8. ASSUME NEW n \in Copies, RepublishAccepted(k, c, n) PROVE Borne'
    BY <2>8 DEF RepublishAccepted, AfterRepublish, Enqueue
  <2>9. CASE ConfirmAcked(k, c)     BY <2>9 DEF ConfirmAcked, MayConfirm
  <2>10. CASE ConfirmFails(k, c)    BY <2>10 DEF ConfirmFails
  <2>11. CASE Ack(k, c)
    BY <2>11, SMTT(30) DEF Ack, Settle, Effective
  <2>12. CASE Reject(k, c)
    <3>1. CASE ~Effective(k, c)
      BY <2>12, <3>1 DEF Reject, Settle
    <3>2. CASE Effective(k, c) /\ DisableDeadLetter
      BY <2>12, <3>2 DEF Reject, Settle, Effective
    <3>3. CASE Effective(k, c) /\ ~DisableDeadLetter
      <4>1. \A d \in Copies : Bearing(d) => Bearing(d)'
        BY <2>12, <3>3, SMTT(30) DEF Reject, Settle, Effective
      <4> HIDE DEF Borne, Bearing
      <4> QED
        BY <1>0, <2>12, <3>3, <4>1 DEF Reject, copyVars
    <3> QED
      BY <3>1, <3>2, <3>3
  <2>13. CASE Requeue(k, c)         BY <2>13 DEF Requeue, Settle
  <2> QED
    BY <1>6, <2>1, <2>2, <2>3, <2>4, <2>5, <2>6, <2>7, <2>8, <2>9, <2>10, <2>11, <2>12, <2>13
       DEF DeliveryStep, HandlerReturns, Republish, AwaitConfirm, Acknowledge
<1>7. CASE UNCHANGED vars
  BY <1>7 DEF vars
<1> QED
  BY <1>1, <1>2, <1>3, <1>4, <1>5, <1>6, <1>7 DEF Next

\* A retry inherits the failures of the delivery it replaces and counts one more.
LEMMA BudgetStep == Inv /\ [Next]_vars => RetryBudget'
<1> SUFFICES ASSUME Inv, [Next]_vars PROVE RetryBudget'
  OBVIOUS
<1> USE ConsumerAssumption
    DEF Inv, TypeOK, FreshCopies, RetryBudget, Covers, MayGiveUp, Places, RetryHeader,
        RetryCountOf, ReadRetryCount
<1>1. ASSUME NEW m \in Messages, NEW c \in Copies, NEW h \in PublishedHeaders, Publish(m, c, h)
      PROVE  RetryBudget'
  BY <1>1 DEF Publish, Enqueue
<1>2. ASSUME NEW c \in Copies, RequeueStale(c) PROVE RetryBudget'
  BY <1>2 DEF RequeueStale
<1>3. ASSUME NEW k \in Consumers, LoopStep(k) PROVE RetryBudget'
  <2>1. UNCHANGED <<header, fails, fatal>>
    BY <1>3, LoopFrame
  <2>2. CASE CloseSession(k)
    <3>1. ASSUME NEW c \in Copies
          PROVE  /\ loc'[c] = "none" => loc[c] = "none"
                 /\ loc'[c] = "dead" => loc[c] = "dead"
      BY <2>2 DEF CloseSession, Release
    <3>2. ASSUME NEW c \in Copies, NEW j \in Consumers
          PROVE  stage'[j][c] \in {"republish", "reject"} => stage'[j][c] = stage[j][c]
      BY <2>2 DEF CloseSession, ActiveStages
    <3>3. \A c \in Copies : loc[c] = "none" => loc'[c] = "none"
      BY <2>2 DEF CloseSession, Release
    <3> QED
      BY <2>1, <3>1, <3>2, <3>3
  <2>3. CASE UNCHANGED <<loc, stage>>
    BY <2>1, <2>3
  <2> QED
    BY <1>3, <2>2, <2>3, LoopFrame
<1>4. ASSUME NEW k \in Consumers, NetworkStep(k) PROVE RetryBudget'
  BY <1>4 DEF NetworkStep, BrokerDropsLink, ClientLosesChannel, LoseConnection, Reconnect, Release
<1>5. ASSUME NEW k \in Consumers, ShutdownStep(k) PROVE RetryBudget'
  BY <1>5, ShutdownFrame
<1>6. ASSUME NEW k \in Consumers, NEW c \in Copies, DeliveryStep(k, c) PROVE RetryBudget'
  <2> USE DEF SetStage, HandlerEnds
  <2>1. CASE Deliver(k, c)          BY <2>1 DEF Deliver
  <2>2. CASE Receive(k, c)          BY <2>2 DEF Receive
  <2>3. CASE Dispatch(k, c)         BY <2>3 DEF Dispatch
  <2>4. CASE HandlerSucceeds(k, c)  BY <2>4 DEF HandlerSucceeds
  <2>5. ASSUME NEW f \in BOOLEAN, HandlerFails(k, c, f) PROVE RetryBudget'
    BY <2>5 DEF HandlerFails, CountFailure, RetriesExhausted
  <2>6. CASE RepublishRefused(k, c) BY <2>6 DEF RepublishRefused
  <2>7. CASE RepublishLost(k, c)    BY <2>7 DEF RepublishLost, AfterRepublish
  <2>8. ASSUME NEW n \in Copies, RepublishAccepted(k, c, n) PROVE RetryBudget'
    <3>1. stage' = [stage EXCEPT ![k][c] = AfterRepublish("accepted")] /\ fatal' = fatal
      BY <2>8 DEF RepublishAccepted
    <3>2. CASE msg[c] \in Unroutable
      BY <2>8, <3>1, <3>2 DEF RepublishAccepted, AfterRepublish
    <3>3. CASE msg[c] \notin Unroutable
      <4>1. Covers(fails[c], RetryCountOf(c) + 1)
        BY <2>8 DEF RepublishAccepted
      <4>2. /\ loc[n] = "none" /\ n # c
            /\ loc' = [loc EXCEPT ![n] = "ready"]
            /\ fails' = [fails EXCEPT ![n] = fails[c]]
            /\ header' = [header EXCEPT ![n] = NextRetryHeaders(RetryCountOf(c) + 1)]
        BY <2>8, <3>3 DEF RepublishAccepted, Enqueue
      <4>3. RetryCountOf(n)' = RetryCountOf(c) + 1
        BY <4>2, CountIsInt, HeaderRoundTrip
      <4>4. \A d \in Copies : d # n => RetryCountOf(d)' = RetryCountOf(d)
        BY <4>2
      <4> QED
        BY <3>1, <4>1, <4>2, <4>3, <4>4 DEF AfterRepublish
    <3> QED
      BY <3>2, <3>3
  <2>9. CASE AwaitConfirm(k, c)
    <3>1. CASE ConfirmAcked(k, c)  BY <3>1 DEF ConfirmAcked
    <3>2. CASE ConfirmFails(k, c)  BY <3>2 DEF ConfirmFails
    <3> QED
      BY <2>9, <3>1, <3>2 DEF AwaitConfirm
  <2>10. CASE Ack(k, c)             BY <2>10 DEF Ack, Settle
  <2>11. CASE Reject(k, c)          BY <2>11 DEF Reject, Settle
  <2>12. CASE Requeue(k, c)         BY <2>12 DEF Requeue, Settle
  <2> QED
    BY <1>6, <2>1, <2>2, <2>3, <2>4, <2>5, <2>6, <2>7, <2>8, <2>9, <2>10, <2>11, <2>12
       DEF DeliveryStep, HandlerReturns, Republish, Acknowledge
<1>7. CASE UNCHANGED vars
  BY <1>7 DEF vars
<1> QED
  BY <1>1, <1>2, <1>3, <1>4, <1>5, <1>6, <1>7 DEF Next

\* A copy that exists keeps its message, its failures are never forgotten, and
\* only Reject drops a message.
LEMMA DropsStep == Inv /\ [Next]_vars => DropsJustified'
<1> SUFFICES ASSUME Inv, [Next]_vars PROVE DropsJustified'
  OBVIOUS
<1> USE ConsumerAssumption
    DEF Inv, TypeOK, FreshCopies, DropsJustified, CopiesOf, MayGiveUp, Places
<1>1. ASSUME NEW m \in Messages, NEW c \in Copies, NEW h \in PublishedHeaders, Publish(m, c, h)
      PROVE  DropsJustified'
  BY <1>1 DEF Publish, Enqueue
<1>2. ASSUME NEW c \in Copies, RequeueStale(c) PROVE DropsJustified'
  BY <1>2 DEF RequeueStale
<1>3. ASSUME NEW k \in Consumers, LoopStep(k) PROVE DropsJustified'
  <2>1. \A c \in Copies : loc[c] # "none" => loc'[c] # "none"
    BY <1>3, LoopFrame DEF CloseSession, Release
  <2> QED
    BY <1>3, <2>1, LoopFrame
<1>4. ASSUME NEW k \in Consumers, NetworkStep(k) PROVE DropsJustified'
  <2>1. \A c \in Copies : loc[c] # "none" => loc'[c] # "none"
    BY <1>4 DEF NetworkStep, BrokerDropsLink, ClientLosesChannel, LoseConnection, Reconnect, Release
  <2> QED
    BY <1>4, <2>1, NetworkFrame
<1>5. ASSUME NEW k \in Consumers, ShutdownStep(k) PROVE DropsJustified'
  BY <1>5, ShutdownFrame
<1>6. ASSUME NEW k \in Consumers, NEW c \in Copies, DeliveryStep(k, c) PROVE DropsJustified'
  <2>1. CASE Deliver(k, c)          BY <2>1 DEF Deliver
  <2>2. CASE Receive(k, c) \/ Dispatch(k, c)
    BY <2>2 DEF Receive, Dispatch
  <2>3. CASE HandlerSucceeds(k, c)  BY <2>3 DEF HandlerSucceeds
  <2>4. ASSUME NEW f \in BOOLEAN, HandlerFails(k, c, f) PROVE DropsJustified'
    BY <2>4 DEF HandlerFails, CountFailure
  <2>5. CASE RepublishRefused(k, c) BY <2>5 DEF RepublishRefused
  <2>6. CASE RepublishLost(k, c)    BY <2>6 DEF RepublishLost
  <2>7. ASSUME NEW n \in Copies, RepublishAccepted(k, c, n) PROVE DropsJustified'
    <3>1. /\ UNCHANGED <<dropped, fatal>>
          /\ \A d \in Copies : loc[d] # "none" =>
                loc'[d] # "none" /\ msg'[d] = msg[d] /\ fails'[d] = fails[d]
      BY <2>7 DEF RepublishAccepted, Enqueue, messageVars
    <3> QED
      BY <3>1
  <2>8. CASE AwaitConfirm(k, c)     BY <2>8 DEF AwaitConfirm, ConfirmAcked, ConfirmFails
  <2>9. CASE Ack(k, c) \/ Requeue(k, c)
    <3>1. /\ UNCHANGED <<dropped, msg, fails, fatal>>
          /\ \A d \in Copies : loc[d] # "none" => loc'[d] # "none"
      BY <2>9 DEF Ack, Requeue, Settle, messageVars, copyVars, historyVars
    <3> QED
      BY <3>1
  <2>10. CASE Reject(k, c)
    <3>1. MayGiveUp(c) /\ loc[c] # "none"
      BY <2>10 DEF Reject, RetryBudget
    <3>2. /\ dropped' \subseteq dropped \cup {msg[c]}
          /\ UNCHANGED <<msg, fails, fatal>>
          /\ \A d \in Copies : loc[d] # "none" => loc'[d] # "none"
      BY <2>10 DEF Reject, Settle
    <3> QED
      BY <3>1, <3>2
  <2> QED
    BY <1>6, <2>1, <2>2, <2>3, <2>4, <2>5, <2>6, <2>7, <2>8, <2>9, <2>10
       DEF DeliveryStep, HandlerReturns, Republish, Acknowledge
<1>7. CASE UNCHANGED vars
  BY <1>7 DEF vars
<1> QED
  BY <1>1, <1>2, <1>3, <1>4, <1>5, <1>6, <1>7 DEF Next

\* A republish is begun only while there are retries left, and adds one to the count.
LEMMA CountStep == Inv /\ [Next]_vars => RetriesLeft' /\ RetryCountBounded'
<1> SUFFICES ASSUME Inv, [Next]_vars PROVE RetriesLeft' /\ RetryCountBounded'
  OBVIOUS
<1> USE ConsumerAssumption
    DEF Inv, TypeOK, FreshCopies, RetriesLeft, RetryCountBounded, Places, RetryCountOf
<1>1. ASSUME NEW m \in Messages, NEW c \in Copies, NEW h \in PublishedHeaders, Publish(m, c, h)
      PROVE  RetriesLeft' /\ RetryCountBounded'
  BY <1>1 DEF Publish, Enqueue
<1>2. ASSUME UNCHANGED header,
             \A c \in Copies : loc'[c] # "none" => loc[c] # "none",
             \A k \in Consumers, c \in Copies :
                stage'[k][c] = "republish" => stage[k][c] = "republish" \/ RetryCountOf(c) < MaxRetries
      PROVE  RetriesLeft' /\ RetryCountBounded'
  BY <1>2
<1>3. ASSUME NEW c \in Copies, RequeueStale(c) PROVE RetriesLeft' /\ RetryCountBounded'
  BY <1>2, <1>3 DEF RequeueStale
<1>4. ASSUME NEW k \in Consumers, LoopStep(k) PROVE RetriesLeft' /\ RetryCountBounded'
  <2>1. CASE CloseSession(k)
    BY <1>2, <2>1 DEF CloseSession, Release, ActiveStages
  <2>2. CASE UNCHANGED <<loc, stage>>
    BY <1>2, <1>4, <2>2, LoopFrame
  <2> QED
    BY <1>4, <2>1, <2>2, LoopFrame
<1>5. ASSUME NEW k \in Consumers, NetworkStep(k) PROVE RetriesLeft' /\ RetryCountBounded'
  BY <1>2, <1>5 DEF NetworkStep, BrokerDropsLink, ClientLosesChannel, LoseConnection, Reconnect, Release
<1>6. ASSUME NEW k \in Consumers, ShutdownStep(k) PROVE RetriesLeft' /\ RetryCountBounded'
  BY <1>2, <1>6, ShutdownFrame
<1>7. ASSUME NEW k \in Consumers, NEW c \in Copies, DeliveryStep(k, c)
      PROVE  RetriesLeft' /\ RetryCountBounded'
  <2> USE DEF SetStage, HandlerEnds
  <2>1. CASE Deliver(k, c) \/ Receive(k, c) \/ Dispatch(k, c)
    <3>1. CASE Deliver(k, c)   BY <1>2, <3>1 DEF Deliver
    <3>2. CASE Receive(k, c)   BY <1>2, <3>2 DEF Receive
    <3>3. CASE Dispatch(k, c)  BY <1>2, <3>3 DEF Dispatch
    <3> QED
      BY <2>1, <3>1, <3>2, <3>3
  <2>2. CASE HandlerSucceeds(k, c)  BY <1>2, <2>2 DEF HandlerSucceeds
  <2>3. ASSUME NEW f \in BOOLEAN, HandlerFails(k, c, f) PROVE RetriesLeft' /\ RetryCountBounded'
    <3>1. RetryCountOf(c) < MaxRetries \/ RetriesExhausted(c)
      BY CountIsInt DEF RetriesExhausted
    <3> QED
      BY <1>2, <2>3, <3>1 DEF HandlerFails
  <2>4. CASE RepublishRefused(k, c) \/ RepublishLost(k, c)
    <3>1. CASE RepublishRefused(k, c)  BY <1>2, <3>1 DEF RepublishRefused
    <3>2. CASE RepublishLost(k, c)     BY <1>2, <3>2 DEF RepublishLost, AfterRepublish
    <3> QED
      BY <2>4, <3>1, <3>2
  <2>5. ASSUME NEW n \in Copies, RepublishAccepted(k, c, n) PROVE RetriesLeft' /\ RetryCountBounded'
    <3>1. stage' = [stage EXCEPT ![k][c] = AfterRepublish("accepted")]
      BY <2>5 DEF RepublishAccepted
    <3>2. CASE msg[c] \in Unroutable
      BY <1>2, <2>5, <3>1, <3>2 DEF RepublishAccepted, AfterRepublish
    <3>3. CASE msg[c] \notin Unroutable
      <4>1. /\ loc[n] = "none" /\ n # c /\ stage[k][c] = "republish"
            /\ loc' = [loc EXCEPT ![n] = "ready"]
            /\ header' = [header EXCEPT ![n] = NextRetryHeaders(RetryCountOf(c) + 1)]
        BY <2>5, <3>3 DEF RepublishAccepted, Enqueue
      <4>2. ~(RetryCountOf(n)' > MaxRetries)
        <5>1. RetryCountOf(n)' = RetryCountOf(c) + 1
          BY <4>1, CountIsInt, HeaderRoundTrip
        <5>2. RetryCountOf(c) \in Int /\ RetryCountOf(c) < MaxRetries
          BY <4>1, CountIsInt
        <5> HIDE DEF RetryCountOf
        <5> QED
          BY <5>1, <5>2
      <4>3. \A d \in Copies : d # n => header'[d] = header[d] /\ loc'[d] = loc[d]
        BY <4>1
      <4>4. \A j \in Consumers, d \in Copies : stage'[j][d] = "republish" => stage[j][d] = "republish"
        BY <3>1 DEF AfterRepublish
      <4>5. \A j \in Consumers : stage[j][n] # "republish"
        BY <4>1
      <4>6. RetryCountBounded'
        BY <4>2, <4>3
      <4> QED
        BY <4>3, <4>4, <4>5, <4>6, SMTT(30)
    <3> QED
      BY <3>2, <3>3
  <2>6. CASE AwaitConfirm(k, c)
    <3>1. CASE ConfirmAcked(k, c)  BY <1>2, <3>1 DEF ConfirmAcked
    <3>2. CASE ConfirmFails(k, c)  BY <1>2, <3>2 DEF ConfirmFails
    <3> QED
      BY <2>6, <3>1, <3>2 DEF AwaitConfirm
  <2>7. CASE Acknowledge(k, c)
    BY <1>2, <2>7 DEF Acknowledge, Ack, Reject, Requeue, Settle
  <2> QED
    BY <1>7, <2>1, <2>2, <2>3, <2>4, <2>5, <2>6, <2>7 DEF DeliveryStep, HandlerReturns, Republish
<1>8. CASE UNCHANGED vars
  BY <1>2, <1>8 DEF vars
<1> QED
  BY <1>1, <1>3, <1>4, <1>5, <1>6, <1>7, <1>8 DEF Next

\* A slot is taken by the handler that is started and given back when it returns; a
\* new session finds no handler of the one before it, so an empty sem matches.
LEMMA MatchStep == Inv /\ [Next]_vars => SlotsMatch'
<1> SUFFICES ASSUME Inv, [Next]_vars PROVE SlotsMatch'
  OBVIOUS
<1> USE DEF Inv, TypeOK, SlotsMatch, Active, ActiveStages, Sequential
<1>1. ASSUME UNCHANGED <<stage, sem>> PROVE SlotsMatch'
  BY <1>1
<1>2. ASSUME NEW m \in Messages, NEW c \in Copies, NEW h \in PublishedHeaders, Publish(m, c, h)
      PROVE  SlotsMatch'
  BY <1>1, <1>2 DEF Publish
<1>3. ASSUME NEW c \in Copies, RequeueStale(c) PROVE SlotsMatch'
  BY <1>1, <1>3 DEF RequeueStale
<1>4. ASSUME NEW k \in Consumers, LoopStep(k) PROVE SlotsMatch'
  <2>1. CASE OpenSession(k)
    <3>1. Active(k) = {}
      BY <2>1 DEF OpenSession, SessionsOpen, InSession
    <3> QED
      BY <2>1, <3>1 DEF OpenSession
  <2>2. CASE CloseSession(k)
    BY <2>2 DEF CloseSession
  <2> QED
    BY <1>1, <1>4, <2>1, <2>2, LoopFrame
<1>5. ASSUME NEW k \in Consumers, NetworkStep(k) \/ ShutdownStep(k) PROVE SlotsMatch'
  BY <1>1, <1>5, NetworkFrame, ShutdownFrame
<1>6. ASSUME NEW k \in Consumers, NEW c \in Copies, DeliveryStep(k, c) PROVE SlotsMatch'
  <2> USE DEF SetStage
  <2>1. ASSUME NEW s, stage' = [stage EXCEPT ![k][c] = s], UNCHANGED sem,
               s \in ActiveStages <=> stage[k][c] \in ActiveStages
        PROVE  SlotsMatch'
    BY <2>1
  <2>2. CASE Deliver(k, c)
    <3>1. stage[k][c] \notin ActiveStages
      BY <2>2, ConsumerAssumption DEF Deliver, HeldWhileLinked, Places
    <3> QED
      BY <2>1, <2>2, <3>1 DEF Deliver
  <2>3. CASE Receive(k, c)
    BY <2>1, <2>3 DEF Receive
  <2>4. CASE Dispatch(k, c)
    <3>1. sem' = [sem EXCEPT ![k] = @ \cup {c}] /\ stage' = [stage EXCEPT ![k][c] = "handling"]
      BY <2>4 DEF Dispatch
    <3> QED
      BY <2>4, <3>1 DEF Dispatch
  <2>5. CASE HandlerReturns(k, c)
    BY <2>1, <2>5 DEF HandlerReturns, HandlerSucceeds, HandlerFails
  <2>6. CASE Republish(k, c)
    BY <2>1, <2>6 DEF Republish, RepublishRefused, RepublishLost, RepublishAccepted, AfterRepublish
  <2>7. CASE AwaitConfirm(k, c)
    BY <2>1, <2>7 DEF AwaitConfirm, ConfirmAcked, MayConfirm, ConfirmFails
  <2>8. CASE Acknowledge(k, c)
    <3>1. sem' = [sem EXCEPT ![k] = @ \ {c}] /\ stage' = [stage EXCEPT ![k][c] = "idle"]
      BY <2>8 DEF Acknowledge, Ack, Reject, Requeue, HandlerEnds
    <3> QED
      BY <3>1
  <2> QED
    BY <1>6, <2>2, <2>3, <2>4, <2>5, <2>6, <2>7, <2>8 DEF DeliveryStep
<1>7. CASE UNCHANGED vars
  BY <1>1, <1>7 DEF vars
<1> QED
  BY <1>2, <1>3, <1>4, <1>5, <1>6, <1>7 DEF Next

\* The handlers that run grow by one, in Receive or Dispatch: by the first one, or by
\* one that took a free slot.  No other handler runs than those whose slots are taken.
LEMMA SlotsStep == Inv /\ [Next]_vars => HandlersFinite' /\ HandlersBounded'
<1> SUFFICES ASSUME Inv, [Next]_vars, NEW j \in Consumers
             PROVE  /\ IsFiniteSet(Active(j)')
                    /\ Cardinality(Active(j)') <= (IF Sequential THEN 1 ELSE Workers)
  BY DEF HandlersFinite, HandlersBounded, Sequential
<1>1. IsFiniteSet(Active(j)) /\ Cardinality(Active(j)) <= (IF Sequential THEN 1 ELSE Workers)
  BY DEF Inv, HandlersFinite, HandlersBounded
<1>2. CASE Active(j)' \subseteq Active(j)
  <2>1. /\ IsFiniteSet(Active(j)') /\ Cardinality(Active(j)') <= Cardinality(Active(j))
        /\ Cardinality(Active(j)') \in Nat /\ Cardinality(Active(j)) \in Nat
    BY <1>1, <1>2, FS_Subset, FS_CardinalityType
  <2> QED
    BY <1>1, <2>1, ConsumerAssumption DEF Sequential
<1>3. ASSUME NEW c \in Copies,
             (Receive(j, c) /\ Sequential) \/ Dispatch(j, c)
      PROVE  /\ IsFiniteSet(Active(j)')
             /\ Cardinality(Active(j)') <= (IF Sequential THEN 1 ELSE Workers)
  <2>1. Active(j)' = Active(j) \cup {c}
    BY <1>3 DEF Inv, TypeOK, Receive, Dispatch, SetStage, Active, ActiveStages
  <2>2. /\ IsFiniteSet(Active(j)') /\ Cardinality(Active(j)') <= Cardinality(Active(j)) + 1
        /\ Cardinality(Active(j)') \in Nat /\ Cardinality(Active(j)) \in Nat
    <3> DEFINE S == Active(j)
    <3>1. IsFiniteSet(S) /\ Cardinality(S) \in Nat
      BY <1>1, FS_CardinalityType
    <3> HIDE DEF S
    <3>2. /\ IsFiniteSet(S \cup {c})
          /\ Cardinality(S \cup {c}) = IF c \in S THEN Cardinality(S) ELSE Cardinality(S) + 1
      BY <3>1, FS_AddElement
    <3>3. /\ Cardinality(S \cup {c}) <= Cardinality(S) + 1
          /\ Cardinality(S \cup {c}) \in Nat
      BY <3>1, <3>2
    <3> QED
      BY <2>1, <3>1, <3>2, <3>3 DEF S
  <2>3. CASE Receive(j, c) /\ Sequential
    BY <2>2, <2>3, FS_EmptySet DEF Receive, LoopInSelect
  <2>4. CASE Dispatch(j, c)
    <3>1. sem[j] = Active(j) /\ Cardinality(sem[j]) < Workers /\ ~Sequential
      BY <2>4 DEF Inv, SlotsMatch, Dispatch
    <3> QED
      BY <2>2, <3>1, ConsumerAssumption
  <2> QED
    BY <1>3, <2>3, <2>4
<1>4. ASSUME NEW k \in Consumers, NEW c \in Copies, DeliveryStep(k, c)
      PROVE  \/ Active(j)' \subseteq Active(j)
             \/ j = k /\ ((Receive(k, c) /\ Sequential) \/ Dispatch(k, c))
  <2> USE DEF Inv, TypeOK, SetStage, HandlerEnds, Active, ActiveStages
  <2>1. CASE Deliver(k, c)         BY <2>1 DEF Deliver
  <2>2. CASE Receive(k, c)         BY <2>2 DEF Receive
  <2>3. CASE Dispatch(k, c)        BY <2>3 DEF Dispatch
  <2>4. CASE HandlerReturns(k, c)  BY <2>4 DEF HandlerReturns, HandlerSucceeds, HandlerFails
  <2>5. CASE Republish(k, c)
    BY <2>5 DEF Republish, RepublishRefused, RepublishLost, RepublishAccepted
  <2>6. CASE AwaitConfirm(k, c)
    BY <2>6 DEF AwaitConfirm, ConfirmAcked, MayConfirm, ConfirmFails
  <2>7. CASE Acknowledge(k, c)     BY <2>7 DEF Acknowledge, Ack, Reject, Requeue
  <2> QED
    BY <1>4, <2>1, <2>2, <2>3, <2>4, <2>5, <2>6, <2>7 DEF DeliveryStep
<1>5. ASSUME UNCHANGED stage PROVE Active(j)' \subseteq Active(j)
  BY <1>5 DEF Active
<1>6. ASSUME NEW k \in Consumers, CloseSession(k) PROVE Active(j)' \subseteq Active(j)
  BY <1>6 DEF Inv, TypeOK, CloseSession, Active, ActiveStages
<1>7. ASSUME NEW k \in Consumers, LoopStep(k) \/ NetworkStep(k) \/ ShutdownStep(k)
      PROVE  Active(j)' \subseteq Active(j)
  BY <1>5, <1>6, <1>7, LoopFrame, NetworkFrame, ShutdownFrame
<1>8. ASSUME NEW m \in Messages, NEW c \in Copies, NEW h \in PublishedHeaders, Publish(m, c, h)
      PROVE  Active(j)' \subseteq Active(j)
  BY <1>5, <1>8 DEF Publish
<1>9. ASSUME NEW c \in Copies, RequeueStale(c) PROVE Active(j)' \subseteq Active(j)
  BY <1>5, <1>9 DEF RequeueStale
<1>10. CASE UNCHANGED vars
  BY <1>2, <1>5, <1>10 DEF vars
<1> QED
  BY <1>2, <1>3, <1>4, <1>7, <1>8, <1>9, <1>10 DEF Next

\* A message that is handled or dropped has a copy, and so was published.
LEMMA SettledStep == Inv /\ [Next]_vars => SettledWasPublished'
<1> SUFFICES ASSUME Inv, [Next]_vars PROVE SettledWasPublished'
  OBVIOUS
<1> USE DEF Inv, SettledWasPublished, FreshCopies
<1>1. ASSUME NEW m \in Messages, NEW c \in Copies, NEW h \in PublishedHeaders, Publish(m, c, h)
      PROVE  SettledWasPublished'
  BY <1>1 DEF Publish
<1>2. ASSUME NEW c \in Copies, RequeueStale(c) PROVE SettledWasPublished'
  BY <1>2 DEF RequeueStale
<1>3. ASSUME NEW k \in Consumers, LoopStep(k) \/ NetworkStep(k) \/ ShutdownStep(k)
      PROVE  SettledWasPublished'
  BY <1>3, LoopFrame, NetworkFrame, ShutdownFrame
<1>4. ASSUME NEW k \in Consumers, NEW c \in Copies, DeliveryStep(k, c) PROVE SettledWasPublished'
  <2>1. published' = published
    BY <1>4, DeliveryFrame
  <2>2. stage[k][c] # "idle" => msg[c] \in published
    OBVIOUS
  <2>3. CASE HandlerSucceeds(k, c) \/ Reject(k, c)
    BY <2>1, <2>2, <2>3 DEF HandlerSucceeds, Reject
  <2>4. CASE UNCHANGED <<done, dropped>>
    BY <2>1, <2>4
  <2> QED
    BY <1>4, <2>3, <2>4
       DEF DeliveryStep, Deliver, Receive, Dispatch, HandlerReturns, HandlerFails, Republish,
           RepublishRefused, RepublishLost, RepublishAccepted, AwaitConfirm, ConfirmAcked,
           ConfirmFails, Acknowledge, Ack, Requeue
<1>5. CASE UNCHANGED vars
  BY <1>5 DEF vars
<1> QED
  BY <1>1, <1>2, <1>3, <1>4, <1>5 DEF Next

\* A copy is taken away from a consumer only together with its link, or by its own
\* acknowledgement, and a new session starts with no delivery in hand.
LEMMA HeldStep == Inv /\ [Next]_vars => HeldWhileLinked'
<1> SUFFICES ASSUME Inv, [Next]_vars PROVE HeldWhileLinked'
  OBVIOUS
<1> USE ConsumerAssumption DEF Inv, TypeOK, HeldWhileLinked, FreshCopies, Places
<1>1. ASSUME NEW m \in Messages, NEW c \in Copies, NEW h \in PublishedHeaders, Publish(m, c, h)
      PROVE  HeldWhileLinked'
  BY <1>1 DEF Publish, Enqueue
<1>2. ASSUME NEW c \in Copies, RequeueStale(c) PROVE HeldWhileLinked'
  BY <1>2 DEF RequeueStale
<1>3. ASSUME NEW k \in Consumers, LoopStep(k) PROVE HeldWhileLinked'
  <2>1. CASE OpenSession(k)
    <3>1. UNCHANGED <<loc, stage>> /\ link' = [link EXCEPT ![k] = "open"] /\ phase[k] = "opening"
      BY <2>1 DEF OpenSession
    <3>2. \A c \in Copies : stage[k][c] = "idle"
      BY <3>1 DEF SessionsOpen, InSession
    <3> QED
      BY <3>1, <3>2
  <2>2. CASE CloseSession(k)
    <3>1. ASSUME NEW j \in Consumers, NEW c \in Copies, link'[j] = "open", stage'[j][c] # "idle"
          PROVE  loc'[c] = j
      <4>1. j # k /\ link[j] = "open" /\ stage[j][c] # "idle"
        BY <2>2, <3>1 DEF CloseSession
      <4> QED
        BY <2>2, <4>1 DEF CloseSession, Release
    <3> QED
      BY <3>1
  <2>3. CASE UNCHANGED <<loc, stage, link>>
    BY <2>3
  <2> QED
    BY <1>3, <2>1, <2>2, <2>3
       DEF LoopStep, Consume, CheckContext, OpenFails, Wake, StopOnCancel, SessionEnds
<1>4. ASSUME NEW k \in Consumers, NetworkStep(k) PROVE HeldWhileLinked'
  BY <1>4 DEF NetworkStep, BrokerDropsLink, ClientLosesChannel, LoseConnection, Reconnect, Release
<1>5. ASSUME NEW k \in Consumers, ShutdownStep(k) PROVE HeldWhileLinked'
  BY <1>5, ShutdownFrame
<1>6. ASSUME NEW k \in Consumers, NEW c \in Copies, DeliveryStep(k, c) PROVE HeldWhileLinked'
  <2>0. link' = link
    BY <1>6, DeliveryFrame
  <2> USE DEF SetStage, HandlerEnds
  <2>1. CASE Deliver(k, c)  BY <2>1 DEF Deliver
  <2>2. CASE UNCHANGED loc /\ \E s : stage[k][c] # "idle" /\ stage' = [stage EXCEPT ![k][c] = s]
    BY <2>0, <2>2
  <2>3. ASSUME NEW n \in Copies, RepublishAccepted(k, c, n) PROVE HeldWhileLinked'
    BY <2>0, <2>3 DEF RepublishAccepted, Enqueue
  <2>4. CASE Acknowledge(k, c)
    <3>1. /\ stage' = [stage EXCEPT ![k][c] = "idle"]
          /\ \A d \in Copies : d # c => loc'[d] = loc[d]
          /\ loc[c] # k => loc'[c] = loc[c]
      BY <2>4 DEF Acknowledge, Ack, Reject, Requeue, Settle, Effective
    <3> QED
      BY <2>0, <3>1
  <2>5. CASE Receive(k, c)        BY <2>0, <2>2, <2>5 DEF Receive
  <2>6. CASE Dispatch(k, c)       BY <2>0, <2>2, <2>6 DEF Dispatch
  <2>7. CASE HandlerReturns(k, c)
    BY <2>0, <2>2, <2>7 DEF HandlerReturns, HandlerSucceeds, HandlerFails
  <2>8. CASE RepublishRefused(k, c) \/ RepublishLost(k, c)
    BY <2>0, <2>2, <2>8 DEF RepublishRefused, RepublishLost
  <2>9. CASE AwaitConfirm(k, c)
    BY <2>0, <2>2, <2>9 DEF AwaitConfirm, ConfirmAcked, MayConfirm, ConfirmFails
  <2> QED
    BY <1>6, <2>1, <2>3, <2>4, <2>5, <2>6, <2>7, <2>8, <2>9 DEF DeliveryStep, Republish
<1>7. CASE UNCHANGED vars
  BY <1>7 DEF vars
<1> QED
  BY <1>1, <1>2, <1>3, <1>4, <1>5, <1>6, <1>7 DEF Next

----------------------------------------------------------------------------
(* The theorems.                                                           *)

\* Nothing is published, open or closing in the initial states.
LEMMA InitInv == Init => Inv
<1> SUFFICES ASSUME Init PROVE Inv
  OBVIOUS
<1> USE ConsumerAssumption DEF Init
<1>1. TypeOK
  <2>1. NextRetryHeaders(0) \in RetryHeader
    BY HeaderRoundTrip
  <2> QED
    BY <2>1 DEF TypeOK, Places, Phases, Stages, Connections
<1>2. FreshCopies /\ SessionsOpen /\ CloseOrder
  BY DEF FreshCopies, SessionsOpen, CloseOrder
<1>3. Borne /\ RetryBudget /\ DropsJustified
  BY DEF Borne, RetryBudget, DropsJustified
<1>4. RetriesLeft /\ RetryCountBounded
  BY DEF RetriesLeft, RetryCountBounded
<1>5. HandlersFinite /\ HandlersBounded
  <2>1. \A k \in Consumers : Active(k) = {}
    BY DEF Active, ActiveStages
  <2> QED
    <3>1. IsFiniteSet({}) /\ Cardinality({}) = 0
      BY FS_EmptySet
    <3>2. HandlersFinite
      BY <2>1, <3>1 DEF HandlersFinite
    <3> HIDE DEF Init
    <3>3. HandlersBounded
      BY <2>1, <3>1 DEF HandlersBounded, Sequential
    <3> QED
      BY <3>2, <3>3
<1>6. SlotsMatch
  BY DEF SlotsMatch, Active, ActiveStages, Sequential
<1>7. SettledWasPublished /\ HeldWhileLinked
  BY DEF SettledWasPublished, HeldWhileLinked
<1> QED
  BY <1>1, <1>2, <1>3, <1>4, <1>5, <1>6, <1>7 DEF Inv

\* Inv, the invariant behind the other theorems, holds in every state: whatever
\* the interleaving of loops, handlers, broker, faults and shutdown.
THEOREM Invariance == Spec => []Inv
<1>1. Inv /\ [Next]_vars => Inv'
  BY TypeStep, FreshStep, SessionsStep, CloseStep, BorneStep, BudgetStep, DropsStep,
     CountStep, MatchStep, SlotsStep, SettledStep, HeldStep DEF Inv
<1> QED
  BY InitInv, <1>1, PTL DEF Spec

\* Every variable has its type in every state, whatever the interleaving.
THEOREM TypeCorrect == Spec => []TypeOK
BY Invariance, PTL DEF Inv

\* handleHandlerError never loses a message that routes back to its queue: any
\* number of consumers, workers and faults, and any MaxRetries.
THEOREM MessagesSurvive == Spec => []NoMessageLost
<1>1. Inv => NoMessageLost
  <2> SUFFICES ASSUME Inv, NEW m \in published \ Unroutable, m \notin done \cup dropped
               PROVE  DeadLettered(m) \/ \E c \in CopiesOf(m) : Live(c)
    BY DEF NoMessageLost, Settled
  <2>1. PICK c \in Copies : msg[c] = m /\ Bearing(c)
    BY DEF Inv, Borne
  <2>2. c \in CopiesOf(m) /\ (loc[c] = "dead" \/ Live(c))
    BY <2>1, ConsumerAssumption DEF CopiesOf, Bearing, Live, Places
  <2> QED
    BY <2>2 DEF DeadLettered
<1> QED
  BY Invariance, <1>1, PTL

\* A message is dead-lettered or dropped only after a NonRetryableError or
\* 1 + MaxRetries failed calls of its handler (handleHandlerError).
THEOREM RetriesBeforeGivingUp == Spec => []GiveUpOnlyAfterRetries
<1>1. Inv => GiveUpOnlyAfterRetries
  BY DEF Inv, RetryBudget, DropsJustified, GiveUpOnlyAfterRetries
<1> QED
  BY Invariance, <1>1, PTL

\* NextRetryHeaders never writes a count above Config.MaxRetries.
THEOREM CountsBounded == Spec => []RetryCountBounded
BY Invariance, PTL DEF Inv

\* Never more than `workers' handlers run, over all the sessions of a consumer, and one
\* at a time in Consume: each session's sem bounds its own handlers, and inflight.Wait
\* leaves none to the next session.
THEOREM SlotsBounded == Spec => []HandlersBounded
BY Invariance, PTL DEF Inv

\* No handler of consumeOnceConcurrent outlives its session.
THEOREM HandlersDrained == Spec => []DrainBeforeTeardown
<1>1. Inv => DrainBeforeTeardown
  BY DEF Inv, SessionsOpen, InSession, DrainBeforeTeardown, Active, ActiveStages
<1> QED
  BY Invariance, <1>1, PTL

\* After Close returned nothing runs and nothing is open, a Consume call that
\* races with Close included.
THEOREM CloseIsFinal == Spec => []QuiescentAfterClose
<1>1. Inv => QuiescentAfterClose
  BY DEF Inv, CloseOrder, SessionsOpen, InSession, QuiescentAfterClose, Active, ActiveStages
<1> QED
  BY Invariance, <1>1, PTL
=============================================================================
