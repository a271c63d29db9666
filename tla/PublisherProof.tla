--------------------------- MODULE PublisherProof ---------------------------
(***************************************************************************)
(* Proofs about Publisher, for any number of callers making any calls, any *)
(* pool size, and any number of channels and faults.                       *)
(***************************************************************************)
EXTENDS Publisher, ChannelPoolProof

USE PoolAssumption, PublisherAssumption
    DEF channelVars, storeVars, clientVars, Processes, Channels, NoChannel, publishVars, waitVars

\* The part of the invariant that is about calls, and not about the pool.
CallInv ==
  /\ NothingBeforeSend
  /\ ListenerInHand
  /\ SentOnOpened
  /\ ReturnKept
  /\ ConfirmFirst
  /\ ConfirmedIsAcked
  /\ MandatoryConfirmedIsRouted

CallTypeOK ==
  /\ call \in [Callers -> Calls]
  /\ via \in [Callers -> Channels \cup {NoChannel}]
  /\ answer \in [Callers -> Answers]
  /\ routed \subseteq Callers
  /\ returns \in [Callers -> Callers \cup {"empty"}]
  /\ result \in [Callers -> {"none", "ok", "error", "returned"}]

\* The invariant, split between the pool and the calls.
LEMMA InvParts ==
  /\ Inv <=> PoolInv /\ CallTypeOK /\ CallInv
  /\ Inv' <=> PoolInv' /\ CallTypeOK' /\ CallInv'
BY DEF Inv, TypeOK, PoolInv, CallTypeOK, CallInv

----------------------------------------------------------------------------
(* Steps that several actions share.                                       *)

\* The channels that messages were sent on stay handed over, and closed once they are.
LEMMA SentStays ==
  ASSUME Inv, PoolInv', NothingReopens, NEW c \in Callers
  PROVE  /\ via[c] # NoChannel => opener'[via[c]] = "ended"
         /\ via[c] \in open' => via[c] \in open
<1>1. via[c] \in Channels \cup {NoChannel} /\ NoChannel \notin open'
  BY DEF Inv, TypeOK, PoolInv, PoolTypeOK
<1>2. via[c] # NoChannel => opener[via[c]] = "ended"
  BY DEF Inv, SentOnOpened
<1> QED
  BY <1>1, <1>2 DEF NothingReopens

\* The pool changes around the calls.
LEMMA PoolStepInv ==
  ASSUME Inv, PoolStep
  PROVE  Inv'
<1>1. PoolInv'
  BY BackgroundInv DEF Inv, PoolStep
<1>2. CallTypeOK'
  BY InvParts DEF PoolStep, CallTypeOK
<1>3. NothingReopens /\ \A c \in Callers : pc'[c] = pc[c] /\ has'[c] = has[c]
  BY BackgroundFrame DEF Inv, PoolStep
<1>4. UNCHANGED publishVars
  BY DEF PoolStep
<1>5. CallInv'
  <2> USE <1>3, <1>4 DEF Inv, TypeOK
  <2>1. NothingBeforeSend' /\ ReturnKept' /\ ConfirmFirst'
    BY DEF NothingBeforeSend, ReturnKept, ConfirmFirst, Mandatory, WaitForConfirm
  <2>2. ListenerInHand' /\ SentOnOpened'
    BY <1>1, SentStays DEF ListenerInHand, SentOnOpened, Mandatory
  <2>3. ConfirmedIsAcked' /\ MandatoryConfirmedIsRouted'
    BY DEF ConfirmedIsAcked, MandatoryConfirmedIsRouted, WaitForConfirm
  <2> QED
    BY <2>1, <2>2, <2>3 DEF CallInv
<1> QED
  BY <1>1, <1>2, <1>5, InvParts

\* A call that has its result goes on to release its channel.
LEMMA FinishStep ==
  ASSUME Inv, NEW c \in Callers,
         pc[c] \in {"holding", "awaitConfirm", "awaitReturn"},
         NEW r \in {"ok", "error", "returned"},
         Finish(c, r),
         r = "ok" => /\ WaitForConfirm(c) => answer[c] = "acked"
                     /\ call[c] = "both" => c \in routed,
         r # "error" => pc[c] # "holding",
         UNCHANGED waitVars
  PROVE  Inv'
<1>1. PoolInv'
  BY KeepStep DEF Finish, GoTo, ReleaseTo, HoldingPlaces, Inv, PoolInv, PoolTypeOK
<1>2. CallTypeOK'
  BY InvParts DEF CallTypeOK, Finish
<1> USE DEF Inv, TypeOK, PoolTypeOK
<1>3. NothingBeforeSend' /\ ListenerInHand'
  BY DEF PoolInv, HandsFull, HoldingPlaces, NothingBeforeSend, ListenerInHand, Mandatory, Finish, GoTo, ReleaseTo
<1>4. SentOnOpened' /\ ReturnKept'
  BY DEF SentOnOpened, ReturnKept, Mandatory
<1>5. ConfirmFirst' /\ ConfirmedIsAcked' /\ MandatoryConfirmedIsRouted'
  BY DEF ConfirmFirst, ConfirmedIsAcked, MandatoryConfirmedIsRouted, WaitForConfirm, Finish, GoTo, ReleaseTo
<1> QED
  BY <1>1, <1>2, <1>3, <1>4, <1>5, InvParts DEF CallInv

\* The broker answers, and nobody moves.
LEMMA AnswerStep ==
  ASSUME Inv, NEW c \in Callers, NEW from, NEW to \in Answers, Answered(c, from, to),
         faults' \in 0 .. MaxFaults
  PROVE  PoolInv'
BY DEF Inv, PoolInv, Answered, PoolTypeOK, HandsFull, OneHolder, OpenersMatch, NoneWithoutConnection,
       NoChannelLeaked, MetaNotLeaked, Held, MetaMatches

----------------------------------------------------------------------------
(* PublishMessage.                                                         *)

\* A call begins by asking for a channel.
LEMMA CallStepInv ==
  ASSUME Inv, NEW c \in Callers, NEW k \in CallKinds[c], Call(c, k)
  PROVE  Inv'
<1>1. PoolInv'
  BY BorrowInv DEF Inv, Call
<1>2. CallTypeOK'
  BY InvParts DEF Call, CallTypeOK, Calls
<1> USE DEF Inv, TypeOK, PoolTypeOK
<1>3. CallInv'
  BY DEF Call, AskForChannel, GoTo, CallInv, NothingBeforeSend, ListenerInHand, SentOnOpened, ReturnKept,
     ConfirmFirst, ConfirmedIsAcked, MandatoryConfirmedIsRouted, Mandatory, WaitForConfirm
<1> QED
  BY <1>1, <1>2, <1>3, InvParts

\* GetChannel hands out a channel as it is.
LEMMA GetChannelInv ==
  ASSUME Inv, NEW c \in Callers, CallGetChannel(c)
  PROVE  Inv'
<1>1. PoolInv'
  BY BorrowInv DEF Inv, CallGetChannel
<1>2. CallTypeOK'
  BY InvParts DEF CallGetChannel, CallTypeOK
<1> USE DEF Inv, TypeOK, PoolTypeOK
<1>3. CallInv'
  BY DEF CallGetChannel, GetChannel, GoTo, CallInv, NothingBeforeSend, ListenerInHand, SentOnOpened, ReturnKept,
     ConfirmFirst, ConfirmedIsAcked, MandatoryConfirmedIsRouted, Mandatory, WaitForConfirm
<1> QED
  BY <1>1, <1>2, <1>3, InvParts

\* The declarations are over.
LEMMA DeclareInv ==
  ASSUME Inv, NEW c \in Callers, DeclareEnds(c)
  PROVE  Inv'
<1>1. PoolInv'
  BY KeepStep DEF DeclareEnds, GoTo, HoldingPlaces, Inv, PoolInv, PoolTypeOK, MetaMatches
<1>2. CallTypeOK'
  BY InvParts DEF DeclareEnds, CallTypeOK
<1> USE DEF Inv, TypeOK, PoolTypeOK
<1>3. CallInv'
  BY DEF DeclareEnds, GoTo, CallInv, NothingBeforeSend, ListenerInHand, SentOnOpened, ReturnKept,
     ConfirmFirst, ConfirmedIsAcked, MandatoryConfirmedIsRouted, Mandatory, WaitForConfirm
<1> QED
  BY <1>1, <1>2, <1>3, InvParts

\* A message is sent, or the channel is found closed.
LEMMA SendInv ==
  ASSUME Inv, NEW c \in Callers, Send(c)
  PROVE  Inv'
<1>1. CASE has[c] \notin open
  BY <1>1, FinishStep DEF Send
<1>2. CASE has[c] \in open
  <2>1. PICK place \in {"awaitConfirm", "awaitReturn", "closing", "checking"} : pc' = [pc EXCEPT ![c] = place]
    BY <1>2 DEF Send, AfterPublish, Finish, ReleaseTo, GoTo
  <2>2. PoolInv'
    BY <2>1, KeepStep DEF Send, HoldingPlaces, Inv, PoolInv, PoolTypeOK
  <2>3. CallTypeOK'
    BY <1>2, InvParts DEF Send, AfterPublish, Finish, CallTypeOK, Answers, Inv, TypeOK, PoolTypeOK
  <2>4. opener[has[c]] = "ended" /\ has[c] # NoChannel
    BY DEF Send, Inv, PoolInv, PoolTypeOK, HandsFull, HoldingPlaces, OpenersMatch
  <2> USE DEF Inv, TypeOK, PoolTypeOK
  <2>5. NothingBeforeSend' /\ SentOnOpened'
    <3>1. via' = [via EXCEPT ![c] = has[c]] /\ answer' = [answer EXCEPT ![c] = "sent"]
      BY <1>2 DEF Send
    <3>2. \A d \in Callers \ {c} : result'[d] = result[d]
      BY <1>2 DEF Send, AfterPublish, Finish
    <3>3. UNCHANGED <<opener, routed, returns>>
      BY DEF Send
    <3> QED
      BY <2>1, <2>4, <3>1, <3>2, <3>3 DEF NothingBeforeSend, SentOnOpened
  <2>6. ListenerInHand'
    BY <1>2, <2>4 DEF Send, ListenerInHand, AfterPublish, Finish, ReleaseTo, GoTo, Mandatory, WaitForConfirm
  <2>7. ReturnKept'
    BY <1>2 DEF Send, ReturnKept, NothingBeforeSend, Mandatory
  <2>8. ConfirmFirst' /\ ConfirmedIsAcked' /\ MandatoryConfirmedIsRouted'
    <3>1. CASE WaitForConfirm(c) \/ Mandatory(c)
      <4>1. UNCHANGED result /\ result[c] = "none"
        BY <1>2, <3>1 DEF Send, AfterPublish, NothingBeforeSend
      <4>2. WaitForConfirm(c) => pc'[c] = "awaitConfirm"
        BY <1>2 DEF Send, AfterPublish, GoTo
      <4> QED
        BY <1>2, <2>1, <4>1, <4>2 DEF Send, ConfirmFirst, ConfirmedIsAcked, MandatoryConfirmedIsRouted, WaitForConfirm
    <3>2. CASE ~(WaitForConfirm(c) \/ Mandatory(c))
      <4>1. result' = [result EXCEPT ![c] = "ok"]
        BY <1>2, <3>2 DEF Send, AfterPublish, Finish
      <4> QED
        BY <1>2, <2>1, <3>2, <4>1 DEF Send, ConfirmFirst, ConfirmedIsAcked, MandatoryConfirmedIsRouted, Mandatory,
           WaitForConfirm
    <3> QED
      BY <3>1, <3>2
  <2> QED
    BY <2>2, <2>3, <2>5, <2>6, <2>7, <2>8, InvParts DEF CallInv
<1> QED
  BY <1>1, <1>2

\* The waits for a confirmation and for a return.
LEMMA WaitInv ==
  ASSUME Inv, NEW c \in Callers,
         \/ ConfirmArrives(c) \/ ConfirmFails(c)
         \/ ReturnArrives(c) \/ ReturnWaitPasses(c) \/ CallerGivesUp(c)
  PROVE  Inv'
<1>1. CASE ConfirmArrives(c)
  <2>1. CASE Mandatory(c)
    <3>1. pc' = [pc EXCEPT ![c] = "awaitReturn"] /\ UNCHANGED <<waitVars, result>>
      BY <1>1, <2>1 DEF ConfirmArrives, AfterPublish, GoTo
    <3>2. PoolInv'
      BY <1>1, <3>1, KeepStep DEF ConfirmArrives, HoldingPlaces, Inv, PoolInv, PoolTypeOK
    <3>3. CallTypeOK'
      BY <3>1, InvParts DEF CallTypeOK
    <3>4. CallInv'
      BY <1>1, <3>1 DEF ConfirmArrives, Acked, Inv, TypeOK, PoolTypeOK, CallInv, NothingBeforeSend, ListenerInHand,
         SentOnOpened, ReturnKept, ConfirmFirst, ConfirmedIsAcked, MandatoryConfirmedIsRouted, Mandatory, WaitForConfirm
    <3> QED
      BY <3>2, <3>3, <3>4, InvParts
  <2>2. CASE ~Mandatory(c)
    BY <1>1, <2>2, FinishStep DEF ConfirmArrives, Acked, AfterPublish, Mandatory
  <2> QED
    BY <2>1, <2>2
<1>2. CASE ConfirmFails(c)
  BY <1>2, FinishStep DEF ConfirmFails
<1>3. CASE ReturnArrives(c)
  BY <1>3, FinishStep DEF ReturnArrives
<1>4. CASE ReturnWaitPasses(c)
  <2>1. call[c] = "both" => c \in routed
    BY <1>4 DEF ReturnWaitPasses, Inv, ConfirmFirst, ReturnKept, Mandatory, WaitForConfirm
  <2> QED
    BY <1>4, <2>1, FinishStep DEF ReturnWaitPasses, Inv, ConfirmFirst
<1>5. CASE CallerGivesUp(c)
  BY <1>5, FinishStep DEF CallerGivesUp
<1> QED
  BY <1>1, <1>2, <1>3, <1>4, <1>5

\* The steps of a call in pool.go, before and after.
LEMMA UsePoolInv ==
  ASSUME Inv, NEW c \in Callers, UsePool(c)
  PROVE  Inv'
<1>1. PoolInv'
  BY CallerInv DEF Inv, UsePool
<1>2. CallTypeOK'
  BY InvParts DEF UsePool, Forget, CallTypeOK, Calls, Answers
<1>3. NothingReopens /\ OthersStay(c) /\ CallerMoves(c)
  BY CallerFrame DEF Inv, UsePool
<1> USE DEF Inv, TypeOK, PoolTypeOK
<1>4. CASE pc'[c] \in {"done", "failed"} /\ via[c] \notin open'
  <2>1. Forget(c)
    BY <1>4 DEF UsePool
  <2>2. NothingBeforeSend' /\ ReturnKept' /\ ConfirmFirst'
    BY <1>3, <1>4, <2>1 DEF Forget, OthersStay, NothingBeforeSend, ReturnKept, ConfirmFirst, Mandatory, WaitForConfirm
  <2>3. SentOnOpened' /\ ListenerInHand'
    BY <1>1, <1>3, <1>4, <2>1, SentStays DEF Forget, OthersStay, SentOnOpened, ListenerInHand, Mandatory
  <2>4. ConfirmedIsAcked' /\ MandatoryConfirmedIsRouted'
    BY <2>1 DEF Forget, ConfirmedIsAcked, MandatoryConfirmedIsRouted, WaitForConfirm
  <2> QED
    BY <1>1, <1>2, <2>2, <2>3, <2>4, InvParts DEF CallInv
<1>5. CASE ~(pc'[c] \in {"done", "failed"} /\ via[c] \notin open')
  <2>1. UNCHANGED publishVars
    BY <1>5 DEF UsePool
  <2>2. NothingBeforeSend' /\ SentOnOpened' /\ ReturnKept' /\ ConfirmFirst'
    BY <1>3, <2>1 DEF OthersStay, CallerMoves, NothingReopens, NothingBeforeSend, SentOnOpened, ReturnKept,
       ConfirmFirst, Mandatory, WaitForConfirm
  <2>3. ListenerInHand'
    BY <1>1, <1>3, <2>1, SentStays DEF OthersStay, CallerMoves, NothingBeforeSend, ListenerInHand, Mandatory
  <2>4. ConfirmedIsAcked' /\ MandatoryConfirmedIsRouted'
    BY <2>1 DEF ConfirmedIsAcked, MandatoryConfirmedIsRouted, WaitForConfirm
  <2> QED
    BY <1>1, <1>2, <2>2, <2>3, <2>4, InvParts DEF CallInv
<1> QED
  BY <1>4, <1>5

----------------------------------------------------------------------------
(* The broker.                                                             *)

\* An open channel has one listener.
LEMMA OneListener ==
  ASSUME Inv, NEW c \in Callers, NEW d \in Callers,
         Mandatory(c), Mandatory(d), via[c] \in open, via[d] = via[c]
  PROVE  d = c
<1>1. has[c] = via[c] /\ has[d] = via[c] /\ has[c] # NoChannel
  BY DEF Inv, ListenerInHand, TypeOK, PoolTypeOK
<1> QED
  BY <1>1 DEF Inv, PoolInv, OneHolder

\* The broker answers, and the client library hands the answer over.
LEMMA BrokerInv ==
  ASSUME Inv, NEW c \in Callers, BrokerStep(c)
  PROVE  Inv'
<1> USE DEF Inv, TypeOK
<1>0. via[c] \in open => via[c] # NoChannel
  BY DEF PoolTypeOK
<1>1. CASE BrokerAcks(c)
  <2>1. PoolInv'
    BY <1>1, AnswerStep DEF BrokerAcks, Answers, PoolTypeOK
  <2>2. CallTypeOK'
    BY <1>1 DEF BrokerAcks, Answered, CallTypeOK, Answers
  <2>3. CallInv'
    BY <1>0, <1>1 DEF BrokerAcks, Answered, CallInv, NothingBeforeSend, ListenerInHand, SentOnOpened, ReturnKept,
       ConfirmFirst, ConfirmedIsAcked, MandatoryConfirmedIsRouted, Mandatory, WaitForConfirm
  <2> QED
    BY <2>1, <2>2, <2>3, InvParts
<1>2. CASE BrokerNacks(c)
  <2>1. PoolInv'
    BY <1>2, AnswerStep DEF BrokerNacks, Fault, Answers, PoolTypeOK
  <2>2. CallTypeOK'
    BY <1>2 DEF BrokerNacks, Answered, CallTypeOK, Answers
  <2>3. CallInv'
    BY <1>0, <1>2 DEF BrokerNacks, Answered, CallInv, NothingBeforeSend, ListenerInHand, SentOnOpened, ReturnKept,
       ConfirmFirst, ConfirmedIsAcked, MandatoryConfirmedIsRouted, Mandatory, WaitForConfirm
  <2> QED
    BY <2>1, <2>2, <2>3, InvParts
<1>3. CASE BrokerReturns(c)
  <2>1. PoolInv'
    BY <1>3, AnswerStep DEF BrokerReturns, Answers, PoolTypeOK
  <2>2. returns' = [returns EXCEPT ![c] = c]
    BY <1>3, OneListener DEF BrokerReturns, Answered, Listeners
  <2>3. CallTypeOK'
    BY <1>3, <2>2 DEF BrokerReturns, Answered, CallTypeOK, Answers
  <2>4. CallInv'
    BY <1>0, <1>3, <2>2 DEF BrokerReturns, Answered, CallInv, NothingBeforeSend, ListenerInHand, SentOnOpened,
       ReturnKept, ConfirmFirst, ConfirmedIsAcked, MandatoryConfirmedIsRouted, Mandatory, WaitForConfirm
  <2> QED
    BY <2>1, <2>3, <2>4, InvParts
<1> QED
  BY <1>1, <1>2, <1>3 DEF BrokerStep

----------------------------------------------------------------------------
(* The theorems.                                                           *)

\* The invariant holds before anything is called.
LEMMA InvInit == Init => Inv
<1> SUFFICES ASSUME Init PROVE Inv
  OBVIOUS
<1> USE DEF Init, PoolInit
<1>1. PoolTypeOK
  <2>1. PoolSize \in 0 .. PoolSize /\ 0 \in 0 .. MaxFaults
    BY PoolSizeType
  <2> QED
    BY <2>1, PoolEmpty DEF PoolTypeOK, CallerPlaces, WatcherPlaces, OpenerStates
<1>2. PoolInv
  BY <1>1 DEF PoolInv, HandsFull, HoldingPlaces, OneHolder, OpenersMatch, NoneWithoutConnection, NoChannelLeaked,
     MetaNotLeaked, MetaMatches
<1>3. CallTypeOK
  BY DEF CallTypeOK, Calls, Answers
<1>4. CallInv
  BY <1>1 DEF PoolTypeOK, CallInv, NothingBeforeSend, ListenerInHand, SentOnOpened, ReturnKept, ConfirmFirst,
     ConfirmedIsAcked, MandatoryConfirmedIsRouted, Mandatory, WaitForConfirm
<1> QED
  BY <1>2, <1>3, <1>4, InvParts

\* Every step preserves the invariant.
LEMMA InvStep == Inv /\ [Next]_vars => Inv'
<1> SUFFICES ASSUME Inv, [Next]_vars PROVE Inv'
  OBVIOUS
<1>1. CASE UNCHANGED vars
  BY <1>1 DEF vars, poolVars, Inv, TypeOK, PoolInv, PoolTypeOK, HandsFull, OneHolder, OpenersMatch,
     NoneWithoutConnection, NoChannelLeaked, MetaNotLeaked, Held, MetaMatches, NothingBeforeSend, ListenerInHand,
     SentOnOpened, ReturnKept, ConfirmFirst, ConfirmedIsAcked, MandatoryConfirmedIsRouted, Mandatory, WaitForConfirm
<1>2. ASSUME NEW c \in Callers, PublishStep(c) PROVE Inv'
  BY <1>2, GetChannelInv, DeclareInv, SendInv, WaitInv, UsePoolInv DEF PublishStep
<1> QED
  BY <1>1, <1>2, PoolStepInv, CallStepInv, BrokerInv DEF Next

\* The invariant of the pool and of the calls holds in every state.
THEOREM Invariance == Spec => []Inv
BY InvInit, InvStep, PTL DEF Spec

\* Every variable keeps its type, and the pool its size.
THEOREM TypeCorrect == Spec => []TypeOK
<1>1. Inv => TypeOK
  BY DEF Inv
<1> QED
  BY <1>1, Invariance, PTL

\* No channel is in two hands, or in a hand and in the pool.
THEOREM ChannelsNotShared == Spec => []OneHolder
<1>1. Inv => OneHolder
  BY DEF Inv, PoolInv
<1> QED
  BY <1>1, Invariance, PTL

\* Every open channel is with someone who will use or close it, one that was opened
\* after its caller gave up included.
THEOREM ChannelsAccountedFor == Spec => []NoChannelLeaked
<1>1. Inv => NoChannelLeaked
  BY DEF Inv, PoolInv
<1> QED
  BY <1>1, Invariance, PTL

\* channelMeta does not grow with the channels the publisher goes through.
THEOREM MetaAccountedFor == Spec => []MetaNotLeaked
<1>1. Inv => MetaNotLeaked
  BY DEF Inv, PoolInv
<1> QED
  BY <1>1, Invariance, PTL

\* A publish with WaitForConfirm succeeds only if its own message was acknowledged.
THEOREM ConfirmsAreOwn == Spec => []ConfirmedIsAcked
<1>1. Inv => ConfirmedIsAcked
  BY DEF Inv
<1> QED
  BY <1>1, Invariance, PTL

\* With Mandatory as well, it succeeds only if the message reached a queue.
THEOREM ConfirmedReachedAQueue == Spec => []MandatoryConfirmedIsRouted
<1>1. Inv => MandatoryConfirmedIsRouted
  BY DEF Inv
<1> QED
  BY <1>1, Invariance, PTL

\* No mandatory publish reports the return of another one's message.
THEOREM ReturnsAreOwn == Spec => []OwnReturn
<1>1. Inv => OwnReturn
  BY DEF Inv, ReturnKept, OwnReturn
<1> QED
  BY <1>1, Invariance, PTL

\* No caller gets a channel from the pool for use that is older than MaxChannelAge.
THEOREM OldOnesRetired == Spec => OldChannelsRetired
<1> DEFINE Good == \A c \in Callers : pc[c] = "borrow" /\ pc'[c] = "holding" => has'[c] \notin old
<1>1. ASSUME Inv, [Next]_vars PROVE [Good]_poolVars
  <2> USE <1>1 DEF Inv, TypeOK, PoolInv, PoolTypeOK
  <2>1. CASE UNCHANGED pc
    BY <2>1
  <2>2. ASSUME NEW c \in Callers, OthersStay(c), pc[c] # "borrow" PROVE Good
    BY <2>2 DEF OthersStay
  <2>3. ASSUME NEW c \in Callers, BorrowStep(c) PROVE Good
    <3>1. OthersStay(c)
      BY <2>3, CallerFrame DEF CallerStep
    <3>2. pc'[c] = "holding" => has'[c] \notin old
      BY <2>3 DEF BorrowStep, BorrowNew, BorrowPooled, TooOld, GoTo, Take, MetaMatches
    <3> QED
      BY <3>1, <3>2 DEF OthersStay
  <2>4. ASSUME NEW c \in Callers, CreateStep(c) \/ ReturnStep(c) PROVE pc[c] # "borrow"
    BY <2>4 DEF CreateStep, RequestChannel, NoChannelToRequest, ReceiveChannel, CreateTimesOut, ConfirmEnabled,
       ConfirmNotEnabled, CloseChannel, ReturnStep, ReturnChannel, CheckReturn, StoreReturn
  <2>5. ASSUME NEW c \in Callers, UsePool(c) PROVE Good
    BY <2>2, <2>3, <2>4, <2>5, CallerFrame DEF UsePool, CallerStep
  <2>6. CASE BackgroundStep
    BY <2>6, BackgroundFrame
  <2>7. ASSUME NEW c \in Callers, NEW k \in CallKinds[c], Call(c, k) PROVE Good
    BY <2>2, <2>7 DEF Call, AskForChannel, GoTo, OthersStay
  <2>8. ASSUME NEW c \in Callers, PublishStep(c), ~UsePool(c) PROVE Good
    <3>1. pc[c] # "borrow"
      BY <2>8 DEF PublishStep, CallGetChannel, GetChannel, DeclareEnds, Send, ConfirmArrives, ConfirmFails,
         ReturnArrives, ReturnWaitPasses, CallerGivesUp
    <3>2. OthersStay(c)
      BY <2>8 DEF PublishStep, CallGetChannel, GetChannel, DeclareEnds, Send, ConfirmArrives, ConfirmFails,
         ReturnArrives, ReturnWaitPasses, CallerGivesUp, AfterPublish, Finish, GoTo, OthersStay
    <3> QED
      BY <2>2, <3>1, <3>2
  <2>9. ASSUME NEW c \in Callers, BrokerStep(c) PROVE UNCHANGED pc
    BY <2>9 DEF BrokerStep, BrokerAcks, BrokerNacks, BrokerReturns, Answered
  <2> QED
    BY <2>1, <2>5, <2>6, <2>7, <2>8, <2>9 DEF Next, PoolStep, vars, poolVars
<1> QED
  BY <1>1, Invariance, PTL DEF Spec, OldChannelsRetired
=============================================================================
