------------------------------ MODULE Publisher -----------------------------
(***************************************************************************)
(* What callers do with the channels of ChannelPool: PublishMessage in its *)
(* four combinations of Mandatory and WaitForConfirm, and                  *)
(* DeclareQueueTopology (publisher.go).  Each caller makes one call.       *)
(*                                                                         *)
(* The broker and the client library's reader are external.  On a channel  *)
(* in confirm mode an unroutable mandatory message is returned first and   *)
(* acknowledged then, and the reader hands both over in that order; a      *)
(* return goes to every listener of the channel, by a blocking send.       *)
(***************************************************************************)
EXTENDS ChannelPool

CONSTANT
    CallKinds           \* the calls each caller may choose from

VARIABLES
    call,       \* what each caller asks for
    via,        \* the channel its message was sent on
    answer,     \* what the client has seen of the broker's answer
    routed,     \* mandatory calls whose message the broker found a queue for
    returns,    \* the listener of a mandatory publish: the call whose message it
                \* holds, or "empty"
    result      \* what the call returned

publishVars == <<call, via, answer, routed, returns, result>>
vars == <<poolVars, publishVars>>

\* All but what a wait for the broker changes when it ends.
waitVars == <<has, channelVars, storeVars, clientVars, faults, call, via, answer, routed, returns>>

\* "raw" is DeclareQueueTopology, the others are combinations of flags.
Calls == {"none", "raw", "plain", "confirm", "mandatory", "both"}

\* "sent": the message, or the answer, is on its way; "returned": the return came,
\* and the acknowledgement has yet to.
Answers == {"unsent", "sent", "returned", "acked", "nacked"}

ASSUME PublisherAssumption ==
    /\ CallKinds \in [Callers -> SUBSET (Calls \ {"none"})]
    /\ "empty" \notin Callers

Init ==
    /\ PoolInit
    /\ call = [c \in Callers |-> "none"]
    /\ via = [c \in Callers |-> NoChannel]
    /\ answer = [c \in Callers |-> "unsent"]
    /\ routed = {}
    /\ returns = [c \in Callers |-> "empty"]
    /\ result = [c \in Callers |-> "none"]

Mandatory(c) == call[c] \in {"mandatory", "both"}
WaitForConfirm(c) == call[c] \in {"confirm", "both"}

----------------------------------------------------------------------------
(* PublishMessage, publish, publishOnChannel.                              *)

Call(c, k) ==
    /\ AskForChannel(c)
    /\ call' = [call EXCEPT ![c] = IF ToldToStop THEN "none" ELSE k]
    /\ UNCHANGED <<via, answer, routed, returns, result>>

\* DeclareQueueTopology takes a channel ...
CallGetChannel(c) ==
    /\ call[c] = "raw"
    /\ GetChannel(c)
    /\ UNCHANGED publishVars

\* ... and returns it once the broker has answered its declarations, which have no
\* timer, or one of them has failed.  What they declare is the subject of module
\* Topology.
DeclareEnds(c) ==
    /\ pc[c] = "raw"
    /\ GoTo(c, "returning")
    /\ UNCHANGED <<has, channelVars, storeVars, clientVars, faults, publishVars>>

\* Every channel goes back to the pool.
ReleaseTo_Mutant(c) == "checking"

\* The deferred function of publish: a channel with a listener is not pooled.
ReleaseTo(c) == IF Mandatory(c) THEN "closing" ELSE "checking"

\* The call's result is fixed; what is left is the deferred function.
Finish(c, r) ==
    /\ result' = [result EXCEPT ![c] = r]
    /\ GoTo(c, ReleaseTo(c))

\* A positive confirmation is taken for the whole answer.
AfterPublish_Mutant(c, confirmed) ==
    IF WaitForConfirm(c) /\ ~confirmed THEN GoTo(c, "awaitConfirm") /\ UNCHANGED result
    ELSE IF Mandatory(c) /\ ~confirmed THEN GoTo(c, "awaitReturn") /\ UNCHANGED result
    ELSE Finish(c, "ok")

\* What follows the publish, and then the positive confirmation.
AfterPublish(c, confirmed) ==
    IF WaitForConfirm(c) /\ ~confirmed THEN GoTo(c, "awaitConfirm") /\ UNCHANGED result
    ELSE IF Mandatory(c) THEN GoTo(c, "awaitReturn") /\ UNCHANGED result
    ELSE Finish(c, "ok")

\* The message is sent, on a channel that may have died since it was borrowed.
Send(c) ==
    /\ pc[c] = "holding"
    /\ call[c] # "raw"
    /\ IF has[c] \in open
       THEN /\ via' = [via EXCEPT ![c] = has[c]]
            /\ answer' = [answer EXCEPT ![c] = "sent"]
            /\ AfterPublish(c, FALSE)
       ELSE Finish(c, "error") /\ UNCHANGED <<via, answer>>
    /\ UNCHANGED <<has, channelVars, storeVars, clientVars, faults, call, routed, returns>>

\* Any acknowledgement on the channel, as NotifyPublish would report it.
Acked_Mutant(c) == \E d \in Callers : via[d] = has[c] /\ answer[d] = "acked"

\* The DeferredConfirmation of this publish.
Acked(c) == answer[c] = "acked"

ConfirmArrives(c) ==
    /\ pc[c] = "awaitConfirm"
    /\ Acked(c)
    /\ AfterPublish(c, TRUE)
    /\ UNCHANGED waitVars

\* PublishConfirmTimeout passes, the context is done, or the confirmation is
\* negative, which is also what the library makes of one on a dead channel.
ConfirmFails(c) ==
    /\ pc[c] = "awaitConfirm"
    /\ Finish(c, "error")
    /\ UNCHANGED waitVars

\* <-returns: the library closes the listener with its channel, and a closed
\* listener yields a Return that is all zero.
ReturnArrives(c) ==
    /\ pc[c] = "awaitReturn"
    /\ returns[c] # "empty" \/ via[c] \notin open
    /\ Finish(c, "returned")
    /\ UNCHANGED waitVars

\* mandatoryReturnWait passes with no return: the timer starts when the select
\* does, so that a return that is there already comes first.
ReturnWaitPasses(c) ==
    /\ pc[c] = "awaitReturn"
    /\ returns[c] = "empty" /\ via[c] \in open
    /\ Finish(c, "ok")
    /\ UNCHANGED waitVars

\* <-ctx.Done().
CallerGivesUp(c) ==
    /\ pc[c] = "awaitReturn"
    /\ Finish(c, "error")
    /\ UNCHANGED waitVars

\* The call is over and its channel closed, the listener with it.  Nothing more can
\* come of it, and the model forgets it.
Forget(c) ==
    /\ call' = [call EXCEPT ![c] = "none"]
    /\ via' = [via EXCEPT ![c] = NoChannel]
    /\ answer' = [answer EXCEPT ![c] = "unsent"]
    /\ routed' = routed \ {c}
    /\ returns' = [returns EXCEPT ![c] = "empty"]
    /\ result' = [result EXCEPT ![c] = "none"]

\* The steps of pool.go that the call makes, before and after.
UsePool(c) ==
    /\ CallerStep(c)
    /\ IF pc'[c] \in {"done", "failed"} /\ via[c] \notin open'
       THEN Forget(c)
       ELSE UNCHANGED publishVars

----------------------------------------------------------------------------
(* The broker, and the reader of the client library (external).            *)

\* Nothing arrives on a channel that is dead.
Answered(c, from, to) ==
    /\ answer[c] = from
    /\ via[c] \in open
    /\ answer' = [answer EXCEPT ![c] = to]
    /\ UNCHANGED <<pc, has, channelVars, storeVars, clientVars, call, via, result>>

BrokerAcks(c) ==
    /\ \/ Answered(c, "sent", "acked") /\ routed' = IF Mandatory(c) THEN routed \cup {c} ELSE routed
       \/ Answered(c, "returned", "acked") /\ UNCHANGED routed
    /\ UNCHANGED <<returns, faults>>

BrokerNacks(c) ==
    /\ Answered(c, "sent", "nacked")
    /\ Fault
    /\ UNCHANGED <<routed, returns>>

Listeners(ch) == {d \in Callers : Mandatory(d) /\ via[d] = ch}

BrokerReturns(c) ==
    /\ Mandatory(c)
    /\ Answered(c, "sent", "returned")
    /\ \A d \in Listeners(via[c]) : returns[d] = "empty"
    /\ returns' = [d \in Callers |-> IF d \in Listeners(via[c]) THEN c ELSE returns[d]]
    /\ UNCHANGED <<routed, faults>>

----------------------------------------------------------------------------
PublishStep(c) ==
    \/ CallGetChannel(c) \/ DeclareEnds(c) \/ Send(c)
    \/ ConfirmArrives(c) \/ ConfirmFails(c)
    \/ ReturnArrives(c) \/ ReturnWaitPasses(c) \/ CallerGivesUp(c)
    \/ UsePool(c)

BrokerStep(c) == BrokerAcks(c) \/ BrokerNacks(c) \/ BrokerReturns(c)

PoolStep == BackgroundStep /\ UNCHANGED publishVars

Next ==
    \/ PoolStep
    \/ \E c \in Callers :
          \/ \E k \in CallKinds[c] : Call(c, k)
          \/ PublishStep(c)
          \/ BrokerStep(c)

Spec == Init /\ [][Next]_vars

\* A process waits on the broker without a timer: for the answer to the closing of a
\* channel or to a declaration, or for a socket that takes its message.  Connecting
\* includes such a wait, for the exchange declaration, and Close another, and both
\* hold connMu, which holds up whoever needs a channel created.
HeldUp(p) ==
    \/ has[p] \in open /\ \/ pc[p] \in {"retiring", "discarding", "closing", "raw"}
                          \/ pc[p] = "holding" /\ call[p] # "raw"
    \/ pc[p] = "connecting"
    \/ pc[p] = "create" /\ (pc[Watcher] = "connecting" \/ closing = "draining")

\* Goroutines that are not held up run, and timers fire.  Nothing is assumed of the
\* broker, except that a channel is opened when the bound on faults leaves no slow
\* answer, which a timeout would cut short.
FairSpec ==
    /\ Spec
    /\ \A c \in Callers : WF_vars(~HeldUp(c) /\ PublishStep(c))
    /\ WF_vars(~HeldUp(Watcher) /\ (CreateStep(Watcher) \/ WatcherStep) /\ UNCHANGED publishVars)
    /\ WF_vars(/\ faults = MaxFaults
               /\ \E ch \in Channels : ChannelOpens(ch)
               /\ UNCHANGED publishVars)

----------------------------------------------------------------------------
(* Properties.                                                             *)

\* The type of every variable of the publisher and its pool.
TypeOK ==
    /\ PoolTypeOK
    /\ call \in [Callers -> Calls]
    /\ via \in [Callers -> Channels \cup {NoChannel}]
    /\ answer \in [Callers -> Answers]
    /\ routed \subseteq Callers
    /\ returns \in [Callers -> Callers \cup {"empty"}]
    /\ result \in [Callers -> {"none", "ok", "error", "returned"}]

\* A publish with WaitForConfirm that reports success is one the broker has
\* acknowledged, although its channel may carry the late acknowledgements of earlier
\* publishes whose callers did not wait, or gave up waiting (publishOnChannel).
ConfirmedIsAcked ==
    \A c \in Callers : result[c] = "ok" /\ WaitForConfirm(c) => answer[c] = "acked"

\* With Mandatory as well, success means that the message reached a queue: the
\* return is looked at after the confirmation it precedes (publish).
MandatoryConfirmedIsRouted ==
    \A c \in Callers : result[c] = "ok" /\ call[c] = "both" => c \in routed

\* No mandatory publish reports the return of another one's message: "a stale
\* listener on a reused channel would swallow returns meant for later publishes".
OwnReturn ==
    \A c \in Callers : result[c] = "returned" => returns[c] \in {c, "empty"}

\* Under FairSpec a call that does not return is held up for ever, at one of the
\* requests of HeldUp: each of its other waits, for a channel to open, for confirm
\* mode, for the confirmation and for the return, ends by itself, whatever the
\* broker, the connection, the watcher and Close do meanwhile (publish, GetChannel).
CallsReturn ==
    \A c \in Callers : []<>~HeldUp(c) => (pc[c] # "idle" ~> pc[c] \in {"done", "failed"})

\* Under FairSpec warming the pool ends, unless the closing of a channel, or the Close
\* that has connMu, is held up for ever, and although callers return channels to the
\* pool meanwhile: "The send must not block" (warmChannelPool).
WarmingEnds ==
    []<>~HeldUp(Watcher) => (pc[Watcher] = "warm" ~> pc[Watcher] = "register")

----------------------------------------------------------------------------
(* The inductive invariant behind the safety properties.                   *)

\* Before its message is sent a call has no result, and what is not sent is not
\* answered.
NothingBeforeSend ==
    \A c \in Callers :
        /\ pc[c] \in {"idle", "borrow", "retiring", "create", "opening", "confirming", "discarding",
                     "holding", "raw", "returning"} =>
              via[c] = NoChannel /\ result[c] = "none"
        /\ via[c] = NoChannel =>
              /\ answer[c] = "unsent" /\ returns[c] = "empty" /\ c \notin routed
              /\ result[c] \in {"none", "error"}

\* A message waits for its answer on the channel in its caller's hand, and a channel
\* with a listener stays there until it is closed.
ListenerInHand ==
    \A c \in Callers :
        /\ pc[c] \in {"awaitConfirm", "awaitReturn"} => via[c] = has[c]
        /\ Mandatory(c) /\ via[c] \in open =>
              via[c] = has[c] /\ pc[c] \in {"awaitConfirm", "awaitReturn", "closing"}

\* Messages are sent on channels that their openers have handed over.
SentOnOpened == \A c \in Callers : via[c] # NoChannel => opener[via[c]] = "ended"

\* A listener gets nothing but the return of its own message, before the
\* acknowledgement.
ReturnKept ==
    \A c \in Callers :
        /\ returns[c] \in {c, "empty"}
        /\ Mandatory(c) /\ answer[c] \in {"returned", "acked"} /\ c \notin routed => returns[c] = c

\* Whoever waits for a return has been confirmed first, if it asked for that.
ConfirmFirst ==
    \A c \in Callers : pc[c] = "awaitReturn" /\ WaitForConfirm(c) => answer[c] = "acked"

\* The conjunction is inductive: each step of a call, of the pool, of the watcher and of
\* the broker preserves it.
Inv ==
    /\ TypeOK
    /\ PoolInv
    /\ NothingBeforeSend
    /\ ListenerInHand
    /\ SentOnOpened
    /\ ReturnKept
    /\ ConfirmFirst
    /\ ConfirmedIsAcked
    /\ MandatoryConfirmedIsRouted

----------------------------------------------------------------------------
(* What the documentation says, and the code does not guarantee.           *)

\* "PublishReturnedError is returned by PublishMessage when Mandatory is true and
\* RabbitMQ returns the publish as unroutable" (publisher.go).
ReturnedMeansUnroutable ==
    \A c \in Callers : result[c] = "returned" => answer[c] \in {"returned", "acked"} /\ c \notin routed
=============================================================================
