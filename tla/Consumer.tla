------------------------------ MODULE Consumer ------------------------------
(***************************************************************************)
(* The consumer of pkg/rabbitmq/consumer.go: a set of Consumer values that *)
(* compete for one queue, each running Consume (Workers <= 1) or           *)
(* ConsumeConcurrent (Workers > 1).  The module covers the session loop,   *)
(* the dispatch of deliveries, the retry / dead-letter decision, the       *)
(* acknowledgements, the restart after a lost session, and Close.          *)
(*                                                                         *)
(* The broker is external.  It is modelled by what the library relies on:  *)
(* a durable queue that hands a copy of a message to one channel at a time *)
(* and takes it back when that channel dies unacknowledged.  A connection  *)
(* has two ends that notice its loss independently: "link" is the broker's *)
(* view of a consumer's channel and "chan" the client's.                   *)
(*                                                                         *)
(* A copy is one message in the broker.  A retry is a new copy of the same *)
(* message with a larger count; copies are never reused.                   *)
(***************************************************************************)
EXTENDS RetryCount, FiniteSets

CONSTANTS
    Consumers,          \* Consumer values consuming the queue
    Messages,           \* what producers publish
    Copies,             \* identities of message copies (bounds their number)
    Unroutable,         \* messages that reached the queue on a path that
                        \* (Config.Exchange, routing key) does not lead back to
    PublishedHeaders,   \* retry headers a producer may publish with
    MaxRetries,         \* Config.MaxRetries
    PrefetchCount,      \* Config.PrefetchCount, 0 is unlimited
    Workers,            \* argument of ConsumeConcurrent; <= 1 is Consume
    DisableDeadLetter,  \* Config.DisableDeadLetter
    MaxFaults           \* bound on lost connections, refusals and timeouts

\* Where the broker keeps a copy, when no consumer's channel holds it: not
\* created yet, in the queue, delivered on a channel its client has given up,
\* in the dead-letter queue, or forgotten.
Places == {"none", "ready", "stale", "dead", "gone"}

NoMessage == "none"     \* the message of a copy that was not created yet

ASSUME ConsumerAssumption ==
    /\ Consumers \cap Places = {}
    /\ Unroutable \subseteq Messages
    /\ PublishedHeaders \subseteq RetryHeader
    /\ MaxRetries \in Int
    /\ PrefetchCount \in Nat
    /\ Workers \in Nat
    /\ DisableDeadLetter \in BOOLEAN
    /\ MaxFaults \in Nat

VARIABLES
    published,  \* messages handed to the broker so far
    done,       \* messages some handler call returned nil for
    dropped,    \* messages nacked without a dead-letter exchange
    loc,        \* where each copy is: a place, or the consumer holding it
    msg,        \* the message a copy is a copy of
    header,     \* its retry header
    fails,      \* failed handler calls in the copy's ancestry (history)
    fatal,      \* copies whose handler returned a NonRetryableError (history)
    phase,      \* program counter of each consumer's Consume call
    conn,       \* each consumer's connection: "live", "down" or "lost"
    chan,       \* the client's view of its channel: "open" or "closed"
    link,       \* the broker's view of the same channel
    stage,      \* what each consumer is doing with each copy
    sem,        \* slots taken of the current session's semaphore, by their copies
    cancelled,  \* consumers whose context is done
    closing,    \* progress of Close: "no", "waiting" in wg.Wait, "closed"
    faults      \* faults that have happened

messageVars == <<published, done, dropped>>
copyVars    == <<msg, header>>
historyVars == <<fails, fatal>>
endsVars    == <<conn, chan, link>>
closeVars   == <<cancelled, closing>>
vars == <<messageVars, loc, copyVars, historyVars, phase, endsVars, stage, sem,
          closeVars, faults>>

\* "idle": no Consume call; "start": at the top of its loop; "opening": past the
\* context check, in consumeOnce before the loop; "consuming": in the select
\* loop; "failed"/"stopped": left the loop, waiting for inflight handlers;
\* "sleeping": in sleepContext; "returned": Consume has returned.
Phases == {"idle", "start", "opening", "consuming", "failed", "stopped",
           "sleeping", "returned"}

\* A delivery waits in the client library ("buffered"), then in the loop for a
\* worker slot ("pending"); the remaining stages are inside handleDelivery.
ActiveStages == {"handling", "republish", "accepted", "lost",
                 "ack", "reject", "requeue"}
Stages == {"idle", "buffered", "pending"} \cup ActiveStages

\* A connection that was lost is "down" as long as watchConnection is going to
\* repair it, and "lost" when it is not: it died before NotifyClose was registered,
\* or Close has closed it.  Supervisor models the watcher and shows both cases.
Connections == {"live", "down", "lost"}

----------------------------------------------------------------------------
Held(k)    == {c \in Copies : loc[c] = k}
Active(k)  == {c \in Copies : stage[k][c] \in ActiveStages}
Pending(k) == {c \in Copies : stage[k][c] = "pending"}

Sequential == Workers <= 1

\* The value passed to Qos.
EffectivePrefetch ==
    IF Sequential \/ PrefetchCount > Workers THEN PrefetchCount ELSE Workers

RetryCountOf(c) == ReadRetryCount(header[c])

\* handleDelivery runs in the loop itself in Consume, in a goroutine in
\* ConsumeConcurrent.
LoopInSelect(k) ==
    /\ phase[k] = "consuming"
    /\ Sequential => Active(k) = {}

SetStage(k, c, s) == stage' = [stage EXCEPT ![k][c] = s]

\* Some step of the environment goes wrong.
Fault == faults < MaxFaults /\ faults' = faults + 1

----------------------------------------------------------------------------
Init ==
    /\ published = {} /\ done = {} /\ dropped = {}
    /\ loc = [c \in Copies |-> "none"]
    /\ msg = [c \in Copies |-> NoMessage]
    /\ header = [c \in Copies |-> NextRetryHeaders(0)]
    /\ fails = [c \in Copies |-> 0]
    /\ fatal = {}
    /\ phase = [k \in Consumers |-> "idle"]
    /\ conn = [k \in Consumers |-> "live"]
    /\ chan = [k \in Consumers |-> "closed"]
    /\ link = [k \in Consumers |-> "closed"]
    /\ stage = [k \in Consumers |-> [c \in Copies |-> "idle"]]
    /\ sem = [k \in Consumers |-> {}]
    /\ cancelled = {}
    /\ closing = [k \in Consumers |-> "no"]
    /\ faults = 0

----------------------------------------------------------------------------
(* The broker and the network (external).                                  *)

\* A copy without the contents of the message.
Enqueue_Mutant(c, m, h, f) ==
    /\ loc[c] = "none"
    /\ loc' = [loc EXCEPT ![c] = "ready"]
    /\ header' = [header EXCEPT ![c] = h]
    /\ fails' = [fails EXCEPT ![c] = f]
    /\ UNCHANGED msg

\* A new copy of m enters the queue.
Enqueue(c, m, h, f) ==
    /\ loc[c] = "none"
    /\ loc' = [loc EXCEPT ![c] = "ready"]
    /\ msg' = [msg EXCEPT ![c] = m]
    /\ header' = [header EXCEPT ![c] = h]
    /\ fails' = [fails EXCEPT ![c] = f]

\* A producer publishes m, possibly with a retry header of its own.
Publish(m, c, h) ==
    /\ m \notin published
    /\ published' = published \cup {m}
    /\ Enqueue(c, m, h, ReadRetryCount(h))
    /\ UNCHANGED <<done, dropped, fatal, phase, endsVars, stage, sem, closeVars, faults>>

\* The broker sends a copy, within the prefetch window of the channel.
Deliver(k, c) ==
    /\ link[k] = "open" /\ chan[k] = "open"
    /\ loc[c] = "ready"
    /\ EffectivePrefetch = 0 \/ Cardinality(Held(k)) < EffectivePrefetch
    /\ loc' = [loc EXCEPT ![c] = k]
    /\ SetStage(k, c, "buffered")
    /\ UNCHANGED <<messageVars, copyVars, historyVars, phase, endsVars, sem, closeVars, faults>>

\* What becomes of the copies a consumer's channel holds when it is given up.
Release(k, place) == loc' = [c \in Copies |-> IF loc[c] = k THEN place ELSE loc[c]]

\* The broker loses the channel: because the client's end is down, or as a fault.
BrokerDropsLink(k) ==
    /\ link[k] = "open"
    /\ IF chan[k] = "closed" THEN UNCHANGED faults ELSE Fault
    /\ link' = [link EXCEPT ![k] = "closed"]
    /\ Release(k, "ready")
    /\ UNCHANGED <<messageVars, copyVars, historyVars, phase, conn, chan, stage, sem, closeVars>>

\* The client library closes the channel: because the broker's end is down, or
\* as a fault.
ClientLosesChannel(k) ==
    /\ chan[k] = "open"
    /\ IF link[k] = "closed" THEN UNCHANGED faults ELSE Fault
    /\ chan' = [chan EXCEPT ![k] = "closed"]
    /\ UNCHANGED <<messageVars, loc, copyVars, historyVars, phase, conn, link, stage, sem, closeVars>>

\* The connection dies, and the client's end of the channel with it.
LoseConnection(k) ==
    /\ conn[k] = "live"
    /\ Fault
    /\ \E c \in {"down", "lost"} : conn' = [conn EXCEPT ![k] = c]
    /\ chan' = [chan EXCEPT ![k] = "closed"]
    /\ UNCHANGED <<messageVars, loc, copyVars, historyVars, phase, link, stage, sem, closeVars>>

\* reconnect succeeds, after any number of attempts.
Reconnect(k) ==
    /\ conn[k] = "down"
    /\ conn' = [conn EXCEPT ![k] = "live"]
    /\ UNCHANGED <<messageVars, loc, copyVars, historyVars, phase, chan, link, stage, sem,
                   closeVars, faults>>

\* The broker notices that a channel its client gave up is gone.
RequeueStale(c) ==
    /\ loc[c] = "stale"
    /\ loc' = [loc EXCEPT ![c] = "ready"]
    /\ UNCHANGED <<messageVars, copyVars, historyVars, phase, endsVars, stage, sem, closeVars, faults>>

----------------------------------------------------------------------------
(* Consume, ConsumeConcurrent: the outer loop.                             *)

GoTo(k, p) == phase' = [phase EXCEPT ![k] = p]

\* The application calls Consume; wg.Add(1).
Consume(k) ==
    /\ phase[k] = "idle"
    /\ GoTo(k, "start")
    /\ UNCHANGED <<messageVars, loc, copyVars, historyVars, endsVars, stage, sem, closeVars, faults>>

AfterContextCheck_Mutant(k) == "opening"    \* without the case <-c.ctx.Done()

\* Where the select with a default at the top of the loop leads.
AfterContextCheck(k) == IF k \in cancelled THEN "returned" ELSE "opening"

CheckContext(k) ==
    /\ phase[k] = "start"
    /\ GoTo(k, AfterContextCheck(k))
    /\ UNCHANGED <<messageVars, loc, copyVars, historyVars, endsVars, stage, sem, closeVars, faults>>

\* consumeOnce reaches its loop: connection live, channel open, Qos, Confirm,
\* topology, Consume.  In ConsumeConcurrent each session makes its own sem.
OpenSession(k) ==
    /\ phase[k] = "opening"
    /\ conn[k] = "live"
    /\ GoTo(k, "consuming")
    /\ chan' = [chan EXCEPT ![k] = "open"]
    /\ link' = [link EXCEPT ![k] = "open"]
    /\ sem' = [sem EXCEPT ![k] = {}]
    /\ UNCHANGED <<messageVars, loc, copyVars, historyVars, conn, stage, closeVars, faults>>

\* There is no live connection, or one of those steps fails: restart after a sleep.
OpenFails(k) ==
    /\ phase[k] = "opening"
    /\ IF conn[k] = "live" THEN Fault ELSE UNCHANGED faults
    /\ GoTo(k, "sleeping")
    /\ UNCHANGED <<messageVars, loc, copyVars, historyVars, endsVars, stage, sem, closeVars>>

\* sleepContext: the timer fires, or the context is done.
Wake(k) ==
    /\ phase[k] = "sleeping"
    /\ \/ GoTo(k, "start")
       \/ k \in cancelled /\ GoTo(k, "returned")
    /\ UNCHANGED <<messageVars, loc, copyVars, historyVars, endsVars, stage, sem, closeVars, faults>>

----------------------------------------------------------------------------
(* consumeOnce, consumeOnceConcurrent: the select loop.                    *)

\* msg := <-msgs.  The client library may still hand out buffered deliveries
\* after the channel closed, and the select may prefer them to ctx.Done().
Receive(k, c) ==
    /\ LoopInSelect(k)
    /\ Pending(k) = {}
    /\ stage[k][c] = "buffered"
    /\ SetStage(k, c, IF Sequential THEN "handling" ELSE "pending")
    /\ UNCHANGED <<messageVars, loc, copyVars, historyVars, phase, endsVars, sem, closeVars, faults>>

\* sem <- struct{}{}; go handleDelivery.
Dispatch(k, c) ==
    /\ ~Sequential
    /\ phase[k] = "consuming"
    /\ stage[k][c] = "pending"
    /\ Cardinality(sem[k]) < Workers
    /\ sem' = [sem EXCEPT ![k] = @ \cup {c}]
    /\ SetStage(k, c, "handling")
    /\ UNCHANGED <<messageVars, loc, copyVars, historyVars, phase, endsVars, closeVars, faults>>

StopOnCancel_Mutant(k) == FALSE     \* a select without the case <-c.ctx.Done()

\* <-ctx.Done() in either select.
StopOnCancel(k) ==
    /\ LoopInSelect(k)
    /\ k \in cancelled
    /\ GoTo(k, "stopped")
    /\ UNCHANGED <<messageVars, loc, copyVars, historyVars, endsVars, stage, sem, closeVars, faults>>

\* <-chanClose in either select, or msgs closed in the outer one: when the
\* channel died, or when the broker cancels the consumer (a fault).
SessionEnds(k) ==
    /\ LoopInSelect(k)
    /\ IF chan[k] = "closed" THEN UNCHANGED faults ELSE Pending(k) = {} /\ Fault
    /\ GoTo(k, "failed")
    /\ UNCHANGED <<messageVars, loc, copyVars, historyVars, endsVars, stage, sem, closeVars>>

InflightDrained_Mutant(k) == TRUE   \* without the deferred inflight.Wait()

\* The deferred inflight.Wait().
InflightDrained(k) == Active(k) = {}

\* The deferred calls, last in first out: inflight.Wait(), then ch.Close().
\* Deliveries that were received but not dispatched, or still buffered, are
\* abandoned unacknowledged.
CloseSession(k) ==
    /\ phase[k] \in {"failed", "stopped"}
    /\ InflightDrained(k)
    /\ GoTo(k, IF phase[k] = "stopped" THEN "returned" ELSE "sleeping")
    /\ chan' = [chan EXCEPT ![k] = "closed"]
    /\ link' = [link EXCEPT ![k] = "closed"]
    /\ Release(k, "stale")
    /\ stage' = [stage EXCEPT ![k] = [c \in Copies |->
                    IF @[c] \in ActiveStages THEN @[c] ELSE "idle"]]
    /\ UNCHANGED <<messageVars, copyVars, historyVars, conn, sem, closeVars, faults>>

----------------------------------------------------------------------------
(* handleDelivery and what it calls.                                       *)

\* The handler returns nil.
HandlerSucceeds(k, c) ==
    /\ stage[k][c] = "handling"
    /\ done' = done \cup {msg[c]}
    /\ SetStage(k, c, "ack")
    /\ UNCHANGED <<published, dropped, loc, copyVars, historyVars, phase, endsVars, sem, closeVars, faults>>

RetriesExhausted_Early(c) == RetryCountOf(c) + 1 >= MaxRetries
RetriesExhausted_Late(c) == RetryCountOf(c) > MaxRetries

RetriesExhausted(c) == RetryCountOf(c) >= MaxRetries

\* Counting further failures would distinguish nothing.
CountFailure(c) == IF fails[c] > MaxRetries THEN fails[c] ELSE fails[c] + 1

\* The handler returns an error or panics: handleHandlerError decides.
HandlerFails(k, c, nonRetryable) ==
    /\ stage[k][c] = "handling"
    /\ fails' = [fails EXCEPT ![c] = CountFailure(c)]
    /\ fatal' = IF nonRetryable THEN fatal \cup {c} ELSE fatal
    /\ SetStage(k, c, IF nonRetryable \/ RetriesExhausted(c) THEN "reject" ELSE "republish")
    /\ UNCHANGED <<messageVars, loc, copyVars, phase, endsVars, sem, closeVars, faults>>

\* The confirm of a republish can be awaited only on a channel in confirm mode,
\* which the session enables when MaxRetries > 0; otherwise the deferred
\* confirmation is nil and republishWithRetry reports an error.
AfterRepublish(sent) == IF MaxRetries > 0 THEN sent ELSE "requeue"

\* republishWithRetry fails before sending: counter out of range, channel closed.
RepublishRefused(k, c) ==
    /\ stage[k][c] = "republish"
    /\ chan[k] = "closed" \/ ~NextRetryHeadersFit(RetryCountOf(c) + 1)
    /\ SetStage(k, c, "requeue")
    /\ UNCHANGED <<messageVars, loc, copyVars, historyVars, phase, endsVars, sem, closeVars, faults>>

\* The bound on copies is reached: the model lets the broker refuse a retry then.
NoCopyLeft == \A n \in Copies : loc[n] # "none"

\* The copy is sent and never reaches the queue: the link is down, or the broker
\* refuses it.
RepublishLost(k, c) ==
    /\ stage[k][c] = "republish"
    /\ chan[k] = "open" /\ NextRetryHeadersFit(RetryCountOf(c) + 1)
    /\ IF link[k] = "closed" \/ NoCopyLeft THEN UNCHANGED faults ELSE Fault
    /\ SetStage(k, c, AfterRepublish("lost"))
    /\ UNCHANGED <<messageVars, loc, copyVars, historyVars, phase, endsVars, sem, closeVars>>

\* The broker takes responsibility for the copy; an unroutable one it discards.
RepublishAccepted(k, c, n) ==
    /\ stage[k][c] = "republish"
    /\ chan[k] = "open" /\ NextRetryHeadersFit(RetryCountOf(c) + 1)
    /\ link[k] = "open"
    /\ IF msg[c] \in Unroutable
       THEN n = c /\ UNCHANGED <<loc, msg, header, fails>>
       ELSE Enqueue(n, msg[c], NextRetryHeaders(RetryCountOf(c) + 1), fails[c])
    /\ SetStage(k, c, AfterRepublish("accepted"))
    /\ UNCHANGED <<messageVars, fatal, phase, endsVars, sem, closeVars, faults>>

MayConfirm_Mutant(k, c) == stage[k][c] \in {"accepted", "lost"}  \* ack unawaited

\* Only a copy the broker accepted is ever confirmed.
MayConfirm(k, c) == stage[k][c] = "accepted"

ConfirmAcked(k, c) ==
    /\ MayConfirm(k, c)
    /\ SetStage(k, c, "ack")
    /\ UNCHANGED <<messageVars, loc, copyVars, historyVars, phase, endsVars, sem, closeVars, faults>>

\* dc.WaitContext ends without an ack: nothing to confirm, channel shut down,
\* context done, or (a fault) the confirm comes after PublishConfirmTimeout.
ConfirmFails(k, c) ==
    /\ stage[k][c] \in {"accepted", "lost"}
    /\ IF stage[k][c] = "lost" \/ chan[k] = "closed" \/ k \in cancelled
       THEN UNCHANGED faults
       ELSE Fault
    /\ SetStage(k, c, "requeue")
    /\ UNCHANGED <<messageVars, loc, copyVars, historyVars, phase, endsVars, sem, closeVars>>

\* An acknowledgement takes effect only on a channel both ends still have; its
\* error is ignored.
Effective(k, c) == chan[k] = "open" /\ loc[c] = k

Settle(k, c, place) ==
    loc' = IF Effective(k, c) THEN [loc EXCEPT ![c] = place] ELSE loc

\* handleDelivery returns: the deferred <-sem of its goroutine (Consume has no sem).
HandlerEnds(k, c) ==
    /\ SetStage(k, c, "idle")
    /\ sem' = [sem EXCEPT ![k] = @ \ {c}]

\* Nack(false, true) in place of the Ack.
Ack_Mutant(k, c) ==
    /\ stage[k][c] = "ack"
    /\ Settle(k, c, "ready")
    /\ HandlerEnds(k, c)
    /\ UNCHANGED <<messageVars, copyVars, historyVars, phase, endsVars, closeVars, faults>>

\* msg.Ack(false).
Ack(k, c) ==
    /\ stage[k][c] = "ack"
    /\ Settle(k, c, "gone")
    /\ HandlerEnds(k, c)
    /\ UNCHANGED <<messageVars, copyVars, historyVars, phase, endsVars, closeVars, faults>>

\* msg.Ack(false) in place of the Nack.
Reject_Mutant(k, c) ==
    /\ stage[k][c] = "reject"
    /\ Settle(k, c, "gone")
    /\ HandlerEnds(k, c)
    /\ UNCHANGED <<messageVars, copyVars, historyVars, phase, endsVars, closeVars, faults>>

\* msg.Nack(false, false).
Reject(k, c) ==
    /\ stage[k][c] = "reject"
    /\ Settle(k, c, IF DisableDeadLetter THEN "gone" ELSE "dead")
    /\ dropped' = IF DisableDeadLetter /\ Effective(k, c) THEN dropped \cup {msg[c]} ELSE dropped
    /\ HandlerEnds(k, c)
    /\ UNCHANGED <<published, done, copyVars, historyVars, phase, endsVars, closeVars, faults>>

\* Without the Nack after a failed republish.
Requeue_Forgotten(k, c) ==
    /\ stage[k][c] = "requeue"
    /\ HandlerEnds(k, c)
    /\ UNCHANGED <<messageVars, loc, copyVars, historyVars, phase, endsVars, closeVars, faults>>

\* msg.Nack(false, true).
Requeue(k, c) ==
    /\ stage[k][c] = "requeue"
    /\ Settle(k, c, "ready")
    /\ HandlerEnds(k, c)
    /\ UNCHANGED <<messageVars, copyVars, historyVars, phase, endsVars, closeVars, faults>>

----------------------------------------------------------------------------
(* Shutdown.                                                               *)

\* The context given to NewConsumer is cancelled.
Cancel(k) ==
    /\ k \notin cancelled
    /\ cancelled' = cancelled \cup {k}
    /\ UNCHANGED <<messageVars, loc, copyVars, historyVars, phase, endsVars, stage, sem, closing, faults>>

\* Close: c.cancel(), then c.wg.Wait().
Close(k) ==
    /\ closing[k] = "no"
    /\ closing' = [closing EXCEPT ![k] = "waiting"]
    /\ cancelled' = cancelled \cup {k}
    /\ UNCHANGED <<messageVars, loc, copyVars, historyVars, phase, endsVars, stage, sem, faults>>

NoneRunning_TooSoon(k) == TRUE              \* without c.wg.Wait()
NoneRunning_Never(k) == phase[k] = "idle"   \* without the deferred c.wg.Done()

\* c.wg: no Consume call has entered and not returned.
NoneRunning(k) == phase[k] \in {"idle", "returned"}

\* Close then closes the connection.  (That a reconnect under way may still make
\* another one is Supervisor's subject; nothing here would use it.)
CloseReturns(k) ==
    /\ closing[k] = "waiting"
    /\ NoneRunning(k)
    /\ closing' = [closing EXCEPT ![k] = "closed"]
    /\ conn' = [conn EXCEPT ![k] = "lost"]
    /\ UNCHANGED <<messageVars, loc, copyVars, historyVars, phase, chan, link, stage, sem, cancelled, faults>>

----------------------------------------------------------------------------
HandlerReturns(k, c) ==
    HandlerSucceeds(k, c) \/ \E nonRetryable \in BOOLEAN : HandlerFails(k, c, nonRetryable)

Republish(k, c) ==
    \/ RepublishRefused(k, c)
    \/ RepublishLost(k, c)
    \/ \E n \in Copies : RepublishAccepted(k, c, n)

AwaitConfirm(k, c) == ConfirmAcked(k, c) \/ ConfirmFails(k, c)

Acknowledge(k, c) == Ack(k, c) \/ Reject(k, c) \/ Requeue(k, c)

\* A step of the loop of consumer k.
LoopStep(k) ==
    \/ Consume(k)
    \/ CheckContext(k)
    \/ OpenSession(k)
    \/ OpenFails(k)
    \/ Wake(k)
    \/ StopOnCancel(k)
    \/ SessionEnds(k)
    \/ CloseSession(k)

\* A step that consumer k takes for the copy c.
DeliveryStep(k, c) ==
    \/ Deliver(k, c)
    \/ Receive(k, c)
    \/ Dispatch(k, c)
    \/ HandlerReturns(k, c)
    \/ Republish(k, c)
    \/ AwaitConfirm(k, c)
    \/ Acknowledge(k, c)

NetworkStep(k) ==
    \/ BrokerDropsLink(k) \/ ClientLosesChannel(k)
    \/ LoseConnection(k) \/ Reconnect(k)

ShutdownStep(k) == Cancel(k) \/ Close(k) \/ CloseReturns(k)

Next ==
    \/ \E m \in Messages, c \in Copies, h \in PublishedHeaders : Publish(m, c, h)
    \/ \E c \in Copies : RequeueStale(c)
    \/ \E k \in Consumers : LoopStep(k) \/ NetworkStep(k) \/ ShutdownStep(k)
    \/ \E k \in Consumers, c \in Copies : DeliveryStep(k, c)

Spec == Init /\ [][Next]_vars

----------------------------------------------------------------------------
(* Fairness.  A goroutine that can run does run, an application calls       *)
(* Consume and its handlers return, the broker delivers what is ready and   *)
(* answers, and each end of a connection eventually notices (heartbeats)    *)
(* that the other is gone.  The watcher of a connection that is "down" gets *)
(* it back (NoticedLossIsRepaired in Supervisor) unless the context is done *)
(* first; one that is "lost" stays lost, and consumeOnce fails on it again  *)
(* and again.  A select picks among its ready cases at random, so           *)
(* <-ctx.Done() wins in the end.  No fault is ever forced to happen.        *)

LoopRuns(k) ==
    \/ CheckContext(k) \/ OpenSession(k) \/ Wake(k) \/ CloseSession(k)
    \/ conn[k] # "live" /\ OpenFails(k)
    \/ StopOnCancel(k)
    \/ chan[k] = "closed" /\ SessionEnds(k)
    \/ \E c \in Copies : Receive(k, c) \/ Dispatch(k, c)

WorkerRuns(k, c) ==
    \/ HandlerReturns(k, c)
    \/ RepublishRefused(k, c)
    \/ (link[k] = "closed" \/ NoCopyLeft) /\ RepublishLost(k, c)
    \/ \E n \in Copies : RepublishAccepted(k, c, n)
    \/ ConfirmAcked(k, c)
    \/ stage[k][c] = "lost" /\ ConfirmFails(k, c)
    \/ Acknowledge(k, c)

EndsAgree(k) ==
    \/ chan[k] = "closed" /\ BrokerDropsLink(k)
    \/ link[k] = "closed" /\ ClientLosesChannel(k)

FairSpec ==
    /\ Spec
    /\ \A k \in Consumers :
          /\ WF_vars(Consume(k))
          /\ WF_vars(LoopRuns(k))
          /\ SF_vars(StopOnCancel(k))
          /\ WF_vars(EndsAgree(k))
          /\ WF_vars(k \notin cancelled /\ Reconnect(k))
          /\ WF_vars(CloseReturns(k))
          /\ \A c \in Copies : WF_vars(WorkerRuns(k, c))
    /\ \A c \in Copies :
          /\ WF_vars(\E k \in Consumers : Deliver(k, c))
          /\ WF_vars(RequeueStale(c))

----------------------------------------------------------------------------
(* Properties.                                                             *)

\* The type of every variable: where the broker and the session loop of
\* consumer.go may be at any time.
TypeOK ==
    /\ published \subseteq Messages
    /\ done \subseteq Messages
    /\ dropped \subseteq Messages
    /\ loc \in [Copies -> Places \cup Consumers]
    /\ msg \in [Copies -> Messages \cup {NoMessage}]
    /\ header \in [Copies -> RetryHeader]
    /\ fails \in [Copies -> Int]
    /\ fatal \subseteq Copies
    /\ phase \in [Consumers -> Phases]
    /\ conn \in [Consumers -> Connections]
    /\ chan \in [Consumers -> {"open", "closed"}]
    /\ link \in [Consumers -> {"open", "closed"}]
    /\ stage \in [Consumers -> [Copies -> Stages]]
    /\ sem \in [Consumers -> SUBSET Copies]
    /\ cancelled \subseteq Consumers
    /\ closing \in [Consumers -> {"no", "waiting", "closed"}]
    /\ faults \in 0 .. MaxFaults

Live(c) == loc[c] \in {"ready", "stale"} \cup Consumers

CopiesOf(m) == {c \in Copies : msg[c] = m /\ loc[c] # "none"}

DeadLettered(m) == \E c \in CopiesOf(m) : loc[c] = "dead"

Settled(m) == m \in done \cup dropped \/ DeadLettered(m)

\* A message that can be routed back to its queue is never lost, whatever dies
\* when: until a handler succeeded, or it was dead-lettered or dropped for good,
\* the broker has a copy of it.  (handleHandlerError acknowledges the original
\* only after republishWithRetry saw the broker confirm its successor.)
NoMessageLost ==
    \A m \in published \ Unroutable : Settled(m) \/ \E c \in CopiesOf(m) : Live(c)

\* What justifies giving up: a NonRetryableError, or 1 + MaxRetries failures.
MayGiveUp(c) == c \in fatal \/ fails[c] > MaxRetries

\* A message is dead-lettered, or dropped where there is no dead-letter exchange,
\* only after a NonRetryableError or after 1 + MaxRetries failed handler calls,
\* however often retries were lost, repeated or redelivered on the way
\* (handleHandlerError).
GiveUpOnlyAfterRetries ==
    /\ \A c \in Copies : loc[c] = "dead" => MayGiveUp(c)
    /\ \A m \in dropped : \E c \in CopiesOf(m) : MayGiveUp(c)

\* No retry ever carries a count above Config.MaxRetries: a copy with a larger
\* count comes from a producer (handleHandlerError, NextRetryHeaders).
RetryCountBounded ==
    \A c \in Copies :
        loc[c] # "none" /\ RetryCountOf(c) > MaxRetries => header[c] \in PublishedHeaders

\* At most `workers' handlers of a consumer run at a time, although every session
\* has a semaphore of its own: the handlers of a session that failed have returned
\* before the next one hands out its first slot (sem, inflight.Wait).
HandlersBounded ==
    \A k \in Consumers : Cardinality(Active(k)) <= (IF Sequential THEN 1 ELSE Workers)

\* No handler outlives the session it was started in, so none acknowledges on a
\* channel that ch.Close() has torn down ("wait for handlers to finish so none
\* acks on a torn-down channel", consumeOnceConcurrent).
DrainBeforeTeardown ==
    \A k \in Consumers :
        Active(k) # {} => phase[k] \in {"consuming", "failed", "stopped"}

\* Once Close has returned, no handler runs, no session is open, and a Consume
\* call that comes late opens none.
QuiescentAfterClose ==
    \A k \in Consumers : closing[k] = "closed" =>
        /\ Active(k) = {}
        /\ chan[k] = "closed"
        /\ phase[k] \in {"idle", "start", "returned"}

\* Copies the broker will hand to a handler (again) if nothing else goes wrong.
Due(c) ==
    \/ loc[c] \in {"ready", "stale"}
    \/ \E k \in Consumers : loc[c] = k /\ stage[k][c] \notin {"accepted", "ack", "reject"}

Owed(m) == {c \in CopiesOf(m) : Due(c)}

NothingWrong == faults = 0 /\ cancelled = {}

\* As long as nothing fails and no one shuts down, a message is owed to the
\* handlers at most once, and not at all after it was handled or rejected:
\* retries replace a message, they never multiply it (republish, then Ack).
ExactlyOnceWithoutFaults ==
    NothingWrong =>
        \A m \in published :
            Cardinality(Owed(m)) <= (IF Settled(m) THEN 0 ELSE 1)

\* Under FairSpec every published message is eventually handled, dead-lettered or
\* dropped, through lost sessions, lost connections, lost confirms and restarts,
\* unless every consumer is told to stop or has a connection that no watcher will
\* repair (consumeOnce, watchConnection).
EventuallySettled ==
    \A m \in Messages :
        m \in published ~>
            Settled(m) \/ \A k \in Consumers : k \in cancelled \/ conn[k] = "lost"

\* Under FairSpec a Consume call returns once its context is done, whatever the
\* session loop is waiting for at the time.
CancelStopsConsume ==
    \A k \in Consumers : k \in cancelled ~> phase[k] = "returned"

\* Under FairSpec Close does not wait forever for the running Consume calls.
CloseCompletes ==
    \A k \in Consumers : closing[k] = "waiting" ~> closing[k] = "closed"

----------------------------------------------------------------------------
(* The inductive invariant behind the safety properties.                   *)

\* A copy has no stage before it exists; afterwards its message is published.
FreshCopies ==
    \A c \in Copies : IF loc[c] = "none"
                      THEN \A k \in Consumers : stage[k][c] = "idle"
                      ELSE msg[c] \in published

InSession == {"consuming", "failed", "stopped"}

\* Outside consumeOnce's loop and its deferred calls nothing is open or pending.
SessionsOpen ==
    \A k \in Consumers : phase[k] \notin InSession =>
        /\ chan[k] = "closed" /\ link[k] = "closed"
        /\ \A c \in Copies : stage[k][c] = "idle"

\* Close cancels first, and returns when no Consume call is past its check.
CloseOrder ==
    \A k \in Consumers :
        /\ closing[k] # "no" => k \in cancelled
        /\ closing[k] = "closed" => phase[k] \in {"idle", "start", "returned"}

\* A copy the library has not handed over: neither replaced by an accepted retry
\* nor about to be acknowledged.
Bearing(c) ==
    \/ loc[c] \in {"ready", "stale", "dead"}
    \/ \E k \in Consumers : loc[c] = k /\ stage[k][c] \notin {"accepted", "ack"}

Borne ==
    \A m \in published \ Unroutable :
        m \in done \cup dropped \/ \E c \in Copies : msg[c] = m /\ Bearing(c)

\* The failures behind a copy cover the count it carries, or the whole budget.
Covers(f, count) == f >= count \/ f > MaxRetries

RetryBudget ==
    \A c \in Copies :
        /\ loc[c] # "none" => Covers(fails[c], RetryCountOf(c))
        /\ loc[c] = "dead" => MayGiveUp(c)
        /\ \A k \in Consumers :
              /\ stage[k][c] = "republish" => Covers(fails[c], RetryCountOf(c) + 1)
              /\ stage[k][c] = "reject" => MayGiveUp(c)

\* Every dropped message had a copy that was given up for a reason.
DropsJustified == \A m \in dropped : \E c \in CopiesOf(m) : MayGiveUp(c)

\* A delivery that is being published again has retries left.
RetriesLeft ==
    \A k \in Consumers, c \in Copies :
        stage[k][c] = "republish" => RetryCountOf(c) < MaxRetries

\* The slots taken are those of the handlers that run: a session starts with none of
\* either, because the one before it has waited for its handlers.
SlotsMatch == \A k \in Consumers : sem[k] = IF Sequential THEN {} ELSE Active(k)

\* Only finitely many handlers of a consumer run, even if it may be sent any number
\* of deliveries: its slots can be counted.
HandlersFinite == \A k \in Consumers : IsFiniteSet(Active(k))

\* Handlers and rejections settle only messages that were published.
SettledWasPublished == done \cup dropped \subseteq published

\* As long as the broker has a consumer's channel, nobody else is given what that
\* consumer works on: only a lost link leaves a handler with a copy it does not hold.
HeldWhileLinked ==
    \A k \in Consumers, c \in Copies :
        link[k] = "open" /\ stage[k][c] # "idle" => loc[c] = k

\* The conjunction is inductive: every handler, loop and broker step of the model
\* preserves it, and the safety properties above follow from it.
Inv ==
    /\ TypeOK
    /\ FreshCopies
    /\ SessionsOpen
    /\ CloseOrder
    /\ Borne
    /\ RetryBudget
    /\ DropsJustified
    /\ RetriesLeft
    /\ RetryCountBounded
    /\ SlotsMatch
    /\ HandlersFinite
    /\ HandlersBounded
    /\ SettledWasPublished
    /\ HeldWhileLinked

----------------------------------------------------------------------------
(* The inductive invariant behind ExactlyOnceWithoutFaults.                *)

\* No retry is sent on a channel without confirms, where it could not be told from a
\* lost one: the channel has them, or no producer sets a count that leaves a retry.
RetriesConfirmed ==
    MaxRetries > 0 \/ \A h \in PublishedHeaders : ReadRetryCount(h) >= MaxRetries

NoRetryUnconfirmed ==
    \A c \in Copies : loc[c] # "none" => MaxRetries > 0 \/ RetryCountOf(c) >= MaxRetries

\* Connections live, both ends of a channel agree, and no session ends.
SessionsLast ==
    \A k \in Consumers :
        /\ phase[k] \in {"idle", "start", "opening", "consuming"}
        /\ conn[k] = "live"
        /\ link[k] = chan[k]
        /\ phase[k] = "consuming" => chan[k] = "open"

\* What a consumer holds it works on, and nothing is abandoned.
NoneForgotten ==
    \A c \in Copies : loc[c] # "stale" /\ \A k \in Consumers : loc[c] = k => stage[k][c] # "idle"

\* A message has one copy that is due, until it is settled or about to be.
OneDue ==
    \A c \in Copies : Due(c) =>
        /\ ~Settled(msg[c])
        /\ \A d \in Copies : Due(d) /\ msg[d] = msg[c] => d = c
        /\ \A k \in Consumers, d \in Copies : stage[k][d] = "reject" => msg[d] # msg[c]

\* As long as nothing fails and no one shuts down, sessions last, and each message goes
\* from one hand to the next.
Once == NothingWrong => NoRetryUnconfirmed /\ SessionsLast /\ NoneForgotten /\ OneDue

----------------------------------------------------------------------------
(* The promise that the consumer keeps.                                    *)

Routable == published \ Unroutable

Queue == INSTANCE ReliableQueue WITH
            sent    <- Routable,
            owed    <- {m \in Routable : \E c \in CopiesOf(m) : Live(c)},
            settled <- {m \in Routable : Settled(m)}

\* Consumers, retries and broker together implement ReliableQueue: whatever fails
\* when, no step takes an unsettled message away, none settles a message that was not
\* owed, and a stale handler of a lost session never revives one that is forgotten.
ImplementsQueue == Queue!QueueSpec

----------------------------------------------------------------------------
(* What the documentation says, and the code does not guarantee.           *)

\* "Retry behavior is at-least-once" (README.md): no message at all is lost, the
\* unroutable ones included.
AtLeastOnce ==
    \A m \in published : Settled(m) \/ \E c \in CopiesOf(m) : Live(c)
=============================================================================
