# A TLA+ model of rabbitmq-go

rabbitmq-go is a Go client library on top of `amqp091-go`. It adds to that
library a publisher with a pool of channels and publisher confirms, a consumer
with retries, dead-lettering and concurrent workers, automatic reconnection of
both, and a queue topology both sides can declare.

This directory models the parts of the library that carry its guarantees,
model-checks them with TLC and proves the most important guarantees with TLAPS.
`PROJECT.json` holds the same information for tools: which definition stands for
which lines, which run checks which property, which mutation of the model breaks
each property.

## 1. Inventory

| component | source | state | operations | modelled by |
|---|---|---|---|---|
| retry counter header | `internal/amqpx/retry.go` | none | `ReadRetryCount`, `NextRetryHeaders` | `RetryCount` |
| consumer | `pkg/rabbitmq/consumer.go` | context, `wg`, the connection; per session: channel, `sem`, `inflight`, the deliveries in hand | `Consume`, `ConsumeConcurrent`, `consumeOnce…`, `handleDelivery`, `handleHandlerError`, `republishWithRetry`, `Close` | `Consumer` |
| dialing | `internal/amqpx/connection.go` | a goroutine and a result channel per call | `Dial` | `Dial` |
| connection supervision | `publisher.go`, `consumer.go` | `connection`, `connMu`, `closeChan`/context, backoff | `connect`, `watchConnection`, `reconnect`, `Close` | `Supervisor` |
| queue topology | `pkg/rabbitmq/topology.go` | exchanges, queues, bindings of the broker | `declareQueueTopology` | `Topology` |
| channel pool | `pkg/rabbitmq/pool.go` | buffered channel of `pooledChannel`s, `channelMeta`, the connection they belong to | `borrowChannel`, `GetChannel`, `ReturnChannel`, `returnPooled`, `warmChannelPool`, `drainPool`, `createConfirmChannel` | `ChannelPool` |
| publishing | `pkg/rabbitmq/publisher.go` | per call: a borrowed channel, a confirmation, a listener for returns | `PublishMessage` with its flags, `DeclareQueueTopology` | `Publisher` |
| configuration | `pkg/rabbitmq/config.go` | none | `validate`, `normalize` | partly: the defaults of the pool size and the backoff cap |
| URL masking | `internal/amqpx/connection.go` | none | `MaskURL` | not modelled (section 7) |
| errors, instrumentation hooks, OpenTelemetry, logging | | none of their own | | not modelled (section 7) |

How they interact. A publisher and a consumer each own one connection, which
`connect` establishes through `Dial` while holding `connMu` and a watcher
goroutine supervises. Each `Consume` call is a loop of *sessions*: a channel is
opened on the current connection, the topology is declared on it, deliveries are
handled until the channel or the context ends, and the loop starts over after a
pause. A handler error makes the consumer publish a copy of the message with a
larger `x-retry-count` on the same channel, wait for the broker's confirm and
acknowledge the original; or reject the message, which the broker then
dead-letters. `Close` cancels the context, waits for the `Consume` calls and
closes the connection. A publish borrows a channel in confirm mode from the pool
or has one created, sends, waits for a confirmation, a return or neither, and
gives the channel back or closes it; meanwhile the watcher may drain and replace
the pool, and `Close` may drain it for good.

What is hard:

* an acknowledgement, a republish and its confirm are three messages on a channel
  that may die, unnoticed at one end, between any two of them;
* handlers of a failed session still run while the session is torn down, and the next
  session has a semaphore of its own;
* some requests to the broker have no timer (closing a channel or a connection,
  declaring), so that a broker that stops answering holds up whoever makes them, and
  whoever waits for a lock they hold;
* `Close`, the context, the watcher, `reconnect` and `Dial`'s goroutine race;
* a channel changes hands between callers, the pool, the warm-up, the goroutine
  that opens it and the two that drain the pool, and must be closed by exactly one;
* a channel that is used again carries answers to earlier publishes, whose callers
  did not wait or gave up;
* the retry count is a header that any producer can set;
* several callers declare the same topology at the same time, and any of them may
  stop halfway.

`PROJECT.json` lists these hazards at their lines, with the properties that
address each.

## 2. Modules

```
RetryCount ── Consumer ── ConsumerProof ── ConsumerOnceProof
                 │                └─────── ConsumerRefinement
                 ├────── MCConsumer
                 └╌╌╌╌╌╌ ReliableQueue

Dial ── Supervisor ── SupervisorProof

ChannelPool ── Publisher ── PublisherProof
     │             └─────── MCPublisher
     └── ChannelPoolProof ── PublisherProof

Topology ── TopologyProof
     └───── MCTopology
```

(A solid edge is EXTENDS, the dashed one the INSTANCE of the abstract specification
that `Consumer` is shown to implement.) The `.cfg` files are named after the module
they configure; `Supervisor` needs no MC module. Each module states its properties
and its inductive invariant, and TLC checks both; the modules called `…Proof` and
`ConsumerRefinement` hold the theorems.

### Consumer

| variable | code |
|---|---|
| `phase[k]` | where the goroutine of `Consume`/`ConsumeConcurrent` is: top of its loop, opening a session, in the `select`, in the deferred calls, in `sleepContext` |
| `conn[k]` | the connection: `"live"`; `"down"`, which the watcher repairs; `"lost"` for good, because the loss went unnoticed or `Close` has closed it |
| `chan[k]`, `link[k]` | the session's channel as the client library and as the broker see it |
| `sem[k]` | the slots of the current session's semaphore that are taken; a new session starts with a new one |
| `stage[k][c]` | what consumer `k` does with copy `c`: buffered in the client library, received and waiting for a slot of `sem`, in the handler, republishing, waiting for the confirm, about to `Ack`, `Nack(false, false)` or `Nack(false, true)` |
| `cancelled`, `closing[k]` | the context; the progress of `Close` |
| `loc`, `msg`, `header` | the broker: where each copy of a message is, what it is a copy of, its retry header |
| `published`, `done`, `dropped` | messages handed to the broker, handled successfully, rejected without a dead-letter exchange |
| `fails`, `fatal` | history: failed handler calls in a copy's ancestry, non-retryable errors |
| `faults` | how many faults have happened |

`Consume` (one delivery at a time, in the loop itself) and `ConsumeConcurrent`
(workers, `sem`, `inflight`) are the two instances `Workers <= 1` and
`Workers > 1` of the same actions. Each action is one atomic step of the code:
everything between two points at which another goroutine or the broker can
interfere. The two ends of a connection lose it independently: a consumer may
acknowledge, or publish a retry, into a connection the broker has given up
already, and the broker may hold on to deliveries of a channel its client has
abandoned (place `"stale"`). The supervision of the connection is `Supervisor`'s; here
it is reduced to what a session sees of it: `OpenSession` needs a live connection,
`Reconnect` brings one back after a loss the watcher has noticed, and after a loss in
the gap that `supervisor_unnoticed_loss` exhibits nothing does.

Abstractions. Bodies and other headers are dropped: only identity and retry
count matter. An application calls `Consume` at most once per `Consumer`. A retry
copy goes back to one queue or (messages in `Unroutable`) to none. When the copies
of a finite instance are used up, the broker refuses further retries
(`NoCopyLeft`); this is what it may do anyway as a fault, so no behaviour is
added, and the theorems hold for any set of copies. Panics of a handler are
failures. The failure counter `fails` starts, for a message published with a
forged header, at the count that header claims: such a message has used up part of
its retries by the producer's word.

### ReliableQueue

The abstract specification of a queue with its consumers: `sent`, the messages
handed to it; `owed`, the ones it may still hand to a handler; `settled`, the ones
handled or given up for good. `Settle` and `Forget` are the only steps that take a
message out of `owed`, and nothing brings one back: a message is not lost before it
is settled and does not come to life again after the queue is rid of it. `Consumer`
implements it for the messages its retries can route (`ImplementsQueue`), with

| abstract | concrete |
|---|---|
| `sent` | the routable ones among `published` |
| `owed` | messages with a copy in the queue, with a consumer, or held by the broker for a channel its client has abandoned |
| `settled` | handled, in the dead-letter queue, or dropped without one |

The copies of a retried message, redeliveries and duplicates, the sessions and the
confirms are all hidden by this mapping; a republish followed by the acknowledgement
of the original is a stuttering step, and would not be if they came in the other
order.

### Dial and Supervisor

`Dial` models one call as two processes, the caller's `select` and the goroutine
that runs `amqp.DialConfig`, joined by a channel with a buffer of one.
`Supervisor` extends it: `connect` takes its steps through Dial's actions while
holding `connMu` (places `"dialing"` and `"declaring"`), and goroutines of
earlier calls run on beside it. The publisher and the consumer have the same
structure here; where they differ (the publisher looks at `closeChan` at the top of
the watcher's loop, the consumer does not look at its context there) the model
allows both. That the consumer's `Close` waits for the `Consume` calls between
cancelling the context and closing the connection is the subject of `Consumer`.

### ChannelPool and Publisher

| variable | code |
|---|---|
| `pc[p]`, `has[p]` | where a caller, or the watcher, is and which channel it has in hand or has asked for |
| `opener[ch]` | the goroutine of `createConfirmChannel` and the offer it makes on the unbuffered `resultChan` |
| `open` | channels that are open as the client library sees them |
| `pool`, `meta`, `old`, `restamped` | `channelPool`; the keys of `channelMeta`; pooled channels past `MaxChannelAge`; channels whose recorded creation time is wrong |
| `conn`, `built`, `toWarm`, `closing` | the connection, the constructor, the loop of `warmChannelPool`, `Close` |
| `call`, `via`, `result` | what a caller asked for, the channel its message went on, what the call returned |
| `answer`, `routed`, `returns` | the broker's answer as the client has seen it, whether a queue was found, the listener of a mandatory publish |

`ChannelPool` has the callers up to the point at which they hold a channel, and from
the point at which they give it up; `Publisher` extends it with what lies between.
The watcher's places are those of `Supervisor`, with `connect` reduced to success or
failure and the pool, which `Supervisor` leaves out, added.

Abstractions. A section under `poolMu` and a whole drain are single steps: a channel
returned in the midst of a drain may as well have been returned before or after it.
Closing a channel is a request without a timer: the process that makes it is at a
place of its own (`"retiring"` a pooled channel, `"discarding"` one that was not set
up or found no room, `"closing"` one it has used) until `CloseChannel`, and
the channel is open that long. The same goes for the declarations of
`DeclareQueueTopology` (`"raw"`, until `DeclareEnds`) and for `Close`, which has
`connMu` while it is `"draining"`; the drain of the pool and the requests it makes are
one step, after which `Close` may hang. Three closings hold nobody up: the one of a
channel that came late, by the goroutine that opened it, and those of the watcher's
drains, whose channels are dead. The pool is a set. A caller makes one
call, and several callers stand for several calls; once a call is over and its
channel closed, nothing can come of it any more and it is forgotten (`Forget`).
Message properties and contents are dropped. The broker answers in the order the
protocol prescribes: an unroutable mandatory message is returned first and
acknowledged then, and the client library's reader hands the answers over in this
order. The timer of `mandatoryReturnWait` starts when its `select` does, so that a
return that is there already is seen first; a return that comes later is missed.
`MaxFaults` bounds lost connections, dying channels, refusals, slow answers and
ageing together.

### Topology

A broker with exchanges, queues with their arguments, and bindings, and any number
of callers of `declareQueueTopology`, whose operations interleave and may fail
between any two. A declaration of a queue that exists with other arguments is
refused, as RabbitMQ does. It is assumed that appending the suffixes `.dlx` and
`.dlq` gives no name that is used otherwise, and that nobody deletes anything.

## 3. Runs

Passing runs:

| run | instance | shows |
|---|---|---|
| `consumer_workers` | 1 consumer with 2 workers and prefetch 3, 2 messages, 3 copies, no dead-letter exchange, 2 faults | no message is lost or dropped early; at most two handlers run; none outlives its session; nothing runs after `Close`; without faults each message goes from one hand to the next (`Once`) and is handled once |
| `consumer_competing` | 2 sequential consumers with prefetch 1, 1 message, 3 copies, 1 fault; retry headers that are out of range, too large, of another type or from another consumer, `MaxInt32 = 2` | the inductive invariant, which implies the same guarantees across consumers; retry counts; that `Consumer` implements `ReliableQueue` |
| `consumer_liveness` | 1 consumer with 2 workers, 1 message, 3 copies, 1 fault | every message is settled, unless its consumers are cancelled or lose their connection for good; `Consume` returns when its context ends and `Close` when it is called, wherever the session, its handlers and the connection are |
| `supervisor` | 4 dials, 2 faults, 1 timeout | a dial's result is handed over or discarded, never both, and `Dial` returns; connections stay managed, none is set up after it was closed, `Close` reaches earlier dials, repair, exit of the watcher; the inductive invariant |
| `publisher` | 2 callers with every kind of call, 2 channels, a pool of 1, 1 fault | a channel has one holder and is never leaked, nor is its entry in `channelMeta`; channels are retired by age; confirmations and returns belong to the call that reports them; the inductive invariant; a call that does not return, and a warm-up that does not end, is held up by a request that has no timer |
| `topology` | a consumer and a publisher that disagree on a queue, 2 consumers that agree on another, 2 failures | a queue never exists without the path of its dead letters; success means complete; callers that agree never conflict and finish |

Runs that are expected to fail check what a document or comment says and the code
does not do (section 6).

Bounds. Two workers with a prefetch window of three, two messages and a retry are
the least with which both workers are busy while a further delivery waits for a
slot (a window no wider than the workers makes the semaphore redundant, since the
broker never sends a third). Two consumers and one fault are the least for a
redelivery elsewhere of something whose first consumer is still busy with it.
Three copies are an original, its retry and a duplicate of that retry, which one lost
confirm makes; `EventuallySettled` needs a copy for each such loss, or the instance would
refuse every further retry.
`MaxFaults` bounds lost connections, refusals and late confirms together; the
proofs have no such bound. The supervisor's bounds let a dial fail, another time
out and the repaired connection be lost again. A pool of one channel (the
default size of the instance, chosen through `normalize`) and two callers are the
least with which the pool can be empty, full, and full when a channel is returned;
two channels let a channel of the warm-up and one of a caller, or of both callers,
compete for that place, before and after a connection is lost; the one
fault is a lost connection, a channel that dies, a refusal, an answer that comes late or
not at all, or a channel grown old, and what several of them do together is left to the
proofs, which have no bound. One caller has a mandatory publish with a confirm, the most
exposed kind, and the other makes any other call before, after or beside it. Symmetry is used in the runs of
safety properties only. In `consumer_liveness` an action constraint, `CopiesInOrder`, has
each new copy be the one that CHOOSE picks: copies are interchangeable, and a step that
makes one can make that one whenever it can be taken, so that the constraint leaves out
renamings only and disables nothing that fairness speaks of. The instance passes without
it as well, in some four minutes.

`CHECK_DEADLOCK FALSE` is set in every run: clients may be closed and then nothing
is left to do.

## 4. Fairness

The specifications called `FairSpec` assume

* weak fairness of goroutines: one that can run runs; handlers return; a timer fires;
* weak fairness of the broker towards a consumer: it delivers what is ready, answers
  the requests that open and close a session, and each end of a connection notices
  (heartbeats) that the other is gone. The requests have no timer, so a broker that
  stays connected and does not answer would hold up the session loop, and with it
  `Consume` and `Close`;
* weak fairness of `Reconnect` in `Consumer`, as long as the context is not done: this
  is `NoticedLossIsRepaired` of `Supervisor`. A connection that is `"lost"` stays so;
* in `Supervisor`, that the broker answers the exchange declaration and the closing of
  a connection, which have no timer either, or the connection is lost;
* strong fairness of `StopOnCancel`: Go's `select` chooses at random among its
  ready cases, so a case that is ready again and again is chosen in the end, but
  weak fairness does not say so since a delivery may be chosen in between.

No fault is ever forced, and none is needed for progress. A handshake (`Supervisor`)
and the opening of a channel (`Publisher`) may stall, for a timeout to end the wait;
they are assumed to end only once the instance's bound on timeouts or faults is used
up, when the model has no timeout left to take.

`Publisher` assumes nothing else of the broker. Its fairness is that of processes that
are not held up: `HeldUp(p)` says that `p` waits for the answer to a request that has no
timer (closing a channel, a declaration, the write of a publish, a connect, whose exchange
declaration has none), or needs `connMu` while a connect or `Close` has it. A broker that
stays connected and has stopped reading may keep a process there for ever. `CallsReturn`
and `WarmingEnds` say that nothing else can: a process that is not held up for ever comes
to its end, and the waits for a channel, for confirm mode, for a confirmation and for a
return end whatever the broker does. The mandatory publish, which always closes its
channel, and `DeclareQueueTopology` are the calls most exposed to it. `HeldUp` names the
places at which `connMu` is held one by one rather than by `ConnMuFree`, so that holding
it for longer, over the warm-up for instance, would break `WarmingEnds`.

## 5. Proofs

Every invariant that a run checks is a theorem, for every value of the constants;
so are the one action property, `OldChannelsRetired`, and the refinement
`ImplementsQueue`. Hardly any of the properties is inductive as it stands. In each module `Inv` is the conjunction of the properties with what
they rest on; the proof that a step preserves it has one case per action and, under it, one per
conjunct the action can disturb, and the properties follow from `Inv`. TLC checks
each `Inv` as well.

| module | theorems | properties |
|---|---|---|
| `ConsumerProof` | `Invariance`, `TypeCorrect`, `MessagesSurvive`, `RetriesBeforeGivingUp`, `CountsBounded`, `SlotsBounded`, `HandlersDrained`, `CloseIsFinal` | `Inv`, `TypeOK`, `NoMessageLost`, `GiveUpOnlyAfterRetries`, `RetryCountBounded`, `HandlersBounded`, `DrainBeforeTeardown`, `QuiescentAfterClose` |
| `ConsumerOnceProof` | `HandToHand`, `NeverMultiplied` | `Once`, `ExactlyOnceWithoutFaults` |
| `ConsumerRefinement` | `Refinement` | `ImplementsQueue` |
| `SupervisorProof` | `Invariance`, `TypeCorrect`, `NoUnmanagedConnection`, `SetUpIsSafe`, `CloseIsThorough`, `NothingDiscardedInTime` | `Inv`, `TypeOK`, `OpenConnectionIsManaged`, `SetUpOnLiveConnection`, `CloseReachesEarlierDials`, `DiscardOnlyLate` |
| `PublisherProof` | `Invariance`, `TypeCorrect`, `ChannelsNotShared`, `ChannelsAccountedFor`, `MetaAccountedFor`, `ConfirmsAreOwn`, `ConfirmedReachedAQueue`, `ReturnsAreOwn`, `OldOnesRetired` | `Inv`, `TypeOK`, `OneHolder`, `NoChannelLeaked`, `MetaNotLeaked`, `ConfirmedIsAcked`, `MandatoryConfirmedIsRouted`, `OwnReturn`, `OldChannelsRetired` |
| `TopologyProof` | `Invariance`, `TypeCorrect`, `PathBeforeQueue`, `CompleteWhenDone`, `SameArgumentsAgree` | `Inv`, `TypeOK`, `DeadLettersNeverVanish`, `DoneIsComplete`, `NoConflictWhenSame` |

`ChannelPoolProof` holds lemmas only: every step of the pool preserves `PoolInv`,
and what such a step leaves alone.

### Consumer

For every set of consumers, messages and copies and any number of workers, retries
and faults. The parts of `Inv` that are not properties themselves:

* `FreshCopies`: a copy that does not exist has no stage, so a retry can never
  overwrite something in hand;
* `SessionsOpen`: outside a session nothing is open or pending, so that opening
  one starts clean and a handler belongs to exactly one session;
* `CloseOrder`: `Close` cancels before it waits, so that a `Consume` call that
  comes late stops at its check;
* `Borne`: stronger than `NoMessageLost`: a message not yet done has a copy that is
  neither replaced by an accepted retry nor about to be acknowledged. The
  existence of some live copy is not preserved by `Ack`; this is, because
  `ConfirmAcked` is possible only after the broker has accepted a successor;
* `RetryBudget`: the failures behind a copy cover the count it carries, at every
  stage between the handler's return and the rejection;
* `DropsJustified`: the same for messages dropped for want of a dead-letter exchange;
* `RetriesLeft`: what is being published again carries a count below `MaxRetries`,
  from which `RetryCountBounded` follows, since the count of the new copy is one
  larger;
* `SlotsMatch`: the slots taken in the semaphore of the current session are those of
  the handlers that run. `Dispatch` looks at that semaphore only, and a new session
  makes an empty one, so that `HandlersBounded` is not what its guard says: the bound
  holds across sessions because `CloseSession` waits for `inflight`, by which no handler
  runs when `OpenSession` starts with no slot taken. The mutant of `HandlersBounded`
  drops that wait;
* `HandlersFinite`: without a prefetch limit a consumer may hold any number of
  deliveries, and only a finite set has the cardinality `HandlersBounded` speaks of;
* `SettledWasPublished` and `HeldWhileLinked`: as long as the broker has a
  consumer's channel, that consumer holds what it works on. Both are for the
  refinement.

`RetryCountBounded` speaks of the copies that exist. Of others the header says
nothing, and with a negative `MaxRetries` even the initial value exceeds the bound.

*Refinement.* Initial states map to the empty queue. `Publish` is a `Send` (a
stutter if the message is unroutable), a handler's success and a rejection are a
`Settle`, the `Ack` of the last copy of a settled message is a `Forget`, and every
other step is a stutter. Three cases need the invariant. A handler may succeed with a
copy the broker has taken back: by `NoMessageLost` the queue still owes a message
that is not settled, so that it can settle it now. An `Ack` removes a copy; if it was
the last, `NoMessageLost` in the next state says that the message is settled, so the
queue may forget it. And an accepted retry does not bring back a message the queue is
rid of: it goes through a channel the broker still has, and by `HeldWhileLinked` the
copy it is made from is still there.

*Once.* `ExactlyOnceWithoutFaults` needs an invariant of its own, which holds only
as long as nothing has failed and nobody shuts down: both ends of a session agree
(`SessionsLast`), what a consumer holds it works on (`NoneForgotten`), and a message
has one copy that is due and none once it is settled or about to be (`OneDue`). Both
theorems have the hypothesis `RetriesConfirmed`: `MaxRetries` is positive, or no
producer sets a retry count below it. It cannot be dropped: with `MaxRetries = 0`
channels have no confirms, and a message with a negative count is published again
and requeued as well (section 6).

### Supervisor and Dial

For any set of attempts and any number of faults and timeouts:

* `DialProgress`: how far the two processes of a call of `Dial` have got, seen from
  both sides. The goroutine sends last of all and once, so that a connection in the
  buffer is one nobody has been given;
* `ConnFromDial`: one call of `Dial` at a time, inside `connect`; the field
  `connection` is one that `Dial` handed over, and is set before anything uses it;
* `ReplacesOnlyDead`: while a connect is under way the connection it will replace
  is not open. `OpenConnectionIsManaged` rests on it: overwriting the field would
  otherwise leave an open connection to nobody;
* `NoEarlierDialLeft`: when `Close` has returned, no dial that began before it is
  still waiting.

### ChannelPool and Publisher

For any number of callers, each with any set of calls to choose from, any pool size
and any number of channels and faults. Of the pool (`PoolInv`):

* `HandsFull`: a process has a channel in hand exactly at the places where the code
  has one in a variable. With it `OneHolder` survives each change of hands, since
  one who takes a channel has none;
* `OpenersMatch`: whoever waits for a channel has an opener that has not ended, and
  whatever is in use or pooled has one that has; a channel is offered once;
* `NoneWithoutConnection`: without a connection nothing is open and no opener is
  still to succeed, so that a channel of an earlier connection never turns up in
  the pool of the next one;
* `MetaMatches`: `channelMeta` knows what `GetChannel` handed out, so that
  `ReturnChannel` never makes up a creation time, and knows nothing that
  `createConfirmChannel` may still discard.

Of the calls:

* `NothingBeforeSend`: before its message is sent a call has no answer and no result;
* `ListenerInHand`: a channel with a listener for returns stays in its caller's hand
  until it is closed. With `OneHolder` an open channel has at most one listener
  (lemma `OneListener`), which is why a return reaches the call it belongs to, even
  though the client library gives it to every listener of the channel;
* `SentOnOpened`: a message was sent on a channel that had been handed over, which
  does not reopen once it is closed, so that a late answer cannot come on it;
* `ReturnKept`: a return that has come is in the listener, and is there before the
  acknowledgement;
* `ConfirmFirst`: a call that waits for a return after its confirm has that confirm.
  The last two give `MandatoryConfirmedIsRouted`: when the wait for a return ends
  without one, the message had a queue.

`OldChannelsRetired` follows from `MetaMatches`, by which the recorded age of a pooled
channel is its age. `NoChannelLeaked` counts a channel in the pool as accounted for; one
that `returnPooled` puts there after `Close` has drained the pool, having looked at
`p.closed` before, is not drained again: it goes down with its connection, which `Close`
closes unless a reconnect has slipped past it (`CloseLeavesNothingOpen`, section 6).

### Topology

For any callers, names, keys and failures. `Progress` (what a caller has declared so
far is there) and `ArgsFromDeclarer` (a queue has the arguments of one of its
callers) are the strengthenings needed.

### Assumptions

Of the constants only what the `ASSUME`s of the modules say; TLC evaluates them in
every run. `ConsumerAssumption`, `SupervisorAssumption`, `DialAssumption`,
`PoolAssumption`, `PublisherAssumption`, `TopologyAssumption` and
`MaxInt32Assumption` give types, and say that names do not clash: a consumer is not
the name of a place, the watcher is not a caller, a caller is not the mark of an
empty listener, no attempt is `NoConn`. Configured sizes and limits that the code
does not validate (`MaxRetries`, `ChannelPoolSize`, `ReconnectMaxBackoff`) are any
integers.

### Only model-checked

Liveness: `EventuallySettled`, `CancelStopsConsume`, `CloseCompletes`,
`NoticedLossIsRepaired`, `WatcherExits`, `DialReturns`, `CallsReturn`, `WarmingEnds`
and `EventuallyDeclared` depend on fairness, that is on ENABLED, which is out of the
prover's reach.

## 6. Where the documentation and the code disagree

Each of these has a run that TLC refutes; `PROJECT.json` quotes the lines.

* `AtLeastOnce`: a retry is published without `mandatory`; the broker confirms a
  copy it cannot route, and the original is acknowledged.
* `LateConnectionDiscarded`: the result channel of `Dial` has a buffer, so that the
  branch that discards a late connection is never taken.
* `EveryLossIsRepaired`: a connection lost before `NotifyClose` is registered looks
  as if it had been closed gracefully, and the watcher ends.
* `CloseLeavesNothingOpen`: `reconnect` does not look at the signal to stop between
  its sleep and `connect`.
* `ReturnedMeansUnroutable`: a channel that goes down while a mandatory publish waits
  closes the listener, and the zero value read from it is reported as a return.
* `NoConflict`: the routing key is part of a queue's arguments, so the README's own
  publisher and consumer examples conflict.

Some smaller ones come from reading the code. The model has them as they are, without
a run of their own:

* the retry count is what the message's header says (`RetriesExhausted`), so a message
  that brings one along, from its producer or from the retries of another queue's
  consumer, is dead-lettered after fewer redeliveries than the `MaxRetries` of
  `config.go:78`;
* the first interval of `reconnect` is not compared with `ReconnectMaxBackoff`
  (`Watch` sets it, `CheckStopped` goes to sleep), which "caps the exponential reconnect backoff" (`config.go:117`): with
  a cap below one second the first sleep exceeds it;
* after `ConfirmEnableTimeout` the channel is closed by a request that has no timer
  (`"discarding"`, until `CloseChannel`), so that not each step of `createConfirmChannel`
  is "bounded by its configured timeout" (`pool.go:69`);
* a mandatory publish that does not wait for the confirm reports success if the return
  takes longer than `mandatoryReturnWait` (`ReturnWaitPasses`, then `BrokerReturns`). This
  is why `MandatoryConfirmedIsRouted` is about the calls that set both flags;
* `ConsumeResult.Acked` is reported even if the `Ack` failed (action `Ack`, where the
  acknowledgement may have no effect);
* with `MaxRetries = 0` a message with a negative retry count is published again, without
  confirms, and requeued as well (`AfterRepublish`).

## 7. Not modelled

Error wrapping, the instrumentation interfaces, the OpenTelemetry implementation
and logging have no control logic: they observe. `MaskURL` is a pure function on the
characters of a string, used for log lines. Configuration is read once, before
anything runs: the defaults of the pool size and of the backoff cap are modelled, the
other fields enter the modules as constants or are abstracted, and `validate` only
refuses a configuration before anything exists. The validation of a message before
it is published, and the fields it is given, are left out for the same reason: they
touch no state. A retry that is routed to further queues than its own is a new
message there, with a retry header from elsewhere; `consumer_competing` has such a
header among its inputs, and the fan-out itself is the broker's. `amqp091-go` and the broker
are external and modelled by what the library relies on. Time is abstracted: a
timeout may happen at any moment.

## 8. Plan

What is modelled covers the library's control logic, and every safety property the
runs check is proved. What could be added:

1. an abstract specification of the pool (a bag of channels of the current
   connection, with one holder each) that `ChannelPool` implements, as `Consumer`
   implements `ReliableQueue`;
2. the step between `Supervisor`, which has `connect` in full, and the watcher of
   `ChannelPool`, which has it as one step: that the latter is an abstraction of the
   former;
3. more action properties of `Consumer`, such as that a settled copy never moves
   again, as consequences of `Inv`.
