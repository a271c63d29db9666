---------------------------- MODULE ChannelPool ----------------------------
(***************************************************************************)
(* The publisher's cache of confirm-enabled channels (pkg/rabbitmq/pool.go) *)
(* and what competes for it: callers that borrow and return channels, the  *)
(* watcher that drains, replaces and warms the pool around a reconnect, and *)
(* Close.  Module Publisher adds what callers do with a channel.           *)
(*                                                                         *)
(* Every section under poolMu is free of blocking calls, so it is one step, *)
(* and so is a drain: a channel returned meanwhile may as well have been   *)
(* returned before it, or after.  connMu is held by the watcher while it   *)
(* is "connecting" and by Close while it is "draining".                    *)
(*                                                                         *)
(* Closing a channel is a request that the broker answers and that has no  *)
(* timer, so a process that closes one is at a place of its own until the  *)
(* answer comes, or the channel dies; it stays open that long.             *)
(*                                                                         *)
(* The pool is a Go channel; that it hands out the oldest entry first      *)
(* matters to nothing here, so it is a set.  It is never nil once the      *)
(* constructor has returned.                                               *)
(***************************************************************************)
EXTENDS Integers, FiniteSets

CONSTANTS
    Callers,            \* goroutines that call the publisher, once each
    Watcher,            \* the constructor, and then the watchConnection goroutine
    MaxChannels,        \* bound on the channels that can ever be opened
    ChannelPoolSize,    \* Config.ChannelPoolSize as the application set it
    DefaultPoolSize,    \* defaultChannelPoolSize
    MaxFaults           \* bound on losses, refusals, slow answers and aged channels

ASSUME PoolAssumption ==
    /\ Watcher \notin Callers
    /\ MaxChannels \in Nat
    /\ ChannelPoolSize \in Int
    /\ DefaultPoolSize \in Nat \ {0}
    /\ MaxFaults \in Nat

Channels == 1 .. MaxChannels
NoChannel == 0
Processes == Callers \cup {Watcher}

\* normalize.
PoolSize == IF ChannelPoolSize <= 0 THEN DefaultPoolSize ELSE ChannelPoolSize

VARIABLES
    pc,         \* where each process is
    has,        \* the channel it has in hand, or is having opened
    opener,     \* the goroutine that opens a channel
    open,       \* channels that are open, as the client library sees them
    pool,       \* p.channelPool
    meta,       \* the keys of p.channelMeta
    old,        \* pooled channels older than MaxChannelAge
    restamped,  \* channels whose recorded creation time is not the real one
    conn,       \* p.connection: "up", "lost" or "closed" by Close
    built,      \* the constructor has returned
    toWarm,     \* iterations warmChannelPool has left
    closing,    \* Close: "no", "signalled" (told to stop), "draining", "closed"
    faults      \* faults that have happened

channelVars == <<opener, open>>
storeVars == <<pool, meta, old, restamped>>
clientVars == <<conn, built, toWarm, closing>>
poolVars == <<pc, has, channelVars, storeVars, clientVars, faults>>

\* borrowChannel: "borrow", "retiring" a pooled channel, then "create", "opening",
\* "confirming", "discarding" if a channel has to be created; "holding": it returned
\* one; "raw": GetChannel did; "returning": in ReturnChannel; "checking", "storing":
\* in returnPooled; "closing": closing its channel instead.
CallerPlaces == {"idle", "borrow", "retiring", "create", "opening", "confirming", "discarding",
                 "holding", "raw", "returning", "checking", "storing", "closing", "done", "failed"}

\* "warm", "store": in warmChannelPool; the rest as in module Supervisor.
WatcherPlaces == {"warm", "create", "opening", "confirming", "discarding", "store", "register",
                  "watching", "reconnect", "sleeping", "connecting", "exited"}

OpenerStates == {"unused", "requested", "offered", "refused", "ended"}

PoolInit ==
    /\ pc = [p \in Processes |-> IF p = Watcher THEN "warm" ELSE "idle"]
    /\ has = [p \in Processes |-> NoChannel]
    /\ opener = [ch \in Channels |-> "unused"]
    /\ open = {} /\ pool = {} /\ meta = {} /\ old = {} /\ restamped = {}
    /\ conn = "up"
    /\ built = FALSE
    /\ toWarm = PoolSize
    /\ closing = "no"
    /\ faults = 0

GoTo(p, place) == pc' = [pc EXCEPT ![p] = place]
Take(p, ch) == has' = [has EXCEPT ![p] = ch]
Opener(ch, state) == opener' = [opener EXCEPT ![ch] = state]

Fault == faults < MaxFaults /\ faults' = faults + 1

ToldToStop == closing # "no"
ConnMuFree == pc[Watcher] # "connecting" /\ closing # "draining"

----------------------------------------------------------------------------
(* createConfirmChannel.                                                   *)

\* It returns nil: the caller's operation fails, the warm-up goes on.
AfterFailure(p) == IF p = Watcher THEN "warm" ELSE "failed"

CreateFails(p) ==
    /\ GoTo(p, AfterFailure(p))
    /\ Take(p, NoChannel)

IsNext(ch) ==
    /\ opener[ch] = "unused"
    /\ \A d \in Channels : d < ch => opener[d] # "unused"

\* A goroutine is started that opens a channel on the current connection.
RequestChannel(p, ch) ==
    /\ pc[p] = "create"
    /\ ConnMuFree
    /\ conn = "up"
    /\ IsNext(ch)
    /\ Opener(ch, "requested")
    /\ GoTo(p, "opening")
    /\ Take(p, ch)
    /\ UNCHANGED <<open, storeVars, clientVars, faults>>

\* No connection; or no channel is left, which the broker refuses.
NoChannelToRequest(p) ==
    /\ pc[p] = "create"
    /\ ConnMuFree
    /\ conn # "up" \/ \A ch \in Channels : opener[ch] # "unused"
    /\ CreateFails(p)
    /\ UNCHANGED <<channelVars, storeVars, clientVars, faults>>

\* conn.Channel() returns a channel, in time or not, ...
ChannelOpens(ch) ==
    /\ opener[ch] = "requested"
    /\ Opener(ch, "offered")
    /\ open' = open \cup {ch}
    /\ UNCHANGED <<pc, has, storeVars, clientVars, faults>>

\* ... or an error.
ChannelRefused(ch) ==
    /\ opener[ch] = "requested"
    /\ Fault
    /\ Opener(ch, "refused")
    /\ UNCHANGED <<pc, has, open, storeVars, clientVars>>

WaitsFor(p, ch) == pc[p] = "opening" /\ has[p] = ch

\* Both sides meet on the unbuffered resultChan.
ReceiveChannel(p) ==
    /\ pc[p] = "opening"
    /\ opener[has[p]] \in {"offered", "refused"}
    /\ Opener(has[p], "ended")
    /\ IF opener[has[p]] = "offered"
       THEN GoTo(p, "confirming") /\ UNCHANGED has
       ELSE CreateFails(p)
    /\ UNCHANGED <<open, storeVars, clientVars, faults>>

CreateTimesOut_Mutant(p) == FALSE

\* ChannelCreateTimeout passes: close(done).
CreateTimesOut(p) ==
    /\ pc[p] = "opening"
    /\ Fault
    /\ CreateFails(p)
    /\ UNCHANGED <<channelVars, storeVars, clientVars>>

\* The goroutine ends without closing the channel nobody waits for.
DiscardLate_Mutant(ch) ==
    /\ opener[ch] \in {"offered", "refused"}
    /\ \A p \in Processes : ~WaitsFor(p, ch)
    /\ Opener(ch, "ended")
    /\ UNCHANGED <<pc, has, open, storeVars, clientVars, faults>>

\* <-done in the goroutine.
DiscardLate(ch) ==
    /\ opener[ch] \in {"offered", "refused"}
    /\ \A p \in Processes : ~WaitsFor(p, ch)
    /\ Opener(ch, "ended")
    /\ open' = open \ {ch}
    /\ UNCHANGED <<pc, has, storeVars, clientVars, faults>>

\* ch.Confirm succeeds ...
ConfirmEnabled(p) ==
    /\ pc[p] = "confirming"
    /\ has[p] \in open
    /\ GoTo(p, IF p = Watcher THEN "store" ELSE "holding")
    /\ UNCHANGED <<has, channelVars, storeVars, clientVars, faults>>

\* ... or fails, or ConfirmEnableTimeout passes.
ConfirmNotEnabled(p) ==
    /\ pc[p] = "confirming"
    /\ IF has[p] \in open THEN Fault ELSE UNCHANGED faults
    /\ GoTo(p, "discarding")
    /\ UNCHANGED <<has, channelVars, storeVars, clientVars>>

----------------------------------------------------------------------------
(* ch.Close().                                                             *)

\* The process is rid of its channel, and channelMeta of its entry, which a channel
\* that createConfirmChannel gives up on does not have.
LetGo(p, place) ==
    /\ GoTo(p, place)
    /\ Take(p, NoChannel)
    /\ open' = open \ {has[p]}
    /\ meta' = meta \ {has[p]}

AfterClose(p) ==
    CASE pc[p] = "retiring" -> "create"
      [] pc[p] = "discarding" -> AfterFailure(p)
      [] pc[p] = "closing" -> "done"

\* The broker has answered, or the channel is found dead.
CloseChannel(p) ==
    /\ pc[p] \in {"retiring", "discarding", "closing"}
    /\ LetGo(p, AfterClose(p))
    /\ UNCHANGED <<opener, pool, old, restamped, clientVars, faults>>

----------------------------------------------------------------------------
(* borrowChannel, GetChannel.                                              *)

\* The publisher is asked for a channel; it looks at p.closed.
AskForChannel(c) ==
    /\ built
    /\ pc[c] = "idle"
    /\ GoTo(c, IF ToldToStop THEN "failed" ELSE "borrow")
    /\ UNCHANGED <<has, channelVars, storeVars, clientVars, faults>>

\* time.Since(pch.createdAt) > MaxChannelAge.
TooOld(ch) == ch \in old \ restamped

\* A channel from the pool; a closed or an old one is to be closed and replaced.
BorrowPooled(c, ch) ==
    /\ pc[c] = "borrow"
    /\ ch \in pool
    /\ pool' = pool \ {ch}
    /\ old' = old \ {ch}
    /\ Take(c, ch)
    /\ GoTo(c, IF ch \in open /\ ~TooOld(ch) THEN "holding" ELSE "retiring")
    /\ UNCHANGED <<channelVars, meta, restamped, clientVars, faults>>

BorrowNew(c) ==
    /\ pc[c] = "borrow"
    /\ pool = {}
    /\ GoTo(c, "create")
    /\ UNCHANGED <<has, channelVars, storeVars, clientVars, faults>>

\* GetChannel records the creation time and hands out the bare channel.
GetChannel(c) ==
    /\ pc[c] = "holding"
    /\ GoTo(c, "raw")
    /\ meta' = meta \cup {has[c]}
    /\ UNCHANGED <<has, channelVars, pool, old, restamped, clientVars, faults>>

----------------------------------------------------------------------------
(* ReturnChannel, returnPooled.                                            *)

\* Without looking at channelMeta.
ReturnChannel_Mutant(c) ==
    /\ pc[c] = "returning"
    /\ IF has[c] \notin open
       THEN LetGo(c, "done") /\ UNCHANGED restamped
       ELSE GoTo(c, "checking") /\ UNCHANGED <<has, open, meta>> /\ restamped' = restamped \cup {has[c]}
    /\ UNCHANGED <<opener, pool, old, clientVars, faults>>

\* ReturnChannel: the creation time is looked up, or else it is now.
ReturnChannel(c) ==
    /\ pc[c] = "returning"
    /\ IF has[c] \notin open
       THEN LetGo(c, "done") /\ UNCHANGED restamped
       ELSE /\ GoTo(c, "checking")
            /\ restamped' = IF has[c] \in meta THEN restamped ELSE restamped \cup {has[c]}
            /\ UNCHANGED <<has, open, meta>>
    /\ UNCHANGED <<opener, pool, old, clientVars, faults>>

\* returnPooled looks at the channel and at p.closed ...
CheckReturn(c) ==
    /\ pc[c] = "checking"
    /\ GoTo(c, IF has[c] \notin open \/ ToldToStop THEN "closing" ELSE "storing")
    /\ UNCHANGED <<has, channelVars, storeVars, clientVars, faults>>

HasRoom_Mutant == TRUE
HasRoom == Cardinality(pool) < PoolSize

\* The deferred function of publish goes on to close what it has just returned.
StoreReturn_Mutant(c) ==
    /\ pc[c] = "storing"
    /\ HasRoom
    /\ pool' = pool \cup {has[c]}
    /\ GoTo(c, "closing")
    /\ UNCHANGED <<has, channelVars, meta, old, restamped, clientVars, faults>>

\* ... and then puts the channel into whatever pool there is now.
StoreReturn(c) ==
    /\ pc[c] = "storing"
    /\ IF HasRoom
       THEN /\ pool' = pool \cup {has[c]}
            /\ GoTo(c, "done")
            /\ Take(c, NoChannel)
       ELSE GoTo(c, "closing") /\ UNCHANGED <<has, pool>>
    /\ UNCHANGED <<channelVars, meta, old, restamped, clientVars, faults>>

----------------------------------------------------------------------------
(* warmChannelPool, watchConnection, reconnect.                            *)

WarmNext ==
    /\ pc[Watcher] = "warm"
    /\ IF toWarm > 0
       THEN toWarm' = toWarm - 1 /\ GoTo(Watcher, "create") /\ UNCHANGED built
       ELSE built' = TRUE /\ GoTo(Watcher, "register") /\ UNCHANGED toWarm
    /\ UNCHANGED <<has, channelVars, storeVars, conn, closing, faults>>

\* A send that blocks while the pool is full.
StoreWarm_Mutant ==
    /\ pc[Watcher] = "store"
    /\ HasRoom
    /\ GoTo(Watcher, "warm")
    /\ Take(Watcher, NoChannel)
    /\ pool' = pool \cup {has[Watcher]}
    /\ UNCHANGED <<channelVars, meta, old, restamped, clientVars, faults>>

\* The select with a default: the channel is stored, or closed if there is no room.
StoreWarm ==
    /\ pc[Watcher] = "store"
    /\ IF HasRoom
       THEN /\ pool' = pool \cup {has[Watcher]}
            /\ GoTo(Watcher, "warm")
            /\ Take(Watcher, NoChannel)
       ELSE GoTo(Watcher, "discarding") /\ UNCHANGED <<has, pool>>
    /\ UNCHANGED <<channelVars, meta, old, restamped, clientVars, faults>>

\* The top of the loop: closeChan, then NotifyClose, whose listener is closed at
\* once, as after a graceful close, on a connection that is down already.
Register ==
    /\ pc[Watcher] = "register"
    /\ GoTo(Watcher, IF ToldToStop \/ conn # "up" THEN "exited" ELSE "watching")
    /\ UNCHANGED <<has, channelVars, storeVars, clientVars, faults>>

\* The entries of channelMeta are forgotten.
DrainPool_Mutant ==
    /\ pool' = {} /\ old' = {}
    /\ open' = open \ pool
    /\ UNCHANGED meta

DrainPool ==
    /\ pool' = {} /\ old' = {}
    /\ open' = open \ pool
    /\ meta' = meta \ pool

\* The select: told to stop, closed gracefully, or lost with an error.
Watch ==
    /\ pc[Watcher] = "watching"
    /\ \/ (ToldToStop \/ conn = "closed") /\ GoTo(Watcher, "exited") /\ UNCHANGED <<open, pool, meta, old>>
       \/ conn = "lost" /\ DrainPool /\ GoTo(Watcher, "reconnect")
    /\ UNCHANGED <<has, opener, restamped, clientVars, faults>>

\* reconnect: the check at the top of its loop, then the sleep.
CheckStopped ==
    /\ pc[Watcher] = "reconnect"
    /\ GoTo(Watcher, IF ToldToStop THEN "exited" ELSE "sleeping")
    /\ UNCHANGED <<has, channelVars, storeVars, clientVars, faults>>

\* sleepOrClosed; then establishConnection takes connMu ...
Sleep ==
    /\ pc[Watcher] = "sleeping"
    /\ \/ closing # "draining" /\ GoTo(Watcher, "connecting")
       \/ ToldToStop /\ GoTo(Watcher, "exited")
    /\ UNCHANGED <<has, channelVars, storeVars, clientVars, faults>>

\* ... and replaces the connection and the pool, draining the old one, ...
ConnectSucceeds ==
    /\ pc[Watcher] = "connecting"
    /\ conn' = "up"
    /\ DrainPool
    /\ toWarm' = PoolSize
    /\ GoTo(Watcher, "warm")
    /\ UNCHANGED <<has, opener, restamped, built, closing, faults>>

\* ... or fails.
ConnectFails ==
    /\ pc[Watcher] = "connecting"
    /\ Fault
    /\ GoTo(Watcher, "reconnect")
    /\ UNCHANGED <<has, channelVars, storeVars, clientVars>>

----------------------------------------------------------------------------
(* Close, and the environment.                                             *)

\* p.closed is set and closeChan closed.
Close ==
    /\ built
    /\ closing = "no"
    /\ closing' = "signalled"
    /\ UNCHANGED <<pc, has, channelVars, storeVars, conn, built, toWarm, faults>>

\* The connection goes down, its channels and the requests for more with it.
ConnectionDown(state) ==
    /\ conn' = state
    /\ open' = {}
    /\ opener' = [ch \in Channels |-> IF opener[ch] = "requested" THEN "refused" ELSE opener[ch]]

\* connMu is taken and the pool drained ...
CloseDrains ==
    /\ closing = "signalled"
    /\ ConnMuFree
    /\ closing' = "draining"
    /\ DrainPool
    /\ UNCHANGED <<pc, has, opener, restamped, conn, built, toWarm, faults>>

\* ... and, when the broker has answered that too, the connection is closed.
CloseReturns ==
    /\ closing = "draining"
    /\ closing' = "closed"
    /\ IF conn = "up" THEN ConnectionDown("closed") ELSE UNCHANGED <<conn, channelVars>>
    /\ UNCHANGED <<pc, has, storeVars, built, toWarm, faults>>

LoseConnection ==
    /\ conn = "up"
    /\ Fault
    /\ ConnectionDown("lost")
    /\ UNCHANGED <<pc, has, storeVars, built, toWarm, closing>>

\* The broker closes a channel after an exception.
ChannelDies(ch) ==
    /\ ch \in open
    /\ Fault
    /\ open' = open \ {ch}
    /\ UNCHANGED <<pc, has, opener, storeVars, clientVars>>

\* MaxChannelAge passes.  Age is looked at when a channel is borrowed, so that it
\* is enough to let channels in the pool grow old.
GrowOld(ch) ==
    /\ ch \in (pool \cap open) \ old
    /\ Fault
    /\ old' = old \cup {ch}
    /\ UNCHANGED <<pc, has, channelVars, pool, meta, restamped, clientVars>>

----------------------------------------------------------------------------
\* createConfirmChannel, and what closes a channel.
CreateStep(p) ==
    \/ \E ch \in Channels : RequestChannel(p, ch)
    \/ NoChannelToRequest(p)
    \/ ReceiveChannel(p) \/ CreateTimesOut(p)
    \/ ConfirmEnabled(p) \/ ConfirmNotEnabled(p)
    \/ CloseChannel(p)

OpenerStep(ch) == ChannelOpens(ch) \/ ChannelRefused(ch) \/ DiscardLate(ch)

BorrowStep(c) == BorrowNew(c) \/ \E ch \in Channels : BorrowPooled(c, ch)

ReturnStep(c) == ReturnChannel(c) \/ CheckReturn(c) \/ StoreReturn(c)

WatcherStep ==
    \/ WarmNext \/ StoreWarm
    \/ Register \/ Watch
    \/ CheckStopped \/ Sleep
    \/ ConnectSucceeds \/ ConnectFails

\* What a caller does in pool.go ...
CallerStep(c) == CreateStep(c) \/ BorrowStep(c) \/ ReturnStep(c)

\* ... and what goes on beside it.
BackgroundStep ==
    \/ CreateStep(Watcher) \/ WatcherStep
    \/ Close \/ CloseDrains \/ CloseReturns
    \/ LoseConnection
    \/ \E ch \in Channels : OpenerStep(ch) \/ ChannelDies(ch) \/ GrowOld(ch)

----------------------------------------------------------------------------
(* Properties.                                                             *)

\* The type of every variable, and that a pool never exceeds the size of the Go
\* channel it is (establishConnection).
PoolTypeOK ==
    /\ pc \in [Processes -> CallerPlaces \cup WatcherPlaces \cup {"awaitConfirm", "awaitReturn"}]
    /\ has \in [Processes -> Channels \cup {NoChannel}]
    /\ opener \in [Channels -> OpenerStates]
    /\ open \subseteq Channels
    /\ pool \subseteq Channels /\ Cardinality(pool) <= PoolSize
    /\ meta \subseteq Channels /\ old \subseteq pool /\ restamped \subseteq Channels
    /\ conn \in {"up", "lost", "closed"}
    /\ built \in BOOLEAN
    /\ toWarm \in 0 .. PoolSize
    /\ closing \in {"no", "signalled", "draining", "closed"}
    /\ faults \in 0 .. MaxFaults

Held == {has[p] : p \in Processes} \ {NoChannel}

\* Channels are not safe for concurrent publishing with confirms: none is in two
\* hands, or in a hand and in the pool, however borrowing, returning, warming,
\* draining and replacing interleave (borrowChannel, publish's deferred function).
OneHolder ==
    \A p \in Processes : has[p] # NoChannel =>
        /\ has[p] \notin pool
        /\ \A q \in Processes \ {p} : has[q] # has[p]

\* No open channel is without someone who will use or close it: it is in somebody's
\* hand, in the pool, or with the goroutine that has just opened it, even if that
\* one was given up on ("case <-done", createConfirmChannel).
NoChannelLeaked ==
    \A ch \in open : ch \in Held \cup pool \/ opener[ch] = "offered"

\* channelMeta has no entry for a channel the publisher is rid of (drainPool,
\* returnPooled, borrowChannel).
MetaNotLeaked == meta \subseteq Held \cup pool

\* "MaxChannelAge: total channel lifetime before replacement": a channel that is
\* borrowed from the pool for use is not too old, even if GetChannel and ReturnChannel
\* have passed it through the application in between (channelMeta).
OldChannelsRetired ==
    [][\A c \in Callers : pc[c] = "borrow" /\ pc'[c] = "holding" => has'[c] \notin old]_poolVars

----------------------------------------------------------------------------
(* The inductive invariant behind the safety properties.                   *)

\* Where a process has a channel in hand.
HoldingPlaces == {"retiring", "opening", "confirming", "discarding", "holding", "raw", "returning",
                  "checking", "storing", "closing", "store", "awaitConfirm", "awaitReturn"}

HandsFull == \A p \in Processes : has[p] # NoChannel <=> pc[p] \in HoldingPlaces

\* A channel is in use, or in the pool, only after its opener has handed it over, and
\* it opens only once.
OpenersMatch ==
    /\ \A p \in Processes : has[p] # NoChannel =>
          IF pc[p] = "opening" THEN opener[has[p]] \in {"requested", "offered", "refused"}
                               ELSE opener[has[p]] = "ended"
    /\ \A ch \in pool : opener[ch] = "ended"
    /\ \A ch \in open : opener[ch] \in {"offered", "ended"}

\* No channel outlives its connection, and none is on its way without one.
NoneWithoutConnection ==
    conn # "up" => open = {} /\ \A ch \in Channels : opener[ch] # "requested"

\* channelMeta knows the channels that GetChannel handed out, so that no creation time
\* is made up, and none that createConfirmChannel may still discard.
MetaMatches ==
    /\ restamped = {}
    /\ \A p \in Processes :
          /\ pc[p] \in {"raw", "returning"} => has[p] \in meta
          /\ pc[p] \in {"opening", "confirming", "store"} => has[p] \notin meta

\* What every step of the pool, the callers and the watcher preserves.
PoolInv ==
    /\ PoolTypeOK
    /\ HandsFull
    /\ OneHolder
    /\ OpenersMatch
    /\ NoneWithoutConnection
    /\ NoChannelLeaked
    /\ MetaNotLeaked
    /\ MetaMatches
=============================================================================
