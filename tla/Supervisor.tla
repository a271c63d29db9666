----------------------------- MODULE Supervisor -----------------------------
(***************************************************************************)
(* The supervision of a connection, which Publisher and Consumer share in  *)
(* structure: the constructor's connect, watchConnection, reconnect with   *)
(* its backoff, and Close.  It is composed with Dial: connect calls it     *)
(* while holding connMu, and its goroutines run on beside the watcher.     *)
(*                                                                         *)
(* One client is modelled.  "Told to stop" is closeChan closed (publisher) *)
(* or the context done (consumer); that the consumer's Close waits for the *)
(* running Consume calls in between is the subject of module Consumer.     *)
(***************************************************************************)
EXTENDS Dial

CONSTANTS
    InitialBackoff,     \* initialReconnectBackoff, in some unit of time
    ReconnectMaxBackoff,\* Config.ReconnectMaxBackoff as set, in the same unit
    DefaultMaxBackoff,  \* defaultReconnectMaxBackoff
    SkipExchangeDeclare,\* Config.SkipExchangeDeclare
    MaxTimeouts,        \* bound on dials that time out
    NoConn              \* the nil connection

ASSUME SupervisorAssumption ==
    /\ InitialBackoff \in Nat \ {0}
    /\ ReconnectMaxBackoff \in Int
    /\ DefaultMaxBackoff \in Nat \ {0}
    /\ SkipExchangeDeclare \in BOOLEAN
    /\ MaxTimeouts \in Nat
    /\ NoConn \notin Attempts

\* normalize.
MaxBackoff == IF ReconnectMaxBackoff <= 0 THEN DefaultMaxBackoff ELSE ReconnectMaxBackoff

VARIABLES
    conn,       \* the field connection
    pc,         \* where the constructor, and later the watcher goroutine, is
    built,      \* the constructor has returned a client
    closing,    \* Close: "no", "signalled" (told to stop), "closed" (returned)
    backoff,    \* the local variable of reconnect
    timeouts,   \* dials that timed out
    late        \* attempts begun after Close told the client to stop (history)

ownVars == <<conn, pc, built, closing, backoff, timeouts, late>>
vars == <<dialVars, ownVars>>

\* "connect": about to lock connMu; "dialing", "declaring": inside, holding it;
\* "warming": lock released, connect about to return; "register": at the top of
\* watchConnection's loop; "watching": in its select; "reconnect": at the top of
\* reconnect's loop; "sleeping": in its sleep; "exited": watchConnection (or a
\* failed constructor) has returned.
Places == {"connect", "dialing", "declaring", "warming", "register", "watching",
           "reconnect", "sleeping", "exited"}

Init ==
    /\ DialInit
    /\ conn = NoConn
    /\ pc = "connect"
    /\ built = FALSE
    /\ closing = "no"
    /\ backoff = InitialBackoff
    /\ timeouts = 0
    /\ late = {}

ToldToStop == closing # "no"

ConnIs(s) == conn # NoConn /\ sock[conn] = s

LockHeld == pc \in {"dialing", "declaring"}

GoTo(p) == pc' = p

----------------------------------------------------------------------------
(* connect, establishConnection.                                           *)

\* connMu is taken and Dial called.
BeginConnect(a) ==
    /\ pc = "connect"
    /\ DialStart(a)
    /\ late' = IF ToldToStop THEN late \cup {a} ELSE late
    /\ GoTo("dialing")
    /\ UNCHANGED <<conn, built, closing, backoff, timeouts>>

\* The backoff after another failure.
NextBackoff_Halved == backoff \div 2
NextBackoff == IF 2 * backoff > MaxBackoff THEN MaxBackoff ELSE 2 * backoff

\* connect returns an error to the constructor, which gives up without a client,
\* or to reconnect, which doubles its backoff and tries again.
ConnectFails_Mutant ==
    /\ GoTo(IF built THEN "register" ELSE "exited")
    /\ UNCHANGED backoff

ConnectFails ==
    /\ GoTo(IF built THEN "reconnect" ELSE "exited")
    /\ backoff' = IF built THEN NextBackoff ELSE backoff

DialSucceeds(a) ==
    /\ pc = "dialing"
    /\ ReceiveResult(a) /\ caller'[a] = "returned"
    /\ conn' = a
    /\ GoTo("declaring")
    /\ UNCHANGED <<built, closing, backoff, timeouts, late>>

DialFails(a) ==
    /\ pc = "dialing"
    /\ ReceiveResult(a) /\ caller'[a] = "failed"
    /\ ConnectFails
    /\ UNCHANGED <<conn, built, closing, timeouts, late>>

DialTimesOut(a) ==
    /\ pc = "dialing"
    /\ timeouts < MaxTimeouts
    /\ timeouts' = timeouts + 1
    /\ Timeout(a)
    /\ ConnectFails
    /\ UNCHANGED <<conn, built, closing, late>>

\* connection.Close(), which is a no-op on one that is lost already.
CloseSock(a) == sock' = [sock EXCEPT ![a] = IF @ = "open" THEN "closed" ELSE @]

\* DeclareExchange succeeds, or is skipped; the pool is replaced.
DeclareExchange ==
    /\ pc = "declaring"
    /\ SkipExchangeDeclare \/ sock[conn] = "open"
    /\ GoTo("warming")
    /\ UNCHANGED <<dialVars, conn, built, closing, backoff, timeouts, late>>

\* Without the conn.Close() on this path.
DeclareExchangeFails_Mutant ==
    /\ pc = "declaring"
    /\ ~SkipExchangeDeclare
    /\ IF sock[conn] = "open" THEN Fault ELSE UNCHANGED faults
    /\ ConnectFails
    /\ UNCHANGED <<caller, dialer, buf, sock, conn, built, closing, timeouts, late>>

\* It fails, the connection lost or not: the connection is closed again.
DeclareExchangeFails ==
    /\ pc = "declaring"
    /\ ~SkipExchangeDeclare
    /\ IF sock[conn] = "open" THEN Fault ELSE UNCHANGED faults
    /\ CloseSock(conn)
    /\ ConnectFails
    /\ UNCHANGED <<caller, dialer, buf, conn, built, closing, timeouts, late>>

\* The publisher has warmed its pool, whether or not that worked; connect returns
\* nil to the constructor, which starts the watcher, or to reconnect.
ConnectReturns ==
    /\ pc = "warming"
    /\ built' = TRUE
    /\ GoTo("register")
    /\ UNCHANGED <<dialVars, conn, closing, backoff, timeouts, late>>

----------------------------------------------------------------------------
(* watchConnection.                                                        *)

\* The publisher looks at closeChan at the top of the loop; then NotifyClose is
\* called.  On a connection that is down already the client library closes the
\* new listener at once, which reads as a graceful close.
Register ==
    /\ pc = "register"
    /\ \/ ToldToStop /\ GoTo("exited")
       \/ sock[conn] = "open" /\ GoTo("watching")
       \/ sock[conn] # "open" /\ GoTo("exited")
    /\ UNCHANGED <<dialVars, conn, built, closing, backoff, timeouts, late>>

\* Without the case <-closeChan, <-ctx.Done().
Watch_Mutant ==
    /\ pc = "watching"
    /\ \/ sock[conn] = "closed" /\ GoTo("exited") /\ UNCHANGED backoff
       \/ sock[conn] = "lost" /\ GoTo("reconnect") /\ backoff' = InitialBackoff
    /\ UNCHANGED <<dialVars, conn, built, closing, timeouts, late>>

\* The select: told to stop, closed gracefully, or lost with an error.
Watch ==
    /\ pc = "watching"
    /\ \/ ToldToStop /\ GoTo("exited") /\ UNCHANGED backoff
       \/ sock[conn] = "closed" /\ GoTo("exited") /\ UNCHANGED backoff
       \/ sock[conn] = "lost" /\ GoTo("reconnect") /\ backoff' = InitialBackoff
    /\ UNCHANGED <<dialVars, conn, built, closing, timeouts, late>>

----------------------------------------------------------------------------
(* reconnect.                                                              *)

\* The select with a default at the top of the loop.
CheckStopped ==
    /\ pc = "reconnect"
    /\ GoTo(IF ToldToStop THEN "exited" ELSE "sleeping")
    /\ UNCHANGED <<dialVars, conn, built, closing, backoff, timeouts, late>>

\* sleepOrClosed, sleepContext.
Sleep ==
    /\ pc = "sleeping"
    /\ \/ GoTo("connect")
       \/ ToldToStop /\ GoTo("exited")
    /\ UNCHANGED <<dialVars, conn, built, closing, backoff, timeouts, late>>

----------------------------------------------------------------------------
(* Close, and the network.                                                 *)

\* closeChan is closed, or the context cancelled.
Close ==
    /\ built
    /\ closing = "no"
    /\ closing' = "signalled"
    /\ UNCHANGED <<dialVars, conn, pc, built, backoff, timeouts, late>>

\* Without connMu.
CloseReturns_Mutant ==
    /\ closing = "signalled"
    /\ closing' = "closed"
    /\ CloseSock(conn)
    /\ UNCHANGED <<caller, dialer, buf, faults, conn, pc, built, backoff, timeouts, late>>

\* connMu is taken, the connection closed.
CloseReturns ==
    /\ closing = "signalled"
    /\ ~LockHeld
    /\ closing' = "closed"
    /\ CloseSock(conn)
    /\ UNCHANGED <<caller, dialer, buf, faults, conn, pc, built, backoff, timeouts, late>>

\* A connection breaks or the broker closes it: an error on the client's side.
LoseConnection(a) ==
    /\ sock[a] = "open"
    /\ Fault
    /\ sock' = [sock EXCEPT ![a] = "lost"]
    /\ UNCHANGED <<caller, dialer, buf, ownVars>>

----------------------------------------------------------------------------
ConnectStep ==
    \/ \E a \in Attempts : BeginConnect(a) \/ DialSucceeds(a) \/ DialFails(a) \/ DialTimesOut(a)
    \/ DeclareExchange \/ DeclareExchangeFails \/ ConnectReturns

WatcherStep == Register \/ Watch \/ CheckStopped \/ Sleep

Next ==
    \/ ConnectStep
    \/ WatcherStep
    \/ Close \/ CloseReturns
    \/ \E a \in Attempts : LoseConnection(a) \/ (DialerStep(a) /\ UNCHANGED ownVars)

Spec == Init /\ [][Next]_vars

\* A goroutine that can run does run, and timers fire.  A handshake may stall, until
\* the bound on timeouts leaves only ones that are answered.  The exchange declaration
\* and the closing of a connection have no timer; the broker is assumed to answer them,
\* or the connection to be lost.  No fault is forced.
FairSpec ==
    /\ Spec
    /\ WF_vars(WatcherStep)
    /\ WF_vars(CloseReturns)
    /\ WF_vars(DeclareExchange \/ ConnectReturns
               \/ (~ConnIs("open") /\ DeclareExchangeFails))
    /\ WF_vars(\E a \in Attempts :
                  BeginConnect(a) \/ DialSucceeds(a) \/ DialFails(a) \/ DialTimesOut(a))
    /\ \A a \in Attempts :
          WF_vars(/\ (timeouts = MaxTimeouts /\ DialConfigOpens(a)) \/ SendResult(a)
                  /\ UNCHANGED ownVars)

----------------------------------------------------------------------------
(* Properties.                                                             *)

\* The type of every variable of the supervision of a connection.
TypeOK ==
    /\ DialTypeOK
    /\ conn \in Attempts \cup {NoConn}
    /\ pc \in Places
    /\ built \in BOOLEAN
    /\ closing \in {"no", "signalled", "closed"}
    /\ backoff \in Nat \ {0}
    /\ timeouts \in 0 .. MaxTimeouts
    /\ late \subseteq Attempts

\* An open connection that Dial has handed over is the field connection: a failed
\* connect leaves none behind, and reconnect never replaces one that is open.
OpenConnectionIsManaged ==
    \A a \in Attempts : caller[a] = "returned" /\ sock[a] = "open" => conn = a

\* While connect sets a connection up, it is one that Dial's goroutine opened and
\* that neither the goroutine, as late, nor Close has closed (buf, connMu).
SetUpOnLiveConnection == pc = "declaring" => sock[conn] \in {"open", "lost"}

\* Close reaches every connection whose dial began before it was called, the ones
\* still being dialled or set up at the time included (connMu).
CloseReachesEarlierDials ==
    closing = "closed" =>
        \A a \in Attempts \ late : ~(caller[a] = "returned" /\ sock[a] = "open")

\* Under FairSpec a loss that reaches the listener of watchConnection is repaired,
\* through failed dials and exchange declarations, unless the client is closed.
NoticedLossIsRepaired ==
    pc = "watching" /\ ConnIs("lost") ~> pc = "warming" \/ ToldToStop

\* Under FairSpec the watcher goroutine ends after Close, wherever it was, even
\* with a connection that was opened too late for Close.
WatcherExits == ToldToStop ~> pc = "exited"

----------------------------------------------------------------------------
(* The inductive invariant behind the safety properties.                   *)

\* How far a call of Dial and its goroutine have got, seen from both sides: the
\* goroutine sends last of all, what it sends is what it saw, and a result that was
\* received is no longer in the buffer.
DialProgress ==
    \A a \in Attempts :
        /\ caller[a] = "idle" <=> dialer[a] = "idle"
        /\ dialer[a] # "ended" => buf[a] = "empty"
        /\ dialer[a] \in {"idle", "dialing", "refused"} => sock[a] = "none"
        /\ dialer[a] = "opened" \/ buf[a] = "opened" => sock[a] \in {"open", "lost"}
        /\ caller[a] = "waiting" /\ dialer[a] = "ended" => buf[a] # "empty"
        /\ caller[a] \in {"returned", "failed"} => dialer[a] = "ended" /\ buf[a] = "empty"

\* Dial runs only inside connect, one call at a time; the field connection is one it has
\* handed over, and it is set before anything looks at it.
ConnFromDial ==
    /\ \A a \in Attempts : caller[a] = "waiting" =>
          pc = "dialing" /\ \A b \in Attempts : caller[b] = "waiting" => b = a
    /\ conn # NoConn => caller[conn] = "returned"
    /\ pc \in {"declaring", "warming", "register", "watching"} => conn # NoConn
    /\ built => conn # NoConn

\* A connect is begun only when the connection it replaces is not open any more.
ReplacesOnlyDead ==
    pc \in {"connect", "dialing", "reconnect", "sleeping"} => ~ConnIs("open")

\* When Close returns, every dial that began before it has ended.
NoEarlierDialLeft ==
    closing = "closed" => \A a \in Attempts \ late : caller[a] # "waiting"

\* The conjunction is inductive: each step of connect, of Dial's goroutines, of the
\* watcher and of Close preserves it.
Inv ==
    /\ TypeOK
    /\ DialProgress
    /\ ConnFromDial
    /\ ReplacesOnlyDead
    /\ NoEarlierDialLeft
    /\ OpenConnectionIsManaged
    /\ SetUpOnLiveConnection
    /\ CloseReachesEarlierDials

----------------------------------------------------------------------------
(* What the documentation says, and the code does not guarantee.           *)

\* "reconnects automatically" (publisher.go), "The connection is re-established
\* automatically on loss" (consumer.go): any loss is repaired, under FairSpec.
EveryLossIsRepaired ==
    built /\ ConnIs("lost") ~> ConnIs("open") \/ ToldToStop

\* "Close gracefully drains the pool and closes the connection" (publisher.go):
\* nothing managed is open when Close has returned and the watcher has ended.
CloseLeavesNothingOpen ==
    closing = "closed" /\ pc = "exited" =>
        \A a \in Attempts : ~(caller[a] = "returned" /\ sock[a] = "open")
=============================================================================
