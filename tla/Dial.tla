-------------------------------- MODULE Dial --------------------------------
(***************************************************************************)
(* amqpx.Dial (internal/amqpx/connection.go): the whole amqp.DialConfig    *)
(* call runs in a goroutine and races ConnectionTimeout.  Each call of     *)
(* Dial is an attempt; calls do not overlap, but the goroutine of one may  *)
(* outlive it.  The connection an attempt opens bears the attempt's name.  *)
(***************************************************************************)
EXTENDS Integers, FiniteSets

CONSTANTS
    Attempts,       \* calls of Dial (bounds their number)
    MaxFaults       \* bound on refused dials, timeouts and lost connections

ASSUME DialAssumption == MaxFaults \in Nat

VARIABLES
    caller,     \* where Dial is: "idle", "waiting" in its select, or the outcome
    dialer,     \* where its goroutine is
    buf,        \* resultChan, a channel with a buffer of one
    sock,       \* the connection of an attempt, as the client library sees it
    faults      \* faults that have happened

dialVars == <<caller, dialer, buf, sock, faults>>

CallerStates == {"idle", "waiting", "returned", "failed", "timedout"}
DialerStates == {"idle", "dialing", "opened", "refused", "ended"}
SockStates == {"none", "open", "lost", "closed"}

DialInit ==
    /\ caller = [a \in Attempts |-> "idle"]
    /\ dialer = [a \in Attempts |-> "idle"]
    /\ buf = [a \in Attempts |-> "empty"]
    /\ sock = [a \in Attempts |-> "none"]
    /\ faults = 0

Fault == faults < MaxFaults /\ faults' = faults + 1

\* Dial starts its goroutine and waits.
DialStart(a) ==
    /\ caller[a] = "idle"
    /\ \A b \in Attempts : caller[b] # "waiting"
    /\ caller' = [caller EXCEPT ![a] = "waiting"]
    /\ dialer' = [dialer EXCEPT ![a] = "dialing"]
    /\ UNCHANGED <<buf, sock, faults>>

----------------------------------------------------------------------------
(* The goroutine.                                                          *)

\* amqp.DialConfig returns a connection, in time or not ...
DialConfigOpens(a) ==
    /\ dialer[a] = "dialing"
    /\ dialer' = [dialer EXCEPT ![a] = "opened"]
    /\ sock' = [sock EXCEPT ![a] = "open"]
    /\ UNCHANGED <<caller, buf, faults>>

\* ... or an error.
DialConfigFails(a) ==
    /\ dialer[a] = "dialing"
    /\ Fault
    /\ dialer' = [dialer EXCEPT ![a] = "refused"]
    /\ UNCHANGED <<caller, buf, sock>>

\* Whether resultChan <- result is ready in the goroutine's select.
SendIsReady_Mutant(a) == FALSE
SendIsReady(a) == buf[a] = "empty"

\* The select: send the result, or else close the connection.
SendResult(a) ==
    /\ dialer[a] \in {"opened", "refused"}
    /\ dialer' = [dialer EXCEPT ![a] = "ended"]
    /\ IF SendIsReady(a)
       THEN buf' = [buf EXCEPT ![a] = dialer[a]] /\ sock' = sock
       ELSE buf' = buf /\ sock' = [sock EXCEPT ![a] = IF @ = "open" THEN "closed" ELSE @]
    /\ UNCHANGED <<caller, faults>>

----------------------------------------------------------------------------
(* The caller's select.                                                    *)

\* Without a branch for a result that carries an error.
ReceiveResult_Mutant(a) ==
    /\ caller[a] = "waiting"
    /\ buf[a] # "empty"
    /\ buf' = [buf EXCEPT ![a] = "empty"]
    /\ caller' = [caller EXCEPT ![a] = "returned"]
    /\ UNCHANGED <<dialer, sock, faults>>

ReceiveResult(a) ==
    /\ caller[a] = "waiting"
    /\ buf[a] # "empty"
    /\ buf' = [buf EXCEPT ![a] = "empty"]
    /\ caller' = [caller EXCEPT ![a] = IF buf[a] = "opened" THEN "returned" ELSE "failed"]
    /\ UNCHANGED <<dialer, sock, faults>>

Timeout_Mutant(a) == FALSE

\* ConnectionTimeout passes first.
Timeout(a) ==
    /\ caller[a] = "waiting"
    /\ caller' = [caller EXCEPT ![a] = "timedout"]
    /\ UNCHANGED <<dialer, buf, sock, faults>>

----------------------------------------------------------------------------
DialerStep(a) == DialConfigOpens(a) \/ DialConfigFails(a) \/ SendResult(a)

----------------------------------------------------------------------------
(* Properties.                                                             *)

\* The type of every variable of a Dial call and its goroutine.
DialTypeOK ==
    /\ caller \in [Attempts -> CallerStates]
    /\ dialer \in [Attempts -> DialerStates]
    /\ buf \in [Attempts -> {"empty", "opened", "refused"}]
    /\ sock \in [Attempts -> SockStates]
    /\ faults \in 0 .. MaxFaults

\* No connection is discarded while its caller still waits for it: a dial that
\* is fast enough for the caller's select is never thrown away.
DiscardOnlyLate ==
    \A a \in Attempts :
        dialer[a] = "ended" /\ caller[a] = "waiting" => buf[a] # "empty"

\* Under Supervisor's FairSpec Dial returns even if the handshake stalls: "so a stalled handshake cannot
\* block startup indefinitely" (connection.go).
DialReturns ==
    \A a \in Attempts : caller[a] = "waiting" ~> caller[a] # "waiting"

\* "Timed out already; discard the late connection" (connection.go): once the
\* goroutine has ended, the connection of a timed out call is not open.
LateConnectionDiscarded ==
    \A a \in Attempts : caller[a] = "timedout" /\ dialer[a] = "ended" => sock[a] # "open"
=============================================================================
