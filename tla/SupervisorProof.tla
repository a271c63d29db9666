-------------------------- MODULE SupervisorProof --------------------------
(***************************************************************************)
(* Proofs about Supervisor, composed with Dial: for any number of dials,   *)
(* faults and timeouts and any backoff.  Inv is inductive; one lemma per   *)
(* group of actions, one step per action.                                  *)
(***************************************************************************)
EXTENDS Supervisor, TLAPS

USE SupervisorAssumption, DialAssumption
USE DEF dialVars, ownVars

\* The cap of the backoff, configured or by default, is a positive number.
LEMMA CapIsPositive == MaxBackoff \in Nat \ {0}
BY DEF MaxBackoff

\* Doubling keeps the backoff of reconnect positive, whatever the cap.
LEMMA BackoffStep ==
  ASSUME backoff \in Nat \ {0}, ConnectFails
  PROVE  backoff' \in Nat \ {0}
BY CapIsPositive DEF ConnectFails, NextBackoff

----------------------------------------------------------------------------
(* Each group of actions preserves Inv.                                    *)

\* DialConfig's goroutine never changes a connection that Dial has handed over, and
\* never finds the buffer full while its caller waits.
LEMMA DialerStepInv ==
  ASSUME Inv, NEW a \in Attempts, DialerStep(a), UNCHANGED ownVars
  PROVE  Inv'
<1> USE DEF Inv, TypeOK, DialTypeOK, CallerStates, DialerStates, SockStates
<1>1. CASE DialConfigOpens(a)
  <2>1. TypeOK' /\ DialProgress' /\ ConnFromDial'
    BY <1>1 DEF DialConfigOpens, DialProgress, ConnFromDial
  <2>2. caller[a] \in {"waiting", "timedout"} /\ conn # a
    BY <1>1 DEF DialConfigOpens, DialProgress, ConnFromDial
  <2>3. ReplacesOnlyDead' /\ OpenConnectionIsManaged' /\ SetUpOnLiveConnection'
    BY <1>1, <2>2 DEF DialConfigOpens, ReplacesOnlyDead, ConnIs, OpenConnectionIsManaged,
                      SetUpOnLiveConnection, ConnFromDial
  <2>4. NoEarlierDialLeft' /\ CloseReachesEarlierDials'
    BY <1>1, <2>2 DEF DialConfigOpens, NoEarlierDialLeft, CloseReachesEarlierDials
  <2> QED
    BY <2>1, <2>3, <2>4
<1>2. CASE DialConfigFails(a)
  BY <1>2 DEF DialConfigFails, Fault, DialProgress, ConnFromDial, ReplacesOnlyDead, ConnIs,
              NoEarlierDialLeft, OpenConnectionIsManaged, SetUpOnLiveConnection,
              CloseReachesEarlierDials
<1>3. CASE SendResult(a)
  <2>1. SendIsReady(a)
    BY <1>3 DEF SendResult, SendIsReady, DialProgress
  <2>2. buf' = [buf EXCEPT ![a] = dialer[a]] /\ UNCHANGED <<caller, sock, faults>>
    BY <1>3, <2>1 DEF SendResult
  <2>3. TypeOK' /\ DialProgress' /\ ConnFromDial'
    BY <1>3, <2>2 DEF SendResult, DialProgress, ConnFromDial
  <2> QED
    BY <2>2, <2>3 DEF ReplacesOnlyDead, ConnIs, NoEarlierDialLeft, OpenConnectionIsManaged,
                      SetUpOnLiveConnection, CloseReachesEarlierDials
<1> QED
  BY <1>1, <1>2, <1>3 DEF DialerStep

\* connect, from the moment it takes connMu to the moment Dial returns: only a dead
\* connection is replaced, and by one that is not closed.
LEMMA DialStepInv ==
  ASSUME Inv, NEW a \in Attempts,
         BeginConnect(a) \/ DialSucceeds(a) \/ DialFails(a) \/ DialTimesOut(a)
  PROVE  Inv'
<1> USE DEF Inv, TypeOK, DialTypeOK, CallerStates, DialerStates, SockStates, Places, GoTo
<1>1. CASE BeginConnect(a)
  <2>1. TypeOK' /\ DialProgress' /\ ConnFromDial'
    BY <1>1 DEF BeginConnect, DialStart, DialProgress, ConnFromDial
  <2>2. NoEarlierDialLeft' /\ CloseReachesEarlierDials'
    BY <1>1 DEF BeginConnect, DialStart, NoEarlierDialLeft, CloseReachesEarlierDials, ToldToStop
  <2>3. ReplacesOnlyDead' /\ OpenConnectionIsManaged' /\ SetUpOnLiveConnection'
    BY <1>1 DEF BeginConnect, DialStart, ReplacesOnlyDead, ConnIs, OpenConnectionIsManaged,
                SetUpOnLiveConnection
  <2> QED
    BY <2>1, <2>2, <2>3
<1>2. CASE DialSucceeds(a)
  <2>1. /\ pc = "dialing" /\ caller[a] = "waiting" /\ buf[a] = "opened" /\ dialer[a] = "ended"
        /\ caller' = [caller EXCEPT ![a] = "returned"]
        /\ buf' = [buf EXCEPT ![a] = "empty"]
        /\ conn' = a /\ pc' = "declaring"
        /\ UNCHANGED <<dialer, sock, faults, built, closing, backoff, timeouts, late>>
    BY <1>2 DEF DialSucceeds, ReceiveResult, DialProgress
  <2>2. TypeOK' /\ DialProgress'
    BY <2>1 DEF DialProgress
  <2>3. \A b \in Attempts : b # a => caller[b] # "waiting"
    BY <2>1 DEF ConnFromDial
  <2>4. ConnFromDial'
    BY <2>1, <2>3 DEF ConnFromDial
  <2>5. ReplacesOnlyDead' /\ OpenConnectionIsManaged' /\ SetUpOnLiveConnection'
    BY <2>1 DEF ReplacesOnlyDead, ConnIs, OpenConnectionIsManaged, SetUpOnLiveConnection, DialProgress
  <2>6. NoEarlierDialLeft' /\ CloseReachesEarlierDials'
    BY <2>1 DEF NoEarlierDialLeft, CloseReachesEarlierDials
  <2> QED
    BY <2>2, <2>4, <2>5, <2>6
<1>3. ASSUME caller' = [caller EXCEPT ![a] = "failed"] \/ caller' = [caller EXCEPT ![a] = "timedout"],
             caller[a] = "waiting", pc = "dialing", ConnectFails,
             UNCHANGED <<conn, built, closing, late, sock>>
      PROVE  /\ ConnFromDial' /\ ReplacesOnlyDead' /\ OpenConnectionIsManaged'
             /\ SetUpOnLiveConnection' /\ NoEarlierDialLeft' /\ CloseReachesEarlierDials'
  <2>1. \A b \in Attempts : b # a => caller[b] # "waiting"
    BY <1>3 DEF ConnFromDial
  <2>2. ConnFromDial'
    BY <1>3, <2>1 DEF ConnectFails, ConnFromDial
  <2>3. ReplacesOnlyDead' /\ OpenConnectionIsManaged' /\ SetUpOnLiveConnection'
    BY <1>3 DEF ConnectFails, ReplacesOnlyDead, ConnIs, OpenConnectionIsManaged, SetUpOnLiveConnection
  <2>4. NoEarlierDialLeft' /\ CloseReachesEarlierDials'
    BY <1>3 DEF NoEarlierDialLeft, CloseReachesEarlierDials
  <2> QED
    BY <1>3, <2>2, <2>3, <2>4
<1>4. CASE DialFails(a)
  <2>1. /\ caller[a] = "waiting" /\ pc = "dialing" /\ dialer[a] = "ended"
        /\ caller' = [caller EXCEPT ![a] = "failed"]
        /\ buf' = [buf EXCEPT ![a] = "empty"]
        /\ ConnectFails
        /\ UNCHANGED <<dialer, sock, faults, conn, built, closing, timeouts, late>>
    BY <1>4 DEF DialFails, ReceiveResult, DialProgress
  <2>2. TypeOK' /\ DialProgress'
    BY <2>1, BackoffStep DEF DialProgress, ConnectFails
  <2> QED
    BY <1>3, <2>1, <2>2
<1>5. CASE DialTimesOut(a)
  <2>1. TypeOK' /\ DialProgress'
    BY <1>5, BackoffStep DEF DialTimesOut, Timeout, DialProgress, ConnectFails
  <2> QED
    BY <1>3, <1>5, <2>1 DEF DialTimesOut, Timeout
<1> QED
  BY <1>1, <1>2, <1>4, <1>5

\* The rest of connect: an exchange that cannot be declared closes the connection.
LEMMA SetUpStepInv ==
  ASSUME Inv, DeclareExchange \/ DeclareExchangeFails \/ ConnectReturns
  PROVE  Inv'
<1> USE DEF Inv, TypeOK, DialTypeOK, CallerStates, DialerStates, SockStates, Places, GoTo
<1>1. CASE DeclareExchange \/ ConnectReturns
  <2>1. /\ pc \in {"declaring", "warming"} /\ pc' \in {"warming", "register"}
        /\ built' \in BOOLEAN
        /\ UNCHANGED <<dialVars, conn, closing, backoff, timeouts, late>>
    BY <1>1 DEF DeclareExchange, ConnectReturns
  <2>2. TypeOK' /\ DialProgress'
    BY <2>1 DEF DialProgress, dialVars
  <2>3. ConnFromDial'
    BY <1>1, <2>1 DEF DeclareExchange, ConnectReturns, ConnFromDial, dialVars
  <2>4. ReplacesOnlyDead' /\ OpenConnectionIsManaged' /\ SetUpOnLiveConnection'
    BY <2>1 DEF ReplacesOnlyDead, ConnIs, OpenConnectionIsManaged, SetUpOnLiveConnection, dialVars
  <2>5. NoEarlierDialLeft' /\ CloseReachesEarlierDials'
    BY <2>1 DEF NoEarlierDialLeft, CloseReachesEarlierDials, dialVars
  <2> QED
    BY <2>2, <2>3, <2>4, <2>5
<1>2. CASE DeclareExchangeFails
  <2>1. /\ pc = "declaring" /\ conn \in Attempts /\ caller[conn] = "returned"
        /\ CloseSock(conn) /\ ConnectFails /\ faults' \in 0 .. MaxFaults
        /\ UNCHANGED <<caller, dialer, buf, conn, built, closing, timeouts, late>>
    BY <1>2 DEF DeclareExchangeFails, ConnFromDial, Fault
  <2>2. TypeOK'
    BY <2>1, BackoffStep DEF ConnectFails, CloseSock
  <2>3. DialProgress' /\ ConnFromDial'
    BY <2>1 DEF DialProgress, ConnFromDial, CloseSock, ConnectFails
  <2>4. sock'[conn] # "open" /\ \A a \in Attempts : sock'[a] = "open" => sock[a] = "open"
    BY <2>1 DEF CloseSock
  <2>5. ReplacesOnlyDead' /\ OpenConnectionIsManaged' /\ SetUpOnLiveConnection'
    BY <2>1, <2>4 DEF ReplacesOnlyDead, ConnIs, OpenConnectionIsManaged, SetUpOnLiveConnection,
                      ConnectFails
  <2>6. NoEarlierDialLeft' /\ CloseReachesEarlierDials'
    BY <2>1, <2>4 DEF NoEarlierDialLeft, CloseReachesEarlierDials
  <2> QED
    BY <2>1, <2>2, <2>3, <2>5, <2>6
<1> QED
  BY <1>1, <1>2

\* watchConnection and reconnect: only a connection that is lost leads to connect.
LEMMA WatcherStepInv ==
  ASSUME Inv, WatcherStep
  PROVE  Inv'
<1> USE DEF Inv, TypeOK, DialTypeOK, Places, GoTo, DialProgress, ConnFromDial, ReplacesOnlyDead,
            ConnIs, NoEarlierDialLeft, OpenConnectionIsManaged, SetUpOnLiveConnection,
            CloseReachesEarlierDials
<1>1. CASE Register      BY <1>1 DEF Register
<1>2. CASE Watch         BY <1>2 DEF Watch
<1>3. CASE CheckStopped  BY <1>3 DEF CheckStopped
<1>4. CASE Sleep         BY <1>4 DEF Sleep
<1> QED
  BY <1>1, <1>2, <1>3, <1>4 DEF WatcherStep

\* Close, and lost connections.  connMu keeps Close out of a connect, so that every
\* dial begun before it has either handed over its connection or failed.
LEMMA CloseStepInv ==
  ASSUME Inv, Close \/ CloseReturns \/ \E a \in Attempts : LoseConnection(a)
  PROVE  Inv'
<1> USE DEF Inv, TypeOK, DialTypeOK, CallerStates, DialerStates, SockStates, Places, DialProgress,
            ConnFromDial, ReplacesOnlyDead, ConnIs, NoEarlierDialLeft, OpenConnectionIsManaged,
            SetUpOnLiveConnection, CloseReachesEarlierDials
<1>1. CASE Close         BY <1>1 DEF Close
<1>2. CASE CloseReturns
  <2>1. \A a \in Attempts : /\ sock'[a] = "open" => sock[a] = "open" /\ a # conn
                            /\ a # conn => sock'[a] = sock[a]
                            /\ sock'[a] \in SockStates
    BY <1>2 DEF CloseReturns, CloseSock
  <2>2. /\ UNCHANGED <<caller, dialer, buf, faults, conn, pc, built, backoff, timeouts, late>>
        /\ closing' = "closed" /\ sock' \in [Attempts -> SockStates]
        /\ pc \notin {"dialing", "declaring"}
    BY <1>2 DEF CloseReturns, CloseSock, LockHeld
  <2>3. TypeOK' /\ DialProgress' /\ ConnFromDial'
    BY <2>1, <2>2
  <2>4. ReplacesOnlyDead' /\ OpenConnectionIsManaged' /\ SetUpOnLiveConnection'
    BY <2>1, <2>2
  <2>5. NoEarlierDialLeft' /\ CloseReachesEarlierDials'
    BY <2>1, <2>2
  <2> QED
    BY <2>3, <2>4, <2>5
<1>3. ASSUME NEW a \in Attempts, LoseConnection(a) PROVE Inv'
  BY <1>3 DEF LoseConnection, Fault
<1> QED
  BY <1>1, <1>2, <1>3

----------------------------------------------------------------------------
(* The theorems.                                                           *)

\* Inv holds in every state of the supervised connection, however dials, losses,
\* reconnects and Close interleave.
THEOREM Invariance == Spec => []Inv
<1>1. Init => Inv
  <2> SUFFICES ASSUME Init PROVE Inv
    OBVIOUS
  <2> USE DEF Init, DialInit
  <2>1. TypeOK
    <3>1. DialTypeOK
      BY DEF DialTypeOK, CallerStates, DialerStates, SockStates
    <3>2. timeouts \in 0 .. MaxTimeouts /\ backoff \in Nat \ {0}
      OBVIOUS
    <3> QED
      BY <3>1, <3>2 DEF TypeOK, Places
  <2>2. DialProgress /\ ConnFromDial /\ ReplacesOnlyDead
    BY DEF DialProgress, ConnFromDial, ReplacesOnlyDead, ConnIs
  <2>3. NoEarlierDialLeft /\ OpenConnectionIsManaged /\ SetUpOnLiveConnection
    BY DEF NoEarlierDialLeft, OpenConnectionIsManaged, SetUpOnLiveConnection
  <2>4. CloseReachesEarlierDials
    BY DEF CloseReachesEarlierDials
  <2> QED
    BY <2>1, <2>2, <2>3, <2>4 DEF Inv
<1>2. Inv /\ [Next]_vars => Inv'
  <2> SUFFICES ASSUME Inv, [Next]_vars PROVE Inv'
    OBVIOUS
  <2>1. CASE UNCHANGED vars
    BY <2>1 DEF vars, Inv, TypeOK, DialTypeOK, DialProgress, ConnFromDial, ReplacesOnlyDead, ConnIs,
                NoEarlierDialLeft, OpenConnectionIsManaged, SetUpOnLiveConnection,
                CloseReachesEarlierDials
  <2> QED
    BY <2>1, DialerStepInv, DialStepInv, SetUpStepInv, WatcherStepInv, CloseStepInv
       DEF Next, ConnectStep
<1> QED
  BY <1>1, <1>2, PTL DEF Spec

\* Every variable of Dial and of the supervision keeps its type.
THEOREM TypeCorrect == Spec => []TypeOK
BY Invariance, PTL DEF Inv

\* A connection that connect has obtained is the field connection for as long as it
\* is open: reconnect and a failing exchange declaration leave none behind.
THEOREM NoUnmanagedConnection == Spec => []OpenConnectionIsManaged
BY Invariance, PTL DEF Inv

\* connect sets up a connection that neither Dial's goroutine nor Close has closed.
THEOREM SetUpIsSafe == Spec => []SetUpOnLiveConnection
BY Invariance, PTL DEF Inv

\* Close leaves no connection open whose dial began before it was called.
THEOREM CloseIsThorough == Spec => []CloseReachesEarlierDials
BY Invariance, PTL DEF Inv

\* A result that its caller still waits for is never discarded by Dial's goroutine.
THEOREM NothingDiscardedInTime == Spec => []DiscardOnlyLate
<1>1. Inv => DiscardOnlyLate
  BY DEF Inv, DialProgress, DiscardOnlyLate
<1> QED
  BY Invariance, <1>1, PTL
=============================================================================
