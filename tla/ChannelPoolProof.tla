-------------------------- MODULE ChannelPoolProof --------------------------
(***************************************************************************)
(* Proofs about ChannelPool, for any number of callers, channels and       *)
(* faults and any pool size: every step of pool.go, of the watcher, of     *)
(* Close and of the environment preserves PoolInv.  Module PublisherProof  *)
(* draws the conclusions for the specification.                            *)
(***************************************************************************)
EXTENDS ChannelPool, FiniteSetTheorems, TLAPS

USE PoolAssumption DEF channelVars, storeVars, clientVars, Processes, Channels, NoChannel

----------------------------------------------------------------------------
(* The size of the pool.                                                   *)

\* normalize leaves a pool with a size, whatever was configured.
LEMMA PoolSizeType == PoolSize \in Nat
BY DEF PoolSize

\* What is in the pool can be counted.
LEMMA PoolFinite ==
  ASSUME PoolTypeOK
  PROVE  IsFiniteSet(pool) /\ Cardinality(pool) \in Nat
<1>1. IsFiniteSet(1 .. MaxChannels)
  BY FS_Interval
<1>2. IsFiniteSet(pool)
  BY <1>1, FS_Subset DEF PoolTypeOK
<1> QED
  BY <1>2, FS_CardinalityType

\* A channel more, if there is room.
LEMMA PoolAdd ==
  ASSUME PoolTypeOK, HasRoom, NEW ch
  PROVE  Cardinality(pool \cup {ch}) <= PoolSize
<1> DEFINE S == pool \cup {ch}
<1>1. Cardinality(S) = Cardinality(pool) \/ Cardinality(S) = Cardinality(pool) + 1
  BY PoolFinite, FS_AddElement
<1> HIDE DEF S
<1>2. Cardinality(S) <= PoolSize
  BY <1>1, PoolFinite, PoolSizeType DEF HasRoom
<1> QED
  BY <1>2 DEF S

\* A channel less.
LEMMA PoolRemove ==
  ASSUME PoolTypeOK, NEW ch
  PROVE  Cardinality(pool \ {ch}) <= PoolSize
<1> DEFINE S == pool \ {ch}
<1>1. Cardinality(S) \in Nat /\ Cardinality(S) <= Cardinality(pool)
  <2>1. S \subseteq pool
    OBVIOUS
  <2> QED
    BY <2>1, PoolFinite, FS_Subset, FS_CardinalityType
<1> HIDE DEF S
<1>2. Cardinality(S) <= PoolSize
  BY <1>1, PoolFinite, PoolSizeType DEF PoolTypeOK
<1> QED
  BY <1>2 DEF S

\* A drained pool is within its size.
LEMMA PoolEmpty == Cardinality({}) <= PoolSize
BY FS_EmptySet, PoolSizeType

----------------------------------------------------------------------------
(* Steps that several actions share.                                       *)

\* A process with a channel in hand goes on with it.
LEMMA KeepStep ==
  ASSUME PoolInv, NEW p \in Processes,
         pc[p] \in HoldingPlaces \ {"opening"},
         NEW place \in HoldingPlaces \ {"opening", "confirming", "store"},
         place \in {"raw", "returning"} => has[p] \in meta,
         pc' = [pc EXCEPT ![p] = place],
         UNCHANGED <<has, channelVars, storeVars, clientVars>>,
         faults' \in 0 .. MaxFaults
  PROVE  PoolInv'
<1> USE DEF PoolInv
<1>1. PoolTypeOK'
  BY DEF PoolTypeOK, CallerPlaces, WatcherPlaces, OpenerStates, HoldingPlaces
<1>2. HandsFull' /\ OneHolder'
  BY DEF PoolTypeOK, HandsFull, HoldingPlaces, OneHolder, OpenersMatch
<1>3. OpenersMatch'
  BY DEF PoolTypeOK, OpenersMatch, OneHolder, HandsFull, HoldingPlaces
<1>4. NoneWithoutConnection'
  BY DEF PoolTypeOK, OpenersMatch, NoneWithoutConnection
<1>5. NoChannelLeaked'
  BY DEF PoolTypeOK, NoChannelLeaked, Held, HandsFull, HoldingPlaces, OpenersMatch, NoneWithoutConnection
<1>6. MetaNotLeaked'
  BY DEF PoolTypeOK, MetaNotLeaked, Held, HandsFull, HoldingPlaces, MetaMatches
<1>7. MetaMatches'
  BY DEF PoolTypeOK, MetaMatches, OneHolder, HandsFull, HoldingPlaces, MetaNotLeaked, OpenersMatch, Held
<1> QED
  BY <1>1, <1>2, <1>3, <1>4, <1>5, <1>6, <1>7

\* A process without one goes on without.
LEMMA EmptyHandedStep ==
  ASSUME PoolInv, NEW p \in Processes,
         pc[p] \notin HoldingPlaces,
         NEW place \in (CallerPlaces \cup WatcherPlaces) \ HoldingPlaces,
         pc' = [pc EXCEPT ![p] = place],
         UNCHANGED <<has, channelVars, storeVars, conn, closing>>,
         built' \in BOOLEAN, toWarm' \in 0 .. PoolSize, faults' \in 0 .. MaxFaults
  PROVE  PoolInv'
<1> USE DEF PoolInv
<1>1. PoolTypeOK'
  BY PoolSizeType DEF PoolTypeOK, CallerPlaces, WatcherPlaces, OpenerStates, HoldingPlaces
<1>2. HandsFull' /\ OneHolder'
  BY DEF PoolTypeOK, HandsFull, HoldingPlaces, OneHolder, OpenersMatch
<1>3. OpenersMatch'
  BY DEF PoolTypeOK, OpenersMatch, OneHolder, HandsFull, HoldingPlaces
<1>4. NoneWithoutConnection'
  BY DEF PoolTypeOK, OpenersMatch, NoneWithoutConnection
<1>5. NoChannelLeaked'
  BY DEF PoolTypeOK, NoChannelLeaked, Held, HandsFull, HoldingPlaces, OpenersMatch, NoneWithoutConnection
<1>6. MetaNotLeaked'
  BY DEF PoolTypeOK, MetaNotLeaked, Held, HandsFull, HoldingPlaces, MetaMatches
<1>7. MetaMatches'
  BY DEF PoolTypeOK, MetaMatches, OneHolder, HandsFull, HoldingPlaces, MetaNotLeaked, OpenersMatch, Held
<1> QED
  BY <1>1, <1>2, <1>3, <1>4, <1>5, <1>6, <1>7

\* A process closes the channel in its hand.
LEMMA DropStep ==
  ASSUME PoolInv, NEW p \in Processes,
         pc[p] \in HoldingPlaces \ {"opening"},
         NEW place \in (CallerPlaces \cup WatcherPlaces) \ HoldingPlaces,
         pc' = [pc EXCEPT ![p] = place],
         has' = [has EXCEPT ![p] = NoChannel],
         open' = open \ {has[p]},
         meta' = meta \ {has[p]},
         UNCHANGED <<opener, pool, old, restamped, clientVars>>,
         faults' \in 0 .. MaxFaults
  PROVE  PoolInv'
<1> USE DEF PoolInv
<1>1. PoolTypeOK'
  BY DEF PoolTypeOK, CallerPlaces, WatcherPlaces, OpenerStates, HoldingPlaces
<1>2. HandsFull' /\ OneHolder'
  BY DEF PoolTypeOK, HandsFull, HoldingPlaces, OneHolder, OpenersMatch
<1>3. OpenersMatch'
  BY DEF PoolTypeOK, OpenersMatch, OneHolder, HandsFull, HoldingPlaces
<1>4. NoneWithoutConnection'
  BY DEF PoolTypeOK, OpenersMatch, NoneWithoutConnection
<1>5. NoChannelLeaked'
  BY DEF PoolTypeOK, NoChannelLeaked, Held, HandsFull, HoldingPlaces, OpenersMatch, NoneWithoutConnection
<1>6. MetaNotLeaked'
  <2>1. Held \ {has[p]} \subseteq Held'
    BY DEF PoolTypeOK, Held
  <2> QED
    BY <2>1 DEF MetaNotLeaked
<1>7. MetaMatches'
  BY DEF PoolTypeOK, MetaMatches, OneHolder, HandsFull, HoldingPlaces, MetaNotLeaked, OpenersMatch, Held
<1> QED
  BY <1>1, <1>2, <1>3, <1>4, <1>5, <1>6, <1>7

\* A process is rid of its channel, and channelMeta of the entry.
LEMMA LetGoStep ==
  ASSUME PoolInv, NEW p \in Processes,
         pc[p] \in HoldingPlaces \ {"opening"},
         NEW place \in (CallerPlaces \cup WatcherPlaces) \ HoldingPlaces,
         LetGo(p, place),
         UNCHANGED <<opener, pool, old, restamped, clientVars, faults>>
  PROVE  PoolInv'
<1>1. faults' \in 0 .. MaxFaults
  BY DEF PoolInv, PoolTypeOK
<1> QED
  BY <1>1, DropStep DEF LetGo, GoTo, Take

\* A process puts the channel in its hand into the pool.
LEMMA StoreStep ==
  ASSUME PoolInv, HasRoom, NEW p \in Processes,
         pc[p] \in HoldingPlaces \ {"opening"},
         NEW place \in (CallerPlaces \cup WatcherPlaces) \ HoldingPlaces,
         pc' = [pc EXCEPT ![p] = place],
         has' = [has EXCEPT ![p] = NoChannel],
         pool' = pool \cup {has[p]},
         UNCHANGED <<channelVars, meta, old, restamped, clientVars, faults>>
  PROVE  PoolInv'
<1> USE DEF PoolInv
<1>1. PoolTypeOK'
  <2>1. has[p] \in Channels
    BY DEF PoolTypeOK, HandsFull
  <2>2. Cardinality(pool') <= PoolSize
    BY PoolAdd
  <2> QED
    BY <2>1, <2>2 DEF PoolTypeOK, CallerPlaces, WatcherPlaces
<1>2. HandsFull' /\ OneHolder'
  BY DEF PoolTypeOK, HandsFull, HoldingPlaces, OneHolder, OpenersMatch
<1>3. OpenersMatch'
  BY DEF PoolTypeOK, OpenersMatch, OneHolder, HandsFull, HoldingPlaces
<1>4. NoneWithoutConnection'
  BY DEF PoolTypeOK, OpenersMatch, NoneWithoutConnection
<1>5. NoChannelLeaked'
  BY DEF PoolTypeOK, NoChannelLeaked, Held, HandsFull, HoldingPlaces, OpenersMatch, NoneWithoutConnection
<1>6. MetaNotLeaked'
  BY DEF PoolTypeOK, MetaNotLeaked, Held, HandsFull, HoldingPlaces, MetaMatches
<1>7. MetaMatches'
  BY DEF PoolTypeOK, MetaMatches, OneHolder, HandsFull, HoldingPlaces, MetaNotLeaked, OpenersMatch, Held
<1> QED
  BY <1>1, <1>2, <1>3, <1>4, <1>5, <1>6, <1>7

----------------------------------------------------------------------------
(* Every step of the pool and of what goes on beside it.                   *)

\* createConfirmChannel, for a caller and for the warm-up.
LEMMA CreateInv ==
  ASSUME PoolInv, NEW p \in Processes, CreateStep(p)
  PROVE  PoolInv'
<1> USE DEF PoolInv
<1>1. ASSUME NEW ch \in Channels, RequestChannel(p, ch) PROVE PoolInv'
  <2> USE <1>1 DEF RequestChannel, IsNext, Opener, GoTo, Take
  <2>1. PoolTypeOK'
    BY DEF PoolTypeOK, CallerPlaces, WatcherPlaces, OpenerStates
  <2>2. HandsFull' /\ OneHolder'
    BY DEF PoolTypeOK, HandsFull, HoldingPlaces, OneHolder, OpenersMatch
  <2>3. OpenersMatch' /\ NoneWithoutConnection'
    BY DEF PoolTypeOK, OpenersMatch, NoneWithoutConnection, OneHolder, HandsFull, HoldingPlaces
  <2>4. NoChannelLeaked'
    BY SMTT(30) DEF PoolTypeOK, NoChannelLeaked, Held, HandsFull, HoldingPlaces, OpenersMatch,
           NoneWithoutConnection
  <2>5. MetaNotLeaked' /\ MetaMatches'
    BY DEF PoolTypeOK, MetaNotLeaked, MetaMatches, Held, OneHolder, HandsFull, HoldingPlaces,
           OpenersMatch
  <2> QED
    BY <2>1, <2>2, <2>3, <2>4, <2>5
<1>2. ASSUME NoChannelToRequest(p) PROVE PoolInv'
  <2>1. UNCHANGED has
    BY <1>2 DEF NoChannelToRequest, CreateFails, Take, PoolTypeOK, HandsFull, HoldingPlaces
  <2>2. PICK place \in {"warm", "failed"} : GoTo(p, place)
    BY <1>2 DEF NoChannelToRequest, CreateFails, AfterFailure
  <2> QED
    BY <1>2, <2>1, <2>2, EmptyHandedStep DEF NoChannelToRequest, GoTo, PoolTypeOK, HoldingPlaces,
       CallerPlaces, WatcherPlaces
<1>3. ASSUME ReceiveChannel(p) PROVE PoolInv'
  <2> USE <1>3 DEF ReceiveChannel, Opener, CreateFails, AfterFailure, GoTo, Take
  <2>1. PoolTypeOK'
    <3>1. pc' \in [Processes -> CallerPlaces \cup WatcherPlaces \cup {"awaitConfirm", "awaitReturn"}]
      <4>1. PICK place \in {"confirming", "warm", "failed"} : pc' = [pc EXCEPT ![p] = place]
        OBVIOUS
      <4>2. place \in CallerPlaces \cup WatcherPlaces
        BY DEF CallerPlaces, WatcherPlaces
      <4> QED
        BY <4>1, <4>2 DEF PoolTypeOK
    <3>2. has' \in [Processes -> Channels \cup {NoChannel}]
      BY DEF PoolTypeOK
    <3>3. opener' \in [Channels -> OpenerStates]
      BY DEF PoolTypeOK, OpenerStates
    <3>4. UNCHANGED <<open, pool, meta, old, restamped, conn, built, toWarm, closing, faults>>
      BY DEF storeVars, clientVars
    <3> QED
      BY <3>1, <3>2, <3>3, <3>4, Zenon DEF PoolTypeOK
  <2>2. HandsFull' /\ OneHolder'
    BY DEF PoolTypeOK, HandsFull, HoldingPlaces, OneHolder, OpenersMatch
  <2>3. OpenersMatch' /\ NoneWithoutConnection'
    BY DEF PoolTypeOK, OpenersMatch, NoneWithoutConnection, OneHolder, HandsFull, HoldingPlaces
  <2>4. NoChannelLeaked'
    BY DEF PoolTypeOK, NoChannelLeaked, Held, HandsFull, HoldingPlaces, OpenersMatch,
           NoneWithoutConnection
  <2>5. MetaNotLeaked'
    <3>1. Held \ {has[p]} \subseteq Held' /\ has[p] \notin meta
      BY DEF PoolTypeOK, Held, MetaMatches
    <3> QED
      BY <3>1 DEF MetaNotLeaked
  <2>6. MetaMatches'
    BY DEF PoolTypeOK, MetaMatches, HandsFull, HoldingPlaces
  <2> QED
    BY <2>1, <2>2, <2>3, <2>4, <2>5, <2>6
<1>4. ASSUME CreateTimesOut(p) PROVE PoolInv'
  <2> USE <1>4 DEF CreateTimesOut, CreateFails, AfterFailure, GoTo, Take, Fault
  <2>1. PoolTypeOK'
    BY DEF PoolTypeOK, CallerPlaces, WatcherPlaces, OpenerStates
  <2>2. HandsFull' /\ OneHolder'
    BY DEF PoolTypeOK, HandsFull, HoldingPlaces, OneHolder, OpenersMatch
  <2>3. OpenersMatch' /\ NoneWithoutConnection'
    BY DEF PoolTypeOK, OpenersMatch, NoneWithoutConnection, OneHolder, HandsFull, HoldingPlaces
  <2>4. NoChannelLeaked'
    BY DEF PoolTypeOK, NoChannelLeaked, Held, HandsFull, HoldingPlaces, OpenersMatch,
           NoneWithoutConnection
  <2>5. MetaNotLeaked' /\ MetaMatches'
    BY DEF PoolTypeOK, MetaNotLeaked, MetaMatches, Held, OneHolder, HandsFull, HoldingPlaces,
           OpenersMatch
  <2> QED
    BY <2>1, <2>2, <2>3, <2>4, <2>5
<1>5. ASSUME ConfirmEnabled(p) PROVE PoolInv'
  <2> USE <1>5 DEF ConfirmEnabled, GoTo
  <2>1. PoolTypeOK'
    BY DEF PoolTypeOK, CallerPlaces, WatcherPlaces, OpenerStates
  <2>2. HandsFull' /\ OneHolder'
    BY DEF PoolTypeOK, HandsFull, HoldingPlaces, OneHolder, OpenersMatch
  <2>3. OpenersMatch' /\ NoneWithoutConnection'
    BY DEF PoolTypeOK, OpenersMatch, NoneWithoutConnection, OneHolder, HandsFull, HoldingPlaces
  <2>4. NoChannelLeaked'
    BY DEF PoolTypeOK, NoChannelLeaked, Held, HandsFull, HoldingPlaces, OpenersMatch,
           NoneWithoutConnection
  <2>5. MetaNotLeaked' /\ MetaMatches'
    BY DEF PoolTypeOK, MetaNotLeaked, MetaMatches, Held, OneHolder, HandsFull, HoldingPlaces,
           OpenersMatch
  <2> QED
    BY <2>1, <2>2, <2>3, <2>4, <2>5
<1>6. ASSUME ConfirmNotEnabled(p) PROVE PoolInv'
  <2>1. faults' \in 0 .. MaxFaults
    BY <1>6 DEF ConfirmNotEnabled, Fault, PoolTypeOK
  <2> QED
    BY <1>6, <2>1, KeepStep DEF ConfirmNotEnabled, GoTo, HoldingPlaces
<1>7. ASSUME CloseChannel(p) PROVE PoolInv'
  <2>1. AfterClose(p) \in {"create", "warm", "failed", "done"}
    BY <1>7 DEF CloseChannel, AfterClose, AfterFailure
  <2> QED
    BY <1>7, <2>1, LetGoStep DEF CloseChannel, HoldingPlaces, CallerPlaces, WatcherPlaces
<1> QED
  BY <1>1, <1>2, <1>3, <1>4, <1>5, <1>6, <1>7 DEF CreateStep

\* The goroutine that opens a channel.
LEMMA OpenerInv ==
  ASSUME PoolInv, NEW ch \in Channels, OpenerStep(ch)
  PROVE  PoolInv'
<1> USE DEF PoolInv
<1>1. ASSUME ChannelOpens(ch) PROVE PoolInv'
  <2> USE <1>1 DEF ChannelOpens, Opener
  <2>1. PoolTypeOK'
    BY DEF PoolTypeOK, CallerPlaces, WatcherPlaces, OpenerStates
  <2>2. HandsFull' /\ OneHolder'
    BY DEF PoolTypeOK, HandsFull, HoldingPlaces, OneHolder, OpenersMatch
  <2>3. OpenersMatch' /\ NoneWithoutConnection'
    BY DEF PoolTypeOK, OpenersMatch, NoneWithoutConnection, OneHolder, HandsFull, HoldingPlaces
  <2>4. NoChannelLeaked'
    BY DEF PoolTypeOK, NoChannelLeaked, Held, HandsFull, HoldingPlaces, OpenersMatch,
           NoneWithoutConnection
  <2>5. MetaNotLeaked' /\ MetaMatches'
    BY DEF PoolTypeOK, MetaNotLeaked, MetaMatches, Held, OneHolder, HandsFull, HoldingPlaces,
           OpenersMatch
  <2> QED
    BY <2>1, <2>2, <2>3, <2>4, <2>5
<1>2. ASSUME ChannelRefused(ch) PROVE PoolInv'
  <2> USE <1>2 DEF ChannelRefused, Opener, Fault
  <2>1. PoolTypeOK'
    BY DEF PoolTypeOK, CallerPlaces, WatcherPlaces, OpenerStates
  <2>2. HandsFull' /\ OneHolder'
    BY DEF PoolTypeOK, HandsFull, HoldingPlaces, OneHolder, OpenersMatch
  <2>3. OpenersMatch' /\ NoneWithoutConnection'
    BY DEF PoolTypeOK, OpenersMatch, NoneWithoutConnection, OneHolder, HandsFull, HoldingPlaces
  <2>4. NoChannelLeaked'
    BY DEF PoolTypeOK, NoChannelLeaked, Held, HandsFull, HoldingPlaces, OpenersMatch,
           NoneWithoutConnection
  <2>5. MetaNotLeaked' /\ MetaMatches'
    BY DEF PoolTypeOK, MetaNotLeaked, MetaMatches, Held, OneHolder, HandsFull, HoldingPlaces,
           OpenersMatch
  <2> QED
    BY <2>1, <2>2, <2>3, <2>4, <2>5
<1>3. ASSUME DiscardLate(ch) PROVE PoolInv'
  <2> USE <1>3 DEF DiscardLate, Opener, WaitsFor
  <2>1. PoolTypeOK'
    BY DEF PoolTypeOK, CallerPlaces, WatcherPlaces, OpenerStates
  <2>2. HandsFull' /\ OneHolder'
    BY DEF PoolTypeOK, HandsFull, HoldingPlaces, OneHolder, OpenersMatch
  <2>3. OpenersMatch' /\ NoneWithoutConnection'
    BY DEF PoolTypeOK, OpenersMatch, NoneWithoutConnection, OneHolder, HandsFull, HoldingPlaces
  <2>4. NoChannelLeaked'
    BY DEF PoolTypeOK, NoChannelLeaked, Held, HandsFull, HoldingPlaces, OpenersMatch,
           NoneWithoutConnection
  <2>5. MetaNotLeaked' /\ MetaMatches'
    BY DEF PoolTypeOK, MetaNotLeaked, MetaMatches, Held, OneHolder, HandsFull, HoldingPlaces,
           OpenersMatch
  <2> QED
    BY <2>1, <2>2, <2>3, <2>4, <2>5
<1> QED
  BY <1>1, <1>2, <1>3 DEF OpenerStep

\* borrowChannel and GetChannel.
LEMMA BorrowInv ==
  ASSUME PoolInv, NEW c \in Callers, AskForChannel(c) \/ BorrowStep(c) \/ GetChannel(c)
  PROVE  PoolInv'
<1> USE DEF PoolInv
<1>1. ASSUME AskForChannel(c) PROVE PoolInv'
  BY <1>1, EmptyHandedStep DEF AskForChannel, GoTo, PoolTypeOK, HoldingPlaces, CallerPlaces
<1>2. ASSUME BorrowNew(c) PROVE PoolInv'
  BY <1>2, EmptyHandedStep DEF BorrowNew, GoTo, PoolTypeOK, HoldingPlaces, CallerPlaces
<1>3. ASSUME NEW ch \in Channels, BorrowPooled(c, ch) PROVE PoolInv'
  <2>0. /\ pc[c] = "borrow" /\ ch \in pool
        /\ pool' = pool \ {ch} /\ old' = old \ {ch}
        /\ has' = [has EXCEPT ![c] = ch]
        /\ UNCHANGED <<channelVars, meta, restamped, clientVars, faults>>
    BY <1>3 DEF BorrowPooled, Take
  <2>1. PICK place \in {"holding", "retiring"} : pc' = [pc EXCEPT ![c] = place]
    BY <1>3 DEF BorrowPooled, GoTo
  <2>2. PoolTypeOK'
    BY <2>0, <2>1, PoolRemove DEF PoolTypeOK, CallerPlaces, WatcherPlaces, OpenerStates
  <2>3. HandsFull' /\ OneHolder'
    BY <2>0, <2>1 DEF PoolTypeOK, HandsFull, HoldingPlaces, OneHolder, OpenersMatch
  <2>4. OpenersMatch' /\ NoneWithoutConnection'
    BY <2>0, <2>1 DEF PoolTypeOK, OpenersMatch, NoneWithoutConnection, OneHolder, HandsFull,
           HoldingPlaces
  <2>5. NoChannelLeaked'
    BY <2>0, <2>1 DEF PoolTypeOK, NoChannelLeaked, Held, HandsFull, HoldingPlaces,
           OpenersMatch, NoneWithoutConnection
  <2>6. MetaNotLeaked' /\ MetaMatches'
    BY <2>0, <2>1 DEF PoolTypeOK, MetaNotLeaked, MetaMatches, Held, OneHolder, HandsFull,
           HoldingPlaces, OpenersMatch
  <2> QED
    BY <2>2, <2>3, <2>4, <2>5, <2>6
<1>4. ASSUME GetChannel(c) PROVE PoolInv'
  <2> USE <1>4 DEF GetChannel, GoTo
  <2>1. PoolTypeOK'
    BY DEF HandsFull, HoldingPlaces, PoolTypeOK, CallerPlaces, WatcherPlaces, OpenerStates
  <2>2. HandsFull' /\ OneHolder'
    BY DEF PoolTypeOK, HandsFull, HoldingPlaces, OneHolder, OpenersMatch
  <2>3. OpenersMatch' /\ NoneWithoutConnection'
    BY DEF PoolTypeOK, OpenersMatch, NoneWithoutConnection, OneHolder, HandsFull, HoldingPlaces
  <2>4. NoChannelLeaked'
    BY DEF PoolTypeOK, NoChannelLeaked, Held, HandsFull, HoldingPlaces, OpenersMatch,
           NoneWithoutConnection
  <2>5. MetaNotLeaked'
    <3>1. has[c] \in Held /\ Held' = Held
      BY DEF PoolTypeOK, HandsFull, HoldingPlaces, Held
    <3> QED
      BY <3>1 DEF MetaNotLeaked
  <2>6. MetaMatches'
    BY DEF PoolTypeOK, MetaMatches, OneHolder, HandsFull, HoldingPlaces
  <2> QED
    BY <2>1, <2>2, <2>3, <2>4, <2>5, <2>6
<1> QED
  BY <1>1, <1>2, <1>3, <1>4 DEF BorrowStep

\* ReturnChannel, returnPooled and the deferred function of publish.
LEMMA ReturnInv ==
  ASSUME PoolInv, NEW c \in Callers, ReturnStep(c)
  PROVE  PoolInv'
<1> USE DEF PoolInv, HoldingPlaces
<1>1. ASSUME ReturnChannel(c) PROVE PoolInv'
  <2>1. CASE has[c] \notin open
    BY <1>1, <2>1, LetGoStep DEF ReturnChannel, CallerPlaces
  <2>2. CASE has[c] \in open
    <3>1. UNCHANGED restamped
      BY <1>1, <2>2 DEF ReturnChannel, MetaMatches
    <3> QED
      BY <1>1, <2>2, <3>1, KeepStep DEF ReturnChannel, GoTo, PoolTypeOK
  <2> QED
    BY <2>1, <2>2
<1>2. ASSUME CheckReturn(c) PROVE PoolInv'
  <2>1. PICK place \in {"closing", "storing"} : GoTo(c, place)
    BY <1>2 DEF CheckReturn
  <2> QED
    BY <1>2, <2>1, KeepStep DEF CheckReturn, GoTo, PoolTypeOK
<1>3. ASSUME StoreReturn(c) PROVE PoolInv'
  <2>1. CASE HasRoom
    BY <1>3, <2>1, StoreStep DEF StoreReturn, GoTo, Take, CallerPlaces
  <2>2. CASE ~HasRoom
    BY <1>3, <2>2, KeepStep DEF StoreReturn, GoTo, PoolTypeOK
  <2> QED
    BY <2>1, <2>2
<1> QED
  BY <1>1, <1>2, <1>3 DEF ReturnStep

\* warmChannelPool, watchConnection and reconnect.
LEMMA WatcherInv ==
  ASSUME PoolInv, WatcherStep
  PROVE  PoolInv'
<1> USE DEF PoolInv
<1>1. ASSUME WarmNext PROVE PoolInv'
  <2>1. toWarm' \in 0 .. PoolSize
    BY <1>1, PoolSizeType DEF WarmNext, PoolTypeOK
  <2>2. built' \in BOOLEAN
    BY <1>1 DEF WarmNext, PoolTypeOK
  <2>3. PICK place \in {"create", "register"} : GoTo(Watcher, place)
    BY <1>1 DEF WarmNext
  <2> QED
    BY <1>1, <2>1, <2>2, <2>3, EmptyHandedStep DEF WarmNext, GoTo, PoolTypeOK, HoldingPlaces,
       CallerPlaces, WatcherPlaces
<1>2. ASSUME StoreWarm PROVE PoolInv'
  <2>1. CASE HasRoom
    BY <1>2, <2>1, StoreStep DEF StoreWarm, GoTo, Take, HoldingPlaces, WatcherPlaces
  <2>2. CASE ~HasRoom
    BY <1>2, <2>2, KeepStep DEF StoreWarm, GoTo, HoldingPlaces, PoolTypeOK
  <2> QED
    BY <2>1, <2>2
<1>3. ASSUME Register PROVE PoolInv'
  BY <1>3, EmptyHandedStep DEF Register, GoTo, PoolTypeOK, HoldingPlaces, WatcherPlaces
<1>4. ASSUME CheckStopped PROVE PoolInv'
  BY <1>4, EmptyHandedStep DEF CheckStopped, GoTo, PoolTypeOK, HoldingPlaces, WatcherPlaces
<1>5. ASSUME Sleep PROVE PoolInv'
  BY <1>5, EmptyHandedStep DEF Sleep, GoTo, PoolTypeOK, HoldingPlaces, WatcherPlaces
<1>6. ASSUME ConnectFails PROVE PoolInv'
  <2>1. faults' \in 0 .. MaxFaults
    BY <1>6 DEF ConnectFails, Fault, PoolTypeOK
  <2> QED
    BY <1>6, <2>1, EmptyHandedStep DEF ConnectFails, GoTo, PoolTypeOK, HoldingPlaces, WatcherPlaces
<1>7. ASSUME Watch PROVE PoolInv'
  <2>1. CASE GoTo(Watcher, "exited") /\ UNCHANGED <<open, pool, meta, old>>
    BY <1>7, <2>1, EmptyHandedStep DEF Watch, GoTo, PoolTypeOK, HoldingPlaces, WatcherPlaces
  <2>2. CASE DrainPool /\ GoTo(Watcher, "reconnect")
    <3> USE <1>7, <2>2 DEF Watch, DrainPool, GoTo
    <3>1. PoolTypeOK'
      BY PoolEmpty DEF PoolTypeOK, CallerPlaces, WatcherPlaces, OpenerStates
    <3>2. HandsFull' /\ OneHolder'
      BY DEF PoolTypeOK, HandsFull, HoldingPlaces, OneHolder, OpenersMatch
    <3>3. OpenersMatch' /\ NoneWithoutConnection'
      BY DEF PoolTypeOK, OpenersMatch, NoneWithoutConnection, OneHolder, HandsFull,
             HoldingPlaces
    <3>4. NoChannelLeaked'
      BY DEF PoolTypeOK, NoChannelLeaked, Held, HandsFull, HoldingPlaces, OpenersMatch,
             NoneWithoutConnection
    <3>5. MetaNotLeaked' /\ MetaMatches'
      BY DEF PoolTypeOK, MetaNotLeaked, MetaMatches, Held, OneHolder, HandsFull, HoldingPlaces,
             OpenersMatch
    <3> QED
      BY <3>1, <3>2, <3>3, <3>4, <3>5
  <2> QED
    BY <1>7, <2>1, <2>2 DEF Watch
<1>8. ASSUME ConnectSucceeds PROVE PoolInv'
  <2> USE <1>8 DEF ConnectSucceeds, DrainPool, GoTo
  <2>1. PoolTypeOK'
    BY PoolEmpty, PoolSizeType DEF PoolTypeOK, CallerPlaces, WatcherPlaces, OpenerStates
  <2>2. HandsFull' /\ OneHolder'
    BY DEF PoolTypeOK, HandsFull, HoldingPlaces, OneHolder, OpenersMatch
  <2>3. OpenersMatch' /\ NoneWithoutConnection'
    BY DEF PoolTypeOK, OpenersMatch, NoneWithoutConnection, OneHolder, HandsFull, HoldingPlaces
  <2>4. NoChannelLeaked'
    BY DEF PoolTypeOK, NoChannelLeaked, Held, HandsFull, HoldingPlaces, OpenersMatch,
           NoneWithoutConnection
  <2>5. MetaNotLeaked' /\ MetaMatches'
    BY DEF PoolTypeOK, MetaNotLeaked, MetaMatches, Held, OneHolder, HandsFull, HoldingPlaces,
           OpenersMatch
  <2> QED
    BY <2>1, <2>2, <2>3, <2>4, <2>5
<1> QED
  BY <1>1, <1>2, <1>3, <1>4, <1>5, <1>6, <1>7, <1>8 DEF WatcherStep

\* Close, and what the broker and time do.
LEMMA OutsideInv ==
  ASSUME PoolInv,
         \/ Close \/ CloseDrains \/ CloseReturns \/ LoseConnection
         \/ \E ch \in Channels : ChannelDies(ch) \/ GrowOld(ch)
  PROVE  PoolInv'
<1> USE DEF PoolInv
<1>1. ASSUME Close PROVE PoolInv'
  <2> USE <1>1 DEF Close
  <2>1. PoolTypeOK'
    BY DEF PoolTypeOK, CallerPlaces, WatcherPlaces, OpenerStates
  <2>2. HandsFull' /\ OneHolder'
    BY DEF PoolTypeOK, HandsFull, HoldingPlaces, OneHolder, OpenersMatch
  <2>3. OpenersMatch' /\ NoneWithoutConnection'
    BY DEF PoolTypeOK, OpenersMatch, NoneWithoutConnection, OneHolder, HandsFull, HoldingPlaces
  <2>4. NoChannelLeaked'
    BY DEF PoolTypeOK, NoChannelLeaked, Held, HandsFull, HoldingPlaces, OpenersMatch,
           NoneWithoutConnection
  <2>5. MetaNotLeaked' /\ MetaMatches'
    BY DEF PoolTypeOK, MetaNotLeaked, MetaMatches, Held, OneHolder, HandsFull, HoldingPlaces,
           OpenersMatch
  <2> QED
    BY <2>1, <2>2, <2>3, <2>4, <2>5
<1>2. ASSUME CloseReturns PROVE PoolInv'
  <2>1. CASE conn = "up"
    <3> USE <1>2, <2>1 DEF CloseReturns, ConnectionDown
    <3>1. PoolTypeOK'
      BY DEF PoolTypeOK, CallerPlaces, WatcherPlaces, OpenerStates
    <3>2. HandsFull' /\ OneHolder'
      BY DEF PoolTypeOK, HandsFull, HoldingPlaces, OneHolder, OpenersMatch
    <3>3. OpenersMatch' /\ NoneWithoutConnection'
      BY DEF PoolTypeOK, OpenersMatch, NoneWithoutConnection, OneHolder, HandsFull,
             HoldingPlaces
    <3>4. NoChannelLeaked'
      BY DEF PoolTypeOK, NoChannelLeaked, Held, HandsFull, HoldingPlaces, OpenersMatch,
             NoneWithoutConnection
    <3>5. MetaNotLeaked' /\ MetaMatches'
      BY DEF PoolTypeOK, MetaNotLeaked, MetaMatches, Held, OneHolder, HandsFull, HoldingPlaces,
             OpenersMatch
    <3> QED
      BY <3>1, <3>2, <3>3, <3>4, <3>5
  <2>2. CASE conn # "up"
    <3> USE <1>2, <2>2 DEF CloseReturns
    <3>1. PoolTypeOK'
      BY DEF PoolTypeOK, CallerPlaces, WatcherPlaces, OpenerStates
    <3>2. HandsFull' /\ OneHolder'
      BY DEF PoolTypeOK, HandsFull, HoldingPlaces, OneHolder, OpenersMatch
    <3>3. OpenersMatch' /\ NoneWithoutConnection'
      BY DEF PoolTypeOK, OpenersMatch, NoneWithoutConnection, OneHolder, HandsFull,
             HoldingPlaces
    <3>4. NoChannelLeaked'
      BY DEF PoolTypeOK, NoChannelLeaked, Held, HandsFull, HoldingPlaces, OpenersMatch,
             NoneWithoutConnection
    <3>5. MetaNotLeaked' /\ MetaMatches'
      BY DEF PoolTypeOK, MetaNotLeaked, MetaMatches, Held, OneHolder, HandsFull, HoldingPlaces,
             OpenersMatch
    <3> QED
      BY <3>1, <3>2, <3>3, <3>4, <3>5
  <2> QED
    BY <2>1, <2>2
<1>3. ASSUME LoseConnection PROVE PoolInv'
  <2> USE <1>3 DEF LoseConnection, ConnectionDown, Fault
  <2>1. PoolTypeOK'
    BY DEF PoolTypeOK, CallerPlaces, WatcherPlaces, OpenerStates
  <2>2. HandsFull' /\ OneHolder'
    BY DEF PoolTypeOK, HandsFull, HoldingPlaces, OneHolder, OpenersMatch
  <2>3. OpenersMatch' /\ NoneWithoutConnection'
    BY DEF PoolTypeOK, OpenersMatch, NoneWithoutConnection, OneHolder, HandsFull, HoldingPlaces
  <2>4. NoChannelLeaked'
    BY DEF PoolTypeOK, NoChannelLeaked, Held, HandsFull, HoldingPlaces, OpenersMatch,
           NoneWithoutConnection
  <2>5. MetaNotLeaked' /\ MetaMatches'
    BY DEF PoolTypeOK, MetaNotLeaked, MetaMatches, Held, OneHolder, HandsFull, HoldingPlaces,
           OpenersMatch
  <2> QED
    BY <2>1, <2>2, <2>3, <2>4, <2>5
<1>4. ASSUME NEW ch \in Channels, ChannelDies(ch) PROVE PoolInv'
  <2> USE <1>4 DEF ChannelDies, Fault
  <2>1. PoolTypeOK'
    BY DEF PoolTypeOK, CallerPlaces, WatcherPlaces, OpenerStates
  <2>2. HandsFull' /\ OneHolder'
    BY DEF PoolTypeOK, HandsFull, HoldingPlaces, OneHolder, OpenersMatch
  <2>3. OpenersMatch' /\ NoneWithoutConnection'
    BY DEF PoolTypeOK, OpenersMatch, NoneWithoutConnection, OneHolder, HandsFull, HoldingPlaces
  <2>4. NoChannelLeaked'
    BY DEF PoolTypeOK, NoChannelLeaked, Held, HandsFull, HoldingPlaces, OpenersMatch,
           NoneWithoutConnection
  <2>5. MetaNotLeaked' /\ MetaMatches'
    BY DEF PoolTypeOK, MetaNotLeaked, MetaMatches, Held, OneHolder, HandsFull, HoldingPlaces,
           OpenersMatch
  <2> QED
    BY <2>1, <2>2, <2>3, <2>4, <2>5
<1>5. ASSUME NEW ch \in Channels, GrowOld(ch) PROVE PoolInv'
  <2> USE <1>5 DEF GrowOld, Fault
  <2>1. PoolTypeOK'
    BY DEF PoolTypeOK, CallerPlaces, WatcherPlaces, OpenerStates
  <2>2. HandsFull' /\ OneHolder'
    BY DEF PoolTypeOK, HandsFull, HoldingPlaces, OneHolder, OpenersMatch
  <2>3. OpenersMatch' /\ NoneWithoutConnection'
    BY DEF PoolTypeOK, OpenersMatch, NoneWithoutConnection, OneHolder, HandsFull, HoldingPlaces
  <2>4. NoChannelLeaked'
    BY DEF PoolTypeOK, NoChannelLeaked, Held, HandsFull, HoldingPlaces, OpenersMatch,
           NoneWithoutConnection
  <2>5. MetaNotLeaked' /\ MetaMatches'
    BY DEF PoolTypeOK, MetaNotLeaked, MetaMatches, Held, OneHolder, HandsFull, HoldingPlaces,
           OpenersMatch
  <2> QED
    BY <2>1, <2>2, <2>3, <2>4, <2>5
<1>6. ASSUME CloseDrains PROVE PoolInv'
  <2> USE <1>6 DEF CloseDrains, DrainPool
  <2>1. PoolTypeOK'
    BY PoolEmpty DEF PoolTypeOK, CallerPlaces, WatcherPlaces, OpenerStates
  <2>2. HandsFull' /\ OneHolder'
    BY DEF PoolTypeOK, HandsFull, HoldingPlaces, OneHolder, OpenersMatch
  <2>3. OpenersMatch' /\ NoneWithoutConnection'
    BY DEF PoolTypeOK, OpenersMatch, NoneWithoutConnection, OneHolder, HandsFull,
           HoldingPlaces
  <2>4. NoChannelLeaked'
    BY DEF PoolTypeOK, NoChannelLeaked, Held, HandsFull, HoldingPlaces, OpenersMatch,
           NoneWithoutConnection
  <2>5. MetaNotLeaked' /\ MetaMatches'
    BY DEF PoolTypeOK, MetaNotLeaked, MetaMatches, Held, OneHolder, HandsFull, HoldingPlaces,
           OpenersMatch
  <2> QED
    BY <2>1, <2>2, <2>3, <2>4, <2>5
<1> QED
  BY <1>1, <1>2, <1>3, <1>4, <1>5, <1>6

\* What goes on beside the callers.
LEMMA BackgroundInv ==
  ASSUME PoolInv, BackgroundStep
  PROVE  PoolInv'
BY CreateInv, WatcherInv, OpenerInv, OutsideInv DEF BackgroundStep

\* What a caller does in pool.go.
LEMMA CallerInv ==
  ASSUME PoolInv, NEW c \in Callers, CallerStep(c)
  PROVE  PoolInv'
BY CreateInv, BorrowInv, ReturnInv DEF CallerStep

----------------------------------------------------------------------------
(* What a step leaves alone.                                               *)

\* A channel that was handed over stays so, and once it is closed it stays closed.
NothingReopens ==
  \A ch \in Channels : opener[ch] = "ended" => opener'[ch] = "ended" /\ (ch \in open' => ch \in open)

OthersStay(p) ==
  \A c \in Callers \ {p} : pc'[c] = pc[c] /\ has'[c] = has[c]

\* createConfirmChannel moves only the process that runs it.
LEMMA CreateFrame ==
  ASSUME PoolInv, NEW p \in Processes, CreateStep(p)
  PROVE  NothingReopens /\ OthersStay(p)
<1> USE DEF PoolInv, PoolTypeOK, NothingReopens, OthersStay, GoTo, Take, Opener, CreateFails
<1>1. ASSUME NEW ch \in Channels, RequestChannel(p, ch) PROVE NothingReopens /\ OthersStay(p)
  BY <1>1 DEF RequestChannel, IsNext
<1>2. CASE NoChannelToRequest(p)
  BY <1>2 DEF NoChannelToRequest
<1>3. CASE ReceiveChannel(p)
  BY <1>3 DEF ReceiveChannel
<1>4. CASE CreateTimesOut(p)
  BY <1>4 DEF CreateTimesOut
<1>5. CASE ConfirmEnabled(p)
  BY <1>5 DEF ConfirmEnabled
<1>6. CASE ConfirmNotEnabled(p)
  BY <1>6 DEF ConfirmNotEnabled
<1>7. CASE CloseChannel(p)
  BY <1>7 DEF CloseChannel, LetGo
<1> QED
  BY <1>1, <1>2, <1>3, <1>4, <1>5, <1>6, <1>7 DEF CreateStep

\* Nothing that goes on beside the callers moves one, or reopens a channel.
LEMMA BackgroundFrame ==
  ASSUME PoolInv, BackgroundStep
  PROVE  NothingReopens /\ \A c \in Callers : pc'[c] = pc[c] /\ has'[c] = has[c]
<1> USE DEF PoolInv, PoolTypeOK, NothingReopens
<1> DEFINE Goal == NothingReopens /\ \A c \in Callers : pc'[c] = pc[c] /\ has'[c] = has[c]
<1>1. CASE CreateStep(Watcher)
  BY <1>1, CreateFrame DEF OthersStay
<1>2. CASE WatcherStep
  BY <1>2 DEF WatcherStep, WarmNext, StoreWarm, Register, Watch, DrainPool, CheckStopped, Sleep,
              ConnectSucceeds, ConnectFails, GoTo, Take
<1>3. CASE Close \/ CloseDrains \/ CloseReturns \/ LoseConnection
  BY <1>3 DEF Close, CloseDrains, DrainPool, CloseReturns, LoseConnection, ConnectionDown
<1>4. ASSUME NEW ch \in Channels, OpenerStep(ch) \/ ChannelDies(ch) \/ GrowOld(ch) PROVE Goal
  BY <1>4 DEF OpenerStep, ChannelOpens, ChannelRefused, DiscardLate, Opener, ChannelDies, GrowOld
<1> QED
  BY <1>1, <1>2, <1>3, <1>4 DEF BackgroundStep

\* Where a call may be before and after its steps in pool.go.
CallerMoves(c) ==
  \/ /\ pc[c] \in {"borrow", "retiring", "create", "opening", "confirming", "discarding"}
     /\ pc'[c] \in {"retiring", "create", "opening", "confirming", "discarding", "holding", "failed"}
  \/ /\ pc[c] \in {"returning", "checking", "storing"}
     /\ pc'[c] \in {"checking", "storing", "closing", "done"}
  \/ /\ pc[c] = "closing"
     /\ pc'[c] = "done" /\ has[c] \notin open'

\* A caller's step in pool.go moves nobody else.
LEMMA CallerFrame ==
  ASSUME PoolInv, NEW c \in Callers, CallerStep(c)
  PROVE  NothingReopens /\ OthersStay(c) /\ CallerMoves(c)
<1> USE DEF PoolInv, PoolTypeOK
<1>1. CASE CreateStep(c)
  <2>1. CallerMoves(c)
    BY <1>1 DEF CallerMoves, CreateStep, RequestChannel, NoChannelToRequest, ReceiveChannel, CreateTimesOut,
                ConfirmEnabled, ConfirmNotEnabled, CreateFails, AfterFailure, CloseChannel, AfterClose, LetGo, GoTo
  <2> QED
    BY <1>1, <2>1, CreateFrame
<1>2. CASE BorrowStep(c)
  BY <1>2 DEF BorrowStep, BorrowNew, BorrowPooled, GoTo, Take, NothingReopens, OthersStay, CallerMoves
<1>3. CASE ReturnStep(c)
  BY <1>3 DEF ReturnStep, ReturnChannel, CheckReturn, StoreReturn, LetGo, GoTo, Take,
              NothingReopens, OthersStay, CallerMoves
<1> QED
  BY <1>1, <1>2, <1>3 DEF CallerStep
=============================================================================
