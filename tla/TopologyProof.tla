--------------------------- MODULE TopologyProof ---------------------------
(***************************************************************************)
(* Proofs about Topology, for any number of callers with any arguments and *)
(* any number of failures.                                                 *)
(***************************************************************************)
EXTENDS Topology, TLAPS

\* A queue's own name is never the name of a dead-letter queue.
LEMMA NamesDiffer ==
  ASSUME NEW q, NEW r
  PROVE  Plain(q) # Dlq(r)
BY DEF Plain, Dlq

\* A queue name determines the plain name, and the other way round.
LEMMA PlainIsInjective ==
  ASSUME NEW q, NEW r, Plain(q) = Plain(r)
  PROVE  q = r
BY DEF Plain

\* With the arguments a caller has, DeadLetterPath is what Progress provides.
LEMMA PathOfArgs ==
  ASSUME NEW d \in Declarers
  PROVE  DeadLetterPath(QueueName[d], QueueArgs(d)) <=>
            \/ DeadLetterOff[d]
            \/ /\ Dlx(Exchange[d]) \in exchanges
               /\ <<Dlq(QueueName[d]), NoArgs>> \in queues
               /\ <<Dlx(Exchange[d]), RoutingKey[d], Dlq(QueueName[d])>> \in bindings
BY TopologyAssumption DEF DeadLetterPath, QueueArgs, NoArgs, DeadLetterTo

\* A path stays when the broker's sets only grow.
LEMMA PathIsStable ==
  ASSUME NEW q, NEW args, DeadLetterPath(q, args),
         exchanges \subseteq exchanges', queues \subseteq queues', bindings \subseteq bindings'
  PROVE  DeadLetterPath(q, args)'
BY DEF DeadLetterPath

----------------------------------------------------------------------------
\* Every step preserves the invariant of the declaration sequence: each
\* operation adds what the next ones rely on, and none removes anything.
LEMMA InvStep == Inv /\ [Next]_vars => Inv'
<1> SUFFICES ASSUME Inv, [Next]_vars PROVE Inv'
  OBVIOUS
<1> USE TopologyAssumption DEF Inv, Operations, GoTo
<1> HIDE DEF DeadLetterPath, Unopposed, Plain, Dlx, Dlq, QueueArgs, NoArgs
<1>1. ASSUME NEW d \in Declarers, Start(d) PROVE Inv'
  BY <1>1 DEF Start, Progress, ArgsFromDeclarer, DeadLettersNeverVanish, DeadLetterPath,
              DoneIsComplete, NoConflictWhenSame
<1>2. ASSUME NEW d \in Declarers, DeclareDlx(d) PROVE Inv'
  <2>1. DeadLettersNeverVanish'
    BY <1>2, PathIsStable DEF DeclareDlx, DeadLettersNeverVanish
  <2> QED
    BY <1>2, <2>1 DEF DeclareDlx, Progress, ArgsFromDeclarer, DoneIsComplete, NoConflictWhenSame
<1>3. ASSUME NEW d \in Declarers, DeclareDlq(d) PROVE Inv'
  <2>0. queues' = queues \cup {<<Dlq(QueueName[d]), NoArgs>>}
    BY <1>3 DEF DeclareDlq
  <2>1. \A p \in queues' : p \in queues \/ \A e \in Declarers : p[1] # Plain(QueueName[e])
    BY <2>0, NamesDiffer
  <2>2. DeadLettersNeverVanish'
    BY <1>3, <2>0, <2>1, PathIsStable DEF DeclareDlq, DeadLettersNeverVanish
  <2>3. ArgsFromDeclarer'
    BY <2>1 DEF ArgsFromDeclarer
  <2> QED
    BY <1>3, <2>2, <2>3 DEF DeclareDlq, Progress, DoneIsComplete, NoConflictWhenSame
<1>4. ASSUME NEW d \in Declarers, BindDlq(d) PROVE Inv'
  <2>1. DeadLettersNeverVanish'
    BY <1>4, PathIsStable DEF BindDlq, DeadLettersNeverVanish
  <2> QED
    BY <1>4, <2>1 DEF BindDlq, Progress, ArgsFromDeclarer, DoneIsComplete, NoConflictWhenSame
<1>5. ASSUME NEW d \in Declarers, DeclareQueue(d) PROVE Inv'
  <2>0. /\ queues' = queues \cup {<<Plain(QueueName[d]), QueueArgs(d)>>}
        /\ UNCHANGED <<exchanges, bindings>>
    BY <1>5 DEF DeclareQueue
  <2>1. DeadLetterPath(QueueName[d], QueueArgs(d))
    BY <1>5, PathOfArgs DEF DeclareQueue, Progress
  <2>2. DeadLettersNeverVanish'
    <3> SUFFICES ASSUME NEW p \in queues', NEW e \in Declarers, p[1] = Plain(QueueName[e])
                 PROVE  DeadLetterPath(QueueName[e], p[2])'
      BY DEF DeadLettersNeverVanish
    <3>1. CASE p \in queues
      BY <2>0, <3>1, PathIsStable DEF DeadLettersNeverVanish
    <3>2. CASE p = <<Plain(QueueName[d]), QueueArgs(d)>>
      <4>1. QueueName[e] = QueueName[d] /\ p[2] = QueueArgs(d)
        BY <3>2, PlainIsInjective
      <4>2. DeadLetterPath(QueueName[d], QueueArgs(d))'
        BY <2>0, <2>1, PathIsStable
      <4> QED
        BY <4>1, <4>2
    <3> QED
      BY <2>0, <3>1, <3>2
  <2>3. ArgsFromDeclarer'
    <3> SUFFICES ASSUME NEW p \in queues', NEW e \in Declarers, p[1] = Plain(QueueName[e])
                 PROVE  \E f \in Declarers : QueueName[f] = QueueName[e] /\ p[2] = QueueArgs(f)
      BY DEF ArgsFromDeclarer, QueueArgs
    <3>1. CASE p \in queues
      BY <3>1 DEF ArgsFromDeclarer
    <3>2. CASE p = <<Plain(QueueName[d]), QueueArgs(d)>>
      BY <3>2, PlainIsInjective
    <3> QED
      BY <2>0, <3>1, <3>2
  <2> QED
    BY <1>5, <2>2, <2>3 DEF DeclareQueue, Progress, DoneIsComplete, NoConflictWhenSame
<1>6. ASSUME NEW d \in Declarers, DeclareQueueRefused(d) PROVE Inv'
  <2>1. ~Unopposed(d)
    <3>1. PICK p \in queues : p[1] = Plain(QueueName[d]) /\ p[2] # QueueArgs(d)
      BY <1>6 DEF DeclareQueueRefused, Agrees
    <3>2. PICK e \in Declarers : QueueName[e] = QueueName[d] /\ p[2] = QueueArgs(e)
      BY <3>1 DEF ArgsFromDeclarer
    <3> QED
      BY <3>1, <3>2 DEF Unopposed
  <2> QED
    BY <1>6, <2>1 DEF DeclareQueueRefused, Progress, ArgsFromDeclarer, DeadLettersNeverVanish,
                      DeadLetterPath, DoneIsComplete, NoConflictWhenSame
<1>7. ASSUME NEW d \in Declarers, BindQueue(d) PROVE Inv'
  <2>1. DeadLettersNeverVanish'
    BY <1>7, PathIsStable DEF BindQueue, DeadLettersNeverVanish
  <2> QED
    BY <1>7, <2>1 DEF BindQueue, Progress, ArgsFromDeclarer, DoneIsComplete, NoConflictWhenSame
<1>8. ASSUME NEW d \in Declarers, OperationFails(d) PROVE Inv'
  BY <1>8 DEF OperationFails, Progress, ArgsFromDeclarer, DeadLettersNeverVanish,
              DeadLetterPath, DoneIsComplete, NoConflictWhenSame
<1>9. CASE UNCHANGED vars
  BY <1>9 DEF vars, Progress, ArgsFromDeclarer, DeadLettersNeverVanish, DeadLetterPath,
              DoneIsComplete, NoConflictWhenSame
<1> QED
  BY <1>1, <1>2, <1>3, <1>4, <1>5, <1>6, <1>7, <1>8, <1>9 DEF Next, Declare

\* The invariant of the declaration sequence holds in every state.
THEOREM Invariance == Spec => []Inv
<1>1. Init => Inv
  BY DEF Init, Inv, Operations, Progress, ArgsFromDeclarer, DeadLettersNeverVanish,
         DoneIsComplete, NoConflictWhenSame
<1> QED
  BY <1>1, InvStep, PTL DEF Spec

\* No queue ever exists without the exchange, queue and binding its dead letters
\* need, however the calls of declareQueueTopology interleave and fail.
THEOREM PathBeforeQueue == Spec => []DeadLettersNeverVanish
BY Invariance, PTL DEF Inv

\* A call of declareQueueTopology that returned nil stays in effect.
THEOREM CompleteWhenDone == Spec => []DoneIsComplete
BY Invariance, PTL DEF Inv

\* Callers with the same arguments never conflict, whoever declares first and
\* however far it got.
THEOREM SameArgumentsAgree == Spec => []NoConflictWhenSame
BY Invariance, PTL DEF Inv

\* The broker has nothing but what some caller declares, and each caller is at one of
\* the operations.
THEOREM TypeCorrect == Spec => []TypeOK
<1> USE TopologyAssumption DEF TypeOK, Operations
<1>1. Init => TypeOK
  <2>1. 0 \in 0 .. MaxFaults
    OBVIOUS
  <2> QED
    BY <2>1 DEF Init
<1>2. TypeOK /\ [Next]_vars => TypeOK'
  <2> SUFFICES ASSUME TypeOK, [Next]_vars PROVE TypeOK'
    OBVIOUS
  <2>1. ASSUME NEW d \in Declarers, Start(d) PROVE TypeOK'
    BY <2>1 DEF Start, GoTo
  <2>2. ASSUME NEW d \in Declarers, DeclareDlx(d) PROVE TypeOK'
    BY <2>2 DEF DeclareDlx, GoTo
  <2>3. ASSUME NEW d \in Declarers, DeclareDlq(d) PROVE TypeOK'
    BY <2>3 DEF DeclareDlq, GoTo
  <2>4. ASSUME NEW d \in Declarers, BindDlq(d) PROVE TypeOK'
    BY <2>4 DEF BindDlq, GoTo
  <2>5. ASSUME NEW d \in Declarers, DeclareQueue(d) PROVE TypeOK'
    BY <2>5 DEF DeclareQueue, GoTo
  <2>6. ASSUME NEW d \in Declarers, DeclareQueueRefused(d) PROVE TypeOK'
    BY <2>6 DEF DeclareQueueRefused, GoTo
  <2>7. ASSUME NEW d \in Declarers, BindQueue(d) PROVE TypeOK'
    BY <2>7 DEF BindQueue, GoTo
  <2>8. ASSUME NEW d \in Declarers, OperationFails(d) PROVE TypeOK'
    BY <2>8 DEF OperationFails, GoTo
  <2>9. CASE UNCHANGED vars
    BY <2>9 DEF vars
  <2> QED
    BY <2>1, <2>2, <2>3, <2>4, <2>5, <2>6, <2>7, <2>8, <2>9 DEF Next, Declare
<1> QED
  BY <1>1, <1>2, PTL DEF Spec
=============================================================================
