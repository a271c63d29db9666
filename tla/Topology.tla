------------------------------ MODULE Topology ------------------------------
(***************************************************************************)
(* declareQueueTopology (pkg/rabbitmq/topology.go): the sequence of broker *)
(* operations that consumers (in every session they open) and publishers   *)
(* (in DeclareQueueTopology) go through for a queue.  Any number of them   *)
(* interleave on one broker, any operation may fail halfway, and a caller  *)
(* may start over.                                                         *)
(*                                                                         *)
(* A name is a pair of a base and a suffix; that appending the suffix      *)
(* yields no name that is in use otherwise is assumed.  Nobody deletes     *)
(* anything.                                                               *)
(***************************************************************************)
EXTENDS Naturals

CONSTANTS
    Declarers,      \* callers of declareQueueTopology
    Exchange,       \* their Config.Exchange
    QueueName,      \* their argument queueName
    RoutingKey,     \* their argument routingKey
    DeadLetterOff,  \* their Config.DisableDeadLetter
    MaxFaults       \* bound on operations that fail for outside reasons

ASSUME TopologyAssumption ==
    /\ DeadLetterOff \in [Declarers -> BOOLEAN]
    /\ MaxFaults \in Nat

Plain(n) == <<n, "">>
Dlx(e) == <<e, "dlx">>
Dlq(q) == <<q, "dlq">>

\* The arguments a queue is declared with: none, or where to dead-letter to.
NoArgs == <<>>
DeadLetterTo(x, key) == <<x, key>>

QueueArgs(d) ==
    IF DeadLetterOff[d] THEN NoArgs ELSE DeadLetterTo(Dlx(Exchange[d]), RoutingKey[d])

VARIABLES
    exchanges,  \* dead-letter exchanges the broker has
    queues,     \* the queues it has, as <<name, arguments>> pairs
    bindings,   \* its bindings, as <<exchange, key, queue>>
    pc,         \* the operation each declarer is about to do
    faults

vars == <<exchanges, queues, bindings, pc, faults>>

Operations == {"declare_dlx", "declare_dlq", "bind_dlq", "declare_queue", "bind_queue"}

Init ==
    /\ exchanges = {} /\ queues = {} /\ bindings = {}
    /\ pc = [d \in Declarers |-> "idle"]
    /\ faults = 0

GoTo(d, p) == pc' = [pc EXCEPT ![d] = p]

\* A caller that gives up after its first error.
Start_Mutant(d) ==
    /\ pc[d] = "idle"
    /\ GoTo(d, IF DeadLetterOff[d] THEN "declare_queue" ELSE "declare_dlx")
    /\ UNCHANGED <<exchanges, queues, bindings, faults>>

\* declareQueueTopology is called, for the first time or after an error.
Start(d) ==
    /\ pc[d] \in {"idle", "failed", "refused"}
    /\ GoTo(d, IF DeadLetterOff[d] THEN "declare_queue" ELSE "declare_dlx")
    /\ UNCHANGED <<exchanges, queues, bindings, faults>>

DeclareDlx(d) ==
    /\ pc[d] = "declare_dlx"
    /\ exchanges' = exchanges \cup {Dlx(Exchange[d])}
    /\ GoTo(d, "declare_dlq")
    /\ UNCHANGED <<queues, bindings, faults>>

\* The broker accepts a declaration of a new queue, and of one it has with the
\* same arguments.
Agrees(q, args) == \A p \in queues : p[1] = q => p[2] = args

DeclareDlq(d) ==
    /\ pc[d] = "declare_dlq"
    /\ Agrees(Dlq(QueueName[d]), NoArgs)
    /\ queues' = queues \cup {<<Dlq(QueueName[d]), NoArgs>>}
    /\ GoTo(d, "bind_dlq")
    /\ UNCHANGED <<exchanges, bindings, faults>>

\* The queue is declared before the binding its dead letters need.
BindDlq_Mutant(d) ==
    /\ pc[d] = "bind_dlq"
    /\ GoTo(d, "declare_queue")
    /\ UNCHANGED <<exchanges, queues, bindings, faults>>

BindDlq(d) ==
    /\ pc[d] = "bind_dlq"
    /\ bindings' = bindings \cup {<<Dlx(Exchange[d]), RoutingKey[d], Dlq(QueueName[d])>>}
    /\ GoTo(d, "declare_queue")
    /\ UNCHANGED <<exchanges, queues, faults>>

\* The queue is declared without its arguments.
DeclareQueue_Mutant(d) ==
    /\ pc[d] = "declare_queue"
    /\ Agrees(Plain(QueueName[d]), NoArgs)
    /\ queues' = queues \cup {<<Plain(QueueName[d]), NoArgs>>}
    /\ GoTo(d, "bind_queue")
    /\ UNCHANGED <<exchanges, bindings, faults>>

DeclareQueue(d) ==
    /\ pc[d] = "declare_queue"
    /\ Agrees(Plain(QueueName[d]), QueueArgs(d))
    /\ queues' = queues \cup {<<Plain(QueueName[d]), QueueArgs(d)>>}
    /\ GoTo(d, "bind_queue")
    /\ UNCHANGED <<exchanges, bindings, faults>>

\* PRECONDITION_FAILED: the queue exists with other arguments.
DeclareQueueRefused(d) ==
    /\ pc[d] = "declare_queue"
    /\ ~Agrees(Plain(QueueName[d]), QueueArgs(d))
    /\ GoTo(d, "refused")
    /\ UNCHANGED <<exchanges, queues, bindings, faults>>

\* The function returns before its last step.
BindQueue_Mutant(d) ==
    /\ pc[d] = "bind_queue"
    /\ GoTo(d, "done")
    /\ UNCHANGED <<exchanges, queues, bindings, faults>>

BindQueue(d) ==
    /\ pc[d] = "bind_queue"
    /\ bindings' = bindings \cup {<<Plain(Exchange[d]), RoutingKey[d], Plain(QueueName[d])>>}
    /\ GoTo(d, "done")
    /\ UNCHANGED <<exchanges, queues, faults>>

\* An operation fails for outside reasons: the connection, a permission.
OperationFails(d) ==
    /\ pc[d] \in Operations
    /\ faults < MaxFaults
    /\ faults' = faults + 1
    /\ GoTo(d, "failed")
    /\ UNCHANGED <<exchanges, queues, bindings>>

Declare(d) ==
    \/ DeclareDlx(d) \/ DeclareDlq(d) \/ BindDlq(d)
    \/ DeclareQueue(d) \/ DeclareQueueRefused(d) \/ BindQueue(d)

Next == \E d \in Declarers : Start(d) \/ Declare(d) \/ OperationFails(d)

Spec == Init /\ [][Next]_vars

\* The broker answers, and a caller that got an error starts over (Consume does).
FairSpec == Spec /\ \A d \in Declarers : WF_vars(Start(d) \/ Declare(d))

----------------------------------------------------------------------------
(* Properties.                                                             *)

\* The type of every variable of the broker and of the callers.
TypeOK ==
    /\ exchanges \subseteq {Dlx(Exchange[d]) : d \in Declarers}
    /\ queues \subseteq {<<Plain(QueueName[d]), QueueArgs(d)>> : d \in Declarers}
                        \cup {<<Dlq(QueueName[d]), NoArgs>> : d \in Declarers}
    /\ bindings \subseteq
          {<<Plain(Exchange[d]), RoutingKey[d], Plain(QueueName[d])>> : d \in Declarers} \cup
          {<<Dlx(Exchange[d]), RoutingKey[d], Dlq(QueueName[d])>> : d \in Declarers}
    /\ pc \in [Declarers -> Operations \cup {"idle", "failed", "refused", "done"}]
    /\ faults \in 0 .. MaxFaults

\* Where the dead letters of a queue declared with these arguments go.
DeadLetterPath(q, args) ==
    \/ args = NoArgs
    \/ /\ args[1] \in exchanges
       /\ <<Dlq(q), NoArgs>> \in queues
       /\ <<args[1], args[2], Dlq(q)>> \in bindings

\* A queue never exists before its dead letters have somewhere to go: in every
\* state, halfway through any number of calls and after any failure, the
\* exchange, the queue and the binding its arguments name are there.
DeadLettersNeverVanish ==
    \A p \in queues, d \in Declarers :
        p[1] = Plain(QueueName[d]) => DeadLetterPath(QueueName[d], p[2])

\* A call that returned nil leaves its queue declared and bound as it asked, and
\* whoever declares what next cannot undo it.
DoneIsComplete ==
    \A d \in Declarers : pc[d] = "done" =>
        /\ <<Plain(QueueName[d]), QueueArgs(d)>> \in queues
        /\ <<Plain(Exchange[d]), RoutingKey[d], Plain(QueueName[d])>> \in bindings

\* Every caller that declares the queue of d declares it as d does.
Unopposed(d) ==
    \A e \in Declarers : QueueName[e] = QueueName[d] => QueueArgs(e) = QueueArgs(d)

\* "either side can declare first and the other redeclares without a precondition
\* conflict" (topology.go), for callers whose arguments are the same: whoever
\* comes first, however far it got, and whatever others do to other queues.
NoConflictWhenSame == \A d \in Declarers : Unopposed(d) => pc[d] # "refused"

\* Nothing is undone: what a caller has declared so far stays declared.
Progress ==
    \A d \in Declarers :
        /\ pc[d] \in {"declare_dlx", "declare_dlq", "bind_dlq"} => ~DeadLetterOff[d]
        /\ ~DeadLetterOff[d] =>
              /\ pc[d] \in {"declare_dlq", "bind_dlq", "declare_queue"} =>
                    Dlx(Exchange[d]) \in exchanges
              /\ pc[d] \in {"bind_dlq", "declare_queue"} =>
                    <<Dlq(QueueName[d]), NoArgs>> \in queues
              /\ pc[d] = "declare_queue" =>
                    <<Dlx(Exchange[d]), RoutingKey[d], Dlq(QueueName[d])>> \in bindings
        /\ pc[d] \in {"bind_queue", "done"} =>
              <<Plain(QueueName[d]), QueueArgs(d)>> \in queues

\* A queue has the arguments one of its declarers asked for.
ArgsFromDeclarer ==
    \A p \in queues, d \in Declarers : p[1] = Plain(QueueName[d]) =>
        \E e \in Declarers : QueueName[e] = QueueName[d] /\ p[2] = QueueArgs(e)

\* The inductive invariant behind the three safety properties.
Inv ==
    /\ pc \in [Declarers -> Operations \cup {"idle", "failed", "refused", "done"}]
    /\ Progress
    /\ ArgsFromDeclarer
    /\ DeadLettersNeverVanish
    /\ DoneIsComplete
    /\ NoConflictWhenSame

\* Under FairSpec every call that nobody opposes (repeated after an error) succeeds
\* in the end, even while others are refused again and again.
EventuallyDeclared ==
    \A d \in Declarers : Unopposed(d) => <>(pc[d] = "done")

\* "whichever side declares first, the other redeclares without a conflict"
\* (README.md), for any two callers.
NoConflict == \A d \in Declarers : pc[d] # "refused"
=============================================================================
