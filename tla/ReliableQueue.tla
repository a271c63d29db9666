---------------------------- MODULE ReliableQueue ---------------------------
(***************************************************************************)
(* What a queue and its consumers promise together: a message is owed to   *)
(* the handlers from its publication on, is settled when one of them takes *)
(* it or it is given up for good, and may be handed out again afterwards,  *)
(* but not after the queue has forgotten it.  There is no step that takes  *)
(* away a message that is not settled, and none that brings one back.      *)
(* Module Consumer implements it ("Retry behavior is at-least-once",       *)
(* README.md) for the messages that its retries can route.                 *)
(***************************************************************************)
CONSTANT Messages

VARIABLES
    sent,       \* messages handed to the broker so far
    owed,       \* messages the queue may still hand to a handler
    settled     \* messages handled, dead-lettered or dropped

queueVars == <<sent, owed, settled>>

QueueInit == sent = {} /\ owed = {} /\ settled = {}

Send(m) ==
    /\ m \notin sent
    /\ sent' = sent \cup {m}
    /\ owed' = owed \cup {m}
    /\ UNCHANGED settled

\* A message is settled; the queue may still have it, to be handed out again.
Settle(m) ==
    /\ m \in owed
    /\ settled' = settled \cup {m}
    /\ owed' \in {owed, owed \ {m}}
    /\ UNCHANGED sent

\* The queue is rid of a message.
Forget(m) ==
    /\ m \in owed \cap settled
    /\ owed' = owed \ {m}
    /\ UNCHANGED <<sent, settled>>

QueueNext == \E m \in Messages : Send(m) \/ Settle(m) \/ Forget(m)

QueueSpec == QueueInit /\ [][QueueNext]_queueVars
=============================================================================
