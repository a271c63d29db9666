---------------------------- MODULE MCPublisher ----------------------------
(***************************************************************************)
(* Instances of Publisher for TLC.                                         *)
(***************************************************************************)
EXTENDS Publisher, TLC

CONSTANTS p1, p2

\* Between them the callers make every kind of call, and after each kind of call
\* of the one the other makes one that its remains could disturb.
TwoCallers == {p1, p2}
Kinds == (p1 :> {"raw", "plain", "confirm", "mandatory"}) @@ (p2 :> {"both"})
=============================================================================
