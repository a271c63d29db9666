----------------------------- MODULE MCConsumer -----------------------------
(***************************************************************************)
(* Instances of Consumer for TLC.                                          *)
(***************************************************************************)
EXTENDS Consumer, TLC

Symmetry == Permutations(Consumers) \cup Permutations(Messages) \cup Permutations(Copies)

\* A message published without a retry header.
NoHeader == {[kind |-> "absent", n |-> 0]}

\* Headers set elsewhere: a type that is not read, counts that are above MaxRetries
\* or below an int32, and a retry that another queue's consumer republished.
ForeignHeaders == {[kind |-> "other", n |-> 3], [kind |-> "int64", n |-> 3],
                   [kind |-> "int64", n |-> -5], [kind |-> "int32", n |-> 1]}

\* Copies are interchangeable: every behaviour is a renaming of one in which each new
\* copy is the one that CHOOSE picks.  A step that makes a copy may make that one
\* whenever it may make any, so the constraint disables none and fairness keeps its
\* meaning, which a SYMMETRY set would not guarantee.
CopiesInOrder ==
    \A c \in Copies :
        loc[c] = "none" /\ loc'[c] # "none" => c = CHOOSE d \in Copies : loc[d] = "none"
=============================================================================
