----------------------------- MODULE RetryCount -----------------------------
(***************************************************************************)
(* The "x-retry-count" header (internal/amqpx/retry.go).  A message's      *)
(* header table is abstracted to the one entry the retry logic reads: the  *)
(* Go type the AMQP decoder gave the value, and the value itself.          *)
(***************************************************************************)
EXTENDS Integers

CONSTANT
    MaxInt32    \* math.MaxInt32, the widest count the header can carry; a
                \* model gives it a small value so that the edge is reached

ASSUME MaxInt32Assumption == MaxInt32 \in Nat

MinInt32 == -MaxInt32 - 1

\* "absent": no such header; "other": present with a type the switch of
\* ReadRetryCount does not list (a string, a byte, an int16, ...).
HeaderKinds == {"absent", "int32", "int64", "int", "other"}

RetryHeader == [kind : HeaderKinds, n : Int]

\* The counter of a delivery: 0 unless the header is one of three integer types.
ReadRetryCount(headers) ==
    IF headers.kind \in {"int32", "int64", "int"} THEN headers.n ELSE 0

\* NextRetryHeaders refuses a count that an int32 header cannot carry ...
NextRetryHeadersFit(count) == count <= MaxInt32 /\ count >= MinInt32

\* ... and otherwise overwrites the counter, as an int32, in a copy of the table.
NextRetryHeaders(count) == [kind |-> "int32", n |-> count]
=============================================================================
