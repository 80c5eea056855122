----------------------------- MODULE ByteQueue ------------------------------
(***************************************************************************)
(* What a ring buffer promises: a queue of at most Capacity bytes, and     *)
(* what the last call returned.                                            *)
(***************************************************************************)
EXTENDS Integers, Sequences, SequencesExt

CONSTANTS Capacity, Byte, MaxCall

VARIABLES q,      \* the bytes in the queue, the oldest first
          answer  \* the count the last call returned and the bytes it handed out

queueVars == <<q, answer>>

Smaller(a, b) == IF a < b THEN a ELSE b

Latest(s) == SubSeq(s, Len(s) - Smaller(Len(s), Capacity) + 1, Len(s))

QueueInit == q = <<>> /\ answer = [count |-> 0, bytes |-> <<>>]

(* What does not fit is dropped at the end ...                             *)
Offer(s) ==
    LET n == Smaller(Len(s), Capacity - Len(q))
    IN  /\ q' = q \o SubSeq(s, 1, n)
        /\ answer' = [count |-> n, bytes |-> <<>>]

(* ... or, if forced, at the front.                                        *)
Force(s) ==
    /\ q' = Latest(q \o s)
    /\ answer' = [count |-> Smaller(Len(s), Capacity), bytes |-> <<>>]

Take(n) ==
    LET k == Smaller(n, Len(q))
    IN  /\ q' = SubSeq(q, k + 1, Len(q))
        /\ answer' = [count |-> k, bytes |-> SubSeq(q, 1, k)]

(* A caller that asks for no particular number gets at least one byte.     *)
TakeSome == \E n \in 1..Len(q) : Take(n)

Discard == q' = <<>> /\ UNCHANGED answer

QueueNext ==
    \/ \E s \in BoundedSeq(Byte, MaxCall) : Offer(s) \/ Force(s)
    \/ \E n \in 0..MaxCall : Take(n)
    \/ TakeSome
    \/ Discard

QueueSpec == QueueInit /\ [][QueueNext]_queueVars
=============================================================================
