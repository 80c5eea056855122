------------------------------ MODULE KvStore ------------------------------
(***************************************************************************)
(* What the key-value store of Middlewares/mykvdb promises its callers: a  *)
(* map that changes by whole values, that keeps what was acknowledged over *)
(* resets, and that has either the old or the new value of a key that was  *)
(* being written.                                                          *)
(***************************************************************************)
CONSTANTS Key, Value, None

VARIABLES store,   \* the value of every key, None if it has none
          op,      \* the call that is being carried out, or None
          reply    \* what the last call returned: TRUE for success

Init == store = [k \in Key |-> None] /\ op = None /\ reply = TRUE

Call == /\ op = None
        /\ \E k \in Key, v \in Value \cup {None} : op' = [key |-> k, val |-> v]
        /\ reply' = TRUE /\ UNCHANGED store

Applied == [store EXCEPT ![op.key] = op.val]

Succeed == op # None /\ op' = None /\ reply' = TRUE /\ store' = Applied
Fail    == op # None /\ op' = None /\ reply' = FALSE /\ store' = store

Reset == op # None /\ op' = None /\ reply' = reply /\ store' \in {store, Applied}

Next == Call \/ Succeed \/ Fail \/ Reset

Spec == Init /\ [][Next]_<<op, reply, store>>
=============================================================================
