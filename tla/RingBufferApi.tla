--------------------------- MODULE RingBufferApi ----------------------------
(***************************************************************************)
(* A ring buffer used by one caller, one action per function of            *)
(* Drivers/ipc/ringbuffer.c.  UsartReceive has the two-sided use.          *)
(***************************************************************************)
EXTENDS RingBuffer, SequencesExt

CONSTANTS Byte,       \* what a byte can be
          Stale,      \* what the pool holds before anything is written
          MaxCall     \* the longest transfer asked for in one call

VARIABLES rb,     \* struct rt_ringbuffer
          pool,   \* *buffer_ptr
          answer  \* the last call's return value, and the bytes it handed out

vars == <<rb, pool, answer>>

ASSUME ApiAssumption == Stale \in Byte /\ MaxCall \in Nat \ {0}

TypeOK ==
    /\ rb \in rt_ringbuffer
    /\ pool \in [Index -> Byte]
    /\ answer.count \in 0..(IF MaxCall > buffer_size THEN MaxCall ELSE buffer_size)
    /\ answer.bytes \in Seq(Byte)

Init ==
    /\ rb = rt_ringbuffer_reset
    /\ pool = [k \in Index |-> Stale]
    /\ answer = [count |-> 0, bytes |-> <<>>]

Answer(n, bytes) == answer' = [count |-> n, bytes |-> bytes]

Wrote(bytes) == pool' = Filled(pool, rb.write_index, bytes)

rt_ringbuffer_put(s) ==
    LET space == rt_ringbuffer_space_len(rb)
        n     == IF space < Len(s) THEN space ELSE Len(s)
    IN  /\ Answer(n, <<>>)
        /\ IF space = 0 THEN UNCHANGED <<rb, pool>>
           ELSE /\ Wrote(SubSeq(s, 1, n))
                /\ rb' = WriteMoved(rb, n)

rt_ringbuffer_put_force(s) ==
    LET n     == IF Len(s) > buffer_size THEN buffer_size ELSE Len(s)
        moved == WriteMoved(rb, n)
    IN  /\ Answer(n, <<>>)
        /\ Wrote(SubSeq(s, Len(s) - n + 1, Len(s)))
        /\ rb' = IF n > rt_ringbuffer_space_len(rb)
                 THEN Overtaken(moved, Wraps(rb.write_index, n)) ELSE moved

PutChar(ch) ==
    /\ rb' = rt_ringbuffer_putchar(rb)
    /\ IF rb' = rb THEN UNCHANGED pool /\ Answer(0, <<>>)
       ELSE Wrote(<<ch>>) /\ Answer(1, <<>>)

rt_ringbuffer_putchar_force(ch) ==
    LET moved == WriteMoved(rb, 1)
    IN  /\ Wrote(<<ch>>)
        /\ Answer(1, <<>>)
        /\ rb' = IF rt_ringbuffer_status(rb) = "FULL"
                 THEN CharOvertaken(moved, Wraps(rb.write_index, 1)) ELSE moved

(* rt_ringbuffer_get; with length 1 also rt_ringbuffer_getchar.            *)
rt_ringbuffer_get(length) ==
    LET size == rt_ringbuffer_data_len(rb)
        n    == IF size < length THEN size ELSE length
    IN  /\ Answer(n, Copied(pool, rb.read_index, n))
        /\ rb' = IF size = 0 THEN rb ELSE ReadMoved(rb, n)
        /\ UNCHANGED pool

(* Hands out a pointer to the bytes up to the end of the pool and, despite *)
(* its name, takes them out of the buffer.                                 *)
rt_ringbuffer_peek ==
    LET size == rt_ringbuffer_data_len(rb)
        n    == IF Wraps(rb.read_index, size) THEN buffer_size - rb.read_index ELSE size
    IN  /\ Answer(n, Copied(pool, rb.read_index, n))
        /\ rb' = IF size = 0 THEN rb ELSE ReadMoved(rb, n)
        /\ UNCHANGED pool

Reset == rb' = rt_ringbuffer_reset /\ UNCHANGED <<pool, answer>>

Next ==
    \/ \E s \in BoundedSeq(Byte, MaxCall) :
           rt_ringbuffer_put(s) \/ rt_ringbuffer_put_force(s)
    \/ \E ch \in Byte : PutChar(ch) \/ rt_ringbuffer_putchar_force(ch)
    \/ \E length \in 0..MaxCall : rt_ringbuffer_get(length)
    \/ rt_ringbuffer_peek
    \/ Reset

Spec == Init /\ [][Next]_vars

(* The bytes between the read and the write index are a queue, and every   *)
(* call does to them what its comment says: put drops what does not fit,   *)
(* put_force and putchar_force drop the oldest, get and peek hand out the  *)
(* oldest in order, whatever the position of the two indices.              *)
Queue == INSTANCE ByteQueue
    WITH Capacity <- buffer_size,
         q <- Copied(pool, rb.read_index, rt_ringbuffer_data_len(rb))

ImplementsQueue == Queue!QueueSpec
=============================================================================
