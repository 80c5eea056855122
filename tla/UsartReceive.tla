---------------------------- MODULE UsartReceive ----------------------------
(***************************************************************************)
(* The receive path of the console: USART0_IRQHandler puts each byte into  *)
(* the ring buffer of Drivers/bsp/usart.c, the main loop takes bytes out   *)
(* with usart_read.  No interrupt is masked, so the handler may run        *)
(* between any two loads and stores of rt_ringbuffer_get; the main loop    *)
(* never runs inside the handler.  The application is built without        *)
(* optimisation: each field is loaded when the source names it, and        *)
(* flipping read_mirror and moving read_index are two stores.              *)
(*                                                                         *)
(* A byte is its number: the i-th byte the buffer has accepted is i.       *)
(***************************************************************************)
EXTENDS RingBuffer

CONSTANTS Lengths,   \* what callers of usart_read ask for, {1} in the shell
          MaxBytes   \* bound: bytes the buffer accepts in a behaviour

ASSUME ReceiveAssumption == Lengths \subseteq Nat \ {0} /\ MaxBytes \in Nat

VARIABLES rb, pool,
          pc,        \* where the main loop is in rt_ringbuffer_get
          length,    \* its argument, later what it will return
          copied,    \* the bytes copied to the caller so far
          fired,     \* the handler has run since the call began
          accepted,  \* history: bytes put into the buffer
          taken      \* history: bytes returned to callers

vars == <<rb, pool, pc, length, copied, fired, accepted, taken>>

callVars == <<pc, length, copied, taken>>

TypeOK ==
    /\ rb \in rt_ringbuffer
    /\ pool \in [Index -> 0..MaxBytes]
    /\ pc \in {"idle", "status", "mirror", "indices", "copy", "wrap"}
    /\ length \in Nat
    /\ copied \in Seq(0..MaxBytes)
    /\ fired \in BOOLEAN
    /\ accepted \in 0..MaxBytes
    /\ taken \in 0..accepted

Init ==
    /\ rb = rt_ringbuffer_reset
    /\ pool = [k \in Index |-> 0]
    /\ pc = "idle" /\ length = 0 /\ copied = <<>> /\ fired = FALSE
    /\ accepted = 0 /\ taken = 0

(* A byte takes 87 us at 115200 baud, some 10,000 cycles and longer than   *)
(* any call of rt_ringbuffer_get: one interrupt in a call at the most.     *)
MayFire == pc = "idle" \/ ~fired

USART0_IRQHandler ==
    /\ MayFire
    /\ accepted < MaxBytes
    /\ rb' = rt_ringbuffer_putchar(rb)
    /\ IF rb' = rb THEN UNCHANGED <<pool, accepted>>
       ELSE /\ pool' = [pool EXCEPT ![rb.write_index] = accepted + 1]
            /\ accepted' = accepted + 1
    /\ fired' = (pc # "idle")
    /\ UNCHANGED callVars

usart_read(n) ==
    /\ pc = "idle"
    /\ pc' = "status" /\ length' = n /\ copied' = <<>> /\ fired' = FALSE
    /\ UNCHANGED <<rb, pool, accepted, taken>>

Returned(n) == pc' = "idle" /\ taken' = taken + n /\ length' = n /\ fired' = FALSE

(* rt_ringbuffer_status compares the indices ...                           *)
StatusIndices ==
    /\ pc = "status"
    /\ pc' = IF rb.read_index = rb.write_index THEN "mirror" ELSE "indices"
    /\ UNCHANGED <<rb, pool, length, copied, fired, accepted, taken>>

Limited(size) == IF size < length THEN size ELSE length

(* Mutant: a full buffer is taken for an empty one.                        *)
StatusMirrorsSwapped ==
    /\ pc = "mirror"
    /\ Returned(0)
    /\ UNCHANGED <<rb, pool, copied, accepted>>

(* ... and, loading them later, the mirrors.                               *)
StatusMirrors ==
    /\ pc = "mirror"
    /\ IF rb.read_mirror = rb.write_mirror
       THEN Returned(0)
       ELSE /\ pc' = "copy" /\ length' = Limited(buffer_size)
            /\ UNCHANGED <<fired, taken>>
    /\ UNCHANGED <<rb, pool, copied, accepted>>

(* rt_ringbuffer_data_len loads the indices again.                         *)
DataLenIndices ==
    /\ pc = "indices"
    /\ pc' = "copy"
    /\ length' = Limited(HalfFullLen(rb.write_index, rb.read_index))
    /\ UNCHANGED <<rb, pool, copied, fired, accepted, taken>>

CopyByte ==
    /\ pc = "copy" /\ Len(copied) < length
    /\ copied' = Append(copied, pool[At(rb.read_index, Len(copied))])
    /\ UNCHANGED <<rb, pool, pc, length, fired, accepted, taken>>

(* rb->read_index += length                                                *)
MoveIndex ==
    /\ pc = "copy" /\ Len(copied) = length
    /\ ~Wraps(rb.read_index, length)
    /\ rb' = ReadMoved(rb, length)
    /\ Returned(length)
    /\ UNCHANGED <<pool, copied, accepted>>

FlipMirror ==
    /\ pc = "copy" /\ Len(copied) = length
    /\ Wraps(rb.read_index, length)
    /\ rb' = [rb EXCEPT !.read_mirror = 1 - @]
    /\ pc' = "wrap"
    /\ UNCHANGED <<pool, length, copied, fired, accepted, taken>>

WrapIndex ==
    /\ pc = "wrap"
    /\ rb' = [rb EXCEPT !.read_index = @ + length - buffer_size]
    /\ Returned(length)
    /\ UNCHANGED <<pool, copied, accepted>>

rt_ringbuffer_get ==
    \/ StatusIndices \/ StatusMirrors \/ DataLenIndices
    \/ CopyByte \/ MoveIndex \/ FlipMirror \/ WrapIndex

Poll == \E n \in Lengths : usart_read(n)

Next == USART0_IRQHandler \/ Poll \/ rt_ringbuffer_get

Spec == Init /\ [][Next]_vars

-----------------------------------------------------------------------------

(* What a call has copied are the bytes that follow those returned before, *)
(* in the order in which they arrived: the reader never sees a byte of an  *)
(* earlier lap, whenever the handler interrupts it.                        *)
InOrder == \A i \in 1..Len(copied) : pc # "idle" => copied[i] = taken + i

(* Between two calls the buffer holds exactly the accepted bytes that have *)
(* not been returned: none has been overwritten, dropped or duplicated.    *)
NothingLost ==
    pc = "idle" =>
        Copied(pool, rb.read_index, rt_ringbuffer_data_len(rb))
            = [i \in 1..(accepted - taken) |-> taken + i]

(* The handler drops a byte only if the buffer holds buffer_size bytes,    *)
(* also when it interrupts a call that has flipped read_mirror but not yet *)
(* moved read_index.                                                       *)
DropsOnlyWhenFull ==
    [][USART0_IRQHandler /\ UNCHANGED accepted
           => accepted - taken = buffer_size]_vars

(* The shell's timer polls again and again and a call, once begun, goes on;*)
(* nothing is assumed of the sender.                                       *)
Fairness == WF_vars(Poll) /\ WF_vars(rt_ringbuffer_get)

FairSpec == Spec /\ Fairness

(* Every byte accepted is returned to a caller in the end.                 *)
EveryByteIsRead == \A k \in 1..MaxBytes : accepted >= k ~> taken >= k

-----------------------------------------------------------------------------

(* The inductive invariant, for callers that ask for one byte.  While the  *)
(* mirror is flipped and the index not yet moved, what the buffer holds is *)
(* said of the indices as they will be.                                    *)
ReadIndex == IF pc = "wrap" THEN 0 ELSE rb.read_index

Released == IF pc = "wrap" THEN taken + 1 ELSE taken

(* The mirrors say on which side of the writer the reader is, n bytes      *)
(* behind it.                                                              *)
Behind(rm, r, wm, w, n) ==
    IF rm = wm THEN r <= w /\ n = w - r
    ELSE w <= r /\ n = buffer_size - (r - w)

Holding(p, r, t, n) == \A i \in 0..(n - 1) : p[At(r, i)] = t + 1 + i

BufferInv ==
    LET held == accepted - Released
    IN  /\ Behind(rb.read_mirror, ReadIndex, rb.write_mirror, rb.write_index, held)
        /\ Holding(pool, ReadIndex, Released, held)

CallInv ==
    /\ pc # "idle" => length = 1
    /\ pc \in {"status", "mirror", "indices"} => copied = <<>>
    /\ pc \in {"indices", "copy", "wrap"} => taken < accepted
    /\ pc = "copy" => copied \in {<<>>, <<taken + 1>>}
    /\ pc = "wrap" => /\ copied = <<taken + 1>>
                      /\ rb.read_index = buffer_size - 1
                      /\ ~fired => accepted - taken <= buffer_size

IInv == TypeOK /\ BufferInv /\ CallInv
=============================================================================
