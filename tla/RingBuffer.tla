----------------------------- MODULE RingBuffer -----------------------------
(***************************************************************************)
(* struct rt_ringbuffer (Drivers/ipc/ringbuffer.{h,c}) and its operations  *)
(* as functions of its value: two indices, a mirror bit with each that is  *)
(* flipped when the index wraps, and the pool of bytes.                    *)
(***************************************************************************)
EXTENDS Integers, Sequences

CONSTANT buffer_size      \* ALIGN_DOWN(size, RT_ALIGN_SIZE)

ASSUME BufferSizeAssumption == buffer_size \in Nat \ {0}

Index == 0..(buffer_size - 1)

rt_ringbuffer ==
    [ read_mirror : {0, 1}, read_index : Index,
      write_mirror : {0, 1}, write_index : Index ]

(* rt_ringbuffer_init and rt_ringbuffer_reset: the pool is left alone.     *)
rt_ringbuffer_reset ==
    [ read_mirror |-> 0, read_index |-> 0, write_mirror |-> 0, write_index |-> 0 ]

rt_ringbuffer_status(rb) ==
    IF rb.read_index # rb.write_index THEN "HALFFULL"
    ELSE IF rb.read_mirror = rb.write_mirror THEN "EMPTY" ELSE "FULL"

(* Mutant: the distance of a wrapped writer is one too long.               *)
HalfFullLenLong(wi, ri) == IF wi > ri THEN wi - ri ELSE buffer_size - (ri - wi) + 1

(* What data_len makes of the two indices when they differ.                *)
HalfFullLen(wi, ri) == IF wi > ri THEN wi - ri ELSE buffer_size - (ri - wi)

rt_ringbuffer_data_len(rb) ==
    LET status == rt_ringbuffer_status(rb)
    IN  CASE status = "EMPTY"    -> 0
          [] status = "FULL"     -> buffer_size
          [] status = "HALFFULL" -> HalfFullLen(rb.write_index, rb.read_index)

rt_ringbuffer_space_len(rb) == buffer_size - rt_ringbuffer_data_len(rb)

(* Where the byte that is i bytes behind index r lies (i < buffer_size).   *)
At(r, i) == IF r + i < buffer_size THEN r + i ELSE r + i - buffer_size

Wraps(index, n) == buffer_size - index <= n

(* Mutant: the index may stop one past the end.                            *)
WriteMovedLate(rb, n) ==
    IF rb.write_index + n > buffer_size
    THEN [rb EXCEPT !.write_mirror = 1 - @, !.write_index = @ + n - buffer_size]
    ELSE [rb EXCEPT !.write_index = @ + n]

(* Moving an index by n <= buffer_size bytes, to the other side of the     *)
(* mirror when it reaches the end.                                         *)
WriteMoved(rb, n) ==
    IF Wraps(rb.write_index, n)
    THEN [rb EXCEPT !.write_mirror = 1 - @, !.write_index = @ + n - buffer_size]
    ELSE [rb EXCEPT !.write_index = @ + n]

ReadMoved(rb, n) ==
    IF Wraps(rb.read_index, n)
    THEN [rb EXCEPT !.read_mirror = 1 - @, !.read_index = @ + n - buffer_size]
    ELSE [rb EXCEPT !.read_index = @ + n]

(* The two rt_memcpy into the pool.                                        *)
Filled(pool, w, bytes) ==
    [k \in Index |-> LET d == At(k, buffer_size - w)
                     IN  IF d < Len(bytes) THEN bytes[d + 1] ELSE pool[k]]

(* The two rt_memcpy out of the pool, and the byte-wise reads.             *)
Copied(pool, r, n) == [i \in 1..n |-> pool[At(r, i - 1)]]

(* Mutant: the mirror of the overtaken reader is never flipped.            *)
OvertakenSameSide(rb, wrapped) == [rb EXCEPT !.read_index = rb.write_index]

(* The read index after put_force has written n bytes over w's successors  *)
(* and may have overtaken the reader; rb is the value after the write.     *)
Overtaken(rb, wrapped) ==
    [rb EXCEPT !.read_mirror = IF wrapped /\ rb.write_index <= rb.read_index
                               THEN 1 - @ ELSE @,
               !.read_index  = rb.write_index]

(* rt_ringbuffer_putchar_force: the same, for one byte and a full buffer.  *)
CharOvertaken(rb, wrapped) ==
    [rb EXCEPT !.read_mirror = IF wrapped THEN 1 - @ ELSE @,
               !.read_index  = rb.write_index]

(* Mutant: a byte is written although there is no space.                   *)
PutcharUnchecked(rb) == WriteMoved(rb, 1)

(* Mutant: the mirror is not flipped at the end of the pool.               *)
PutcharSameSide(rb) ==
    IF rt_ringbuffer_space_len(rb) = 0 THEN rb
    ELSE [rb EXCEPT !.write_index = At(@, 1)]

(* rt_ringbuffer_putchar: the buffer after it; equal to rb when full.      *)
rt_ringbuffer_putchar(rb) ==
    IF rt_ringbuffer_space_len(rb) = 0 THEN rb ELSE WriteMoved(rb, 1)
=============================================================================
