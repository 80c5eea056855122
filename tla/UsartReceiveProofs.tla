------------------------- MODULE UsartReceiveProofs -------------------------
(***************************************************************************)
(* UsartReceive for every buffer size and number of bytes: the shell, that *)
(* reads one byte at a time, loses and repeats nothing.                    *)
(***************************************************************************)
EXTENDS UsartReceive, TLAPS

(* The length computed from the indices and mirrors is the distance of the *)
(* reader to the writer.                                                   *)
LEMMA LenIsDistance ==
    ASSUME NEW b \in rt_ringbuffer, NEW n \in Int,
           Behind(b.read_mirror, b.read_index, b.write_mirror, b.write_index, n)
    PROVE  rt_ringbuffer_data_len(b) = n /\ n \in 0..buffer_size
BY BufferSizeAssumption
   DEF rt_ringbuffer, Index, Behind, rt_ringbuffer_data_len, rt_ringbuffer_status, HalfFullLen

(* A byte put behind n < buffer_size others keeps their distance and is    *)
(* the last of them.                                                       *)
LEMMA PutKeepsDistance ==
    ASSUME NEW b \in rt_ringbuffer, NEW r \in Index, NEW n \in Int, n < buffer_size,
           Behind(b.read_mirror, r, b.write_mirror, b.write_index, n)
    PROVE  LET d == WriteMoved(b, 1)
           IN  /\ d \in rt_ringbuffer
               /\ d.read_mirror = b.read_mirror /\ d.read_index = b.read_index
               /\ Behind(d.read_mirror, r, d.write_mirror, d.write_index, n + 1)
               /\ n \in 0..buffer_size
               /\ b.write_index = At(r, n)
<1> DEFINE d == WriteMoved(b, 1)
<1>1. CASE Wraps(b.write_index, 1)
    <2>1. d = [b EXCEPT !.write_mirror = 1 - @, !.write_index = @ + 1 - buffer_size]
        BY <1>1 DEF WriteMoved
    <2>2. b.write_index = buffer_size - 1
        BY <1>1, BufferSizeAssumption DEF Wraps, rt_ringbuffer, Index
    <2>3. 1 - b.write_mirror \in {0, 1} /\ b.write_index + 1 - buffer_size = 0 /\ 0 \in Index
        BY <2>2, BufferSizeAssumption DEF rt_ringbuffer, Index
    <2>4. /\ d \in rt_ringbuffer
          /\ d.read_mirror = b.read_mirror /\ d.read_index = b.read_index
          /\ d.write_mirror = 1 - b.write_mirror /\ d.write_index = 0
        BY <2>1, <2>3 DEF rt_ringbuffer
    <2>5. QED BY <2>2, <2>4, BufferSizeAssumption DEF rt_ringbuffer, Index, Behind, At
<1>2. CASE ~Wraps(b.write_index, 1)
    <2>1. d = [b EXCEPT !.write_index = @ + 1]
        BY <1>2 DEF WriteMoved
    <2>2. b.write_index < buffer_size - 1
        BY <1>2, BufferSizeAssumption DEF Wraps, rt_ringbuffer, Index
    <2>3. QED BY <2>1, <2>2, BufferSizeAssumption DEF rt_ringbuffer, Index, Behind, At
<1>3. QED BY <1>1, <1>2

(* ... and it lies where none of the others does.                          *)
LEMMA PutKeepsBytes ==
    ASSUME NEW p \in [Index -> Nat], NEW r \in Index, NEW t \in Nat,
           NEW n \in 0..(buffer_size - 1), Holding(p, r, t, n)
    PROVE  Holding([p EXCEPT ![At(r, n)] = t + n + 1], r, t, n + 1)
<1>1. At(r, n) \in Index
    BY BufferSizeAssumption DEF At, Index
<1>2. SUFFICES ASSUME NEW i \in 0..n
               PROVE  [p EXCEPT ![At(r, n)] = t + n + 1][At(r, i)] = t + 1 + i
    BY DEF Holding
<1>3. At(r, i) \in Index /\ (i # n => At(r, i) # At(r, n))
    BY BufferSizeAssumption DEF At, Index
<1>4. CASE i = n BY <1>1, <1>4
<1>5. CASE i # n
    <2>1. p[At(r, i)] = t + 1 + i BY <1>5 DEF Holding
    <2>2. QED BY <1>1, <1>3, <1>5, <2>1
<1>6. QED BY <1>4, <1>5

(* Taking one of n > 0 bytes.                                              *)
LEMMA TakeKeepsBytes ==
    ASSUME NEW p \in [Index -> Nat], NEW r \in Index, NEW t \in Nat,
           NEW n \in 1..buffer_size, Holding(p, r, t, n)
    PROVE  /\ p[r] = t + 1
           /\ Holding(p, At(r, 1), t + 1, n - 1)
<1>1. At(r, 0) = r BY BufferSizeAssumption DEF At, Index
<1>2. p[r] = t + 1 BY <1>1 DEF Holding
<1>3. SUFFICES ASSUME NEW i \in 0..(n - 2)
               PROVE  p[At(At(r, 1), i)] = t + 1 + 1 + i
    BY <1>2 DEF Holding
<1>4. At(At(r, 1), i) = At(r, i + 1)
    BY BufferSizeAssumption DEF At, Index
<1>5. p[At(r, i + 1)] = t + 1 + (i + 1) BY DEF Holding
<1>6. QED BY <1>4, <1>5

-----------------------------------------------------------------------------

LEMMA InitIInv == Init => IInv
<1> SUFFICES ASSUME Init PROVE IInv OBVIOUS
<1> USE BufferSizeAssumption, ReceiveAssumption DEF Init
<1>1. rb \in rt_ringbuffer
    BY DEF rt_ringbuffer_reset, rt_ringbuffer, Index
<1>2. TypeOK
    <2>1. pool \in [Index -> 0..MaxBytes] /\ copied \in Seq(0..MaxBytes)
        OBVIOUS
    <2>2. length \in Nat /\ accepted \in 0..MaxBytes /\ taken \in 0..accepted
        OBVIOUS
    <2>3. fired \in BOOLEAN /\ pc = "idle"
        OBVIOUS
    <2>4. QED BY <1>1, <2>1, <2>2, <2>3 DEF TypeOK
<1>3. BufferInv
    BY DEF BufferInv, Behind, Holding, ReadIndex, Released, rt_ringbuffer_reset
<1>4. CallInv
    BY DEF CallInv
<1>5. QED BY <1>2, <1>3, <1>4 DEF IInv

(* The handler puts a byte behind those held, or finds the buffer full.    *)
LEMMA HandlerStep ==
    ASSUME IInv, USART0_IRQHandler
    PROVE  /\ IInv'
           /\ accepted' = accepted => accepted - taken = buffer_size
<1> USE BufferSizeAssumption, ReceiveAssumption
<1> DEFINE held == accepted - Released
<1>1. /\ rb \in rt_ringbuffer /\ ReadIndex \in Index /\ held \in Int
      /\ accepted \in Nat /\ taken \in Nat /\ Released \in Nat
      /\ pool \in [Index -> 0..MaxBytes] /\ pool \in [Index -> Nat]
    BY DEF IInv, TypeOK, ReadIndex, Released, rt_ringbuffer, Index
<1>2. Behind(rb.read_mirror, ReadIndex, rb.write_mirror, rb.write_index, held)
    BY DEF IInv, BufferInv
<1>3. pc # "wrap" => rt_ringbuffer_data_len(rb) = held /\ held \in 0..buffer_size
    BY <1>1, <1>2, LenIsDistance DEF ReadIndex
<1>4. pc = "wrap" => rt_ringbuffer_data_len(rb) < buffer_size /\ held < buffer_size
    <2>1. SUFFICES ASSUME pc = "wrap"
                   PROVE  rt_ringbuffer_data_len(rb) < buffer_size /\ held < buffer_size
        OBVIOUS
    <2>2. /\ rb.read_index = buffer_size - 1 /\ accepted - taken <= buffer_size
          /\ ReadIndex = 0 /\ held = accepted - taken - 1 /\ taken < accepted
        BY <2>1, <1>1 DEF IInv, CallInv, USART0_IRQHandler, MayFire, ReadIndex, Released
    <2>3. held < buffer_size
        BY <1>1, <2>2
    <2>4. rb.write_index \in Int /\ 0 <= rb.write_index /\ rb.write_index <= buffer_size - 1
        BY <1>1 DEF rt_ringbuffer, Index
    <2>5. rb.read_mirror = rb.write_mirror /\ held = rb.write_index
        BY <1>1, <1>2, <2>2, <2>3, <2>4 DEF Behind
    <2>6. rt_ringbuffer_data_len(rb) < buffer_size
        BY <2>2, <2>4, <2>5 DEF rt_ringbuffer_data_len, rt_ringbuffer_status, HalfFullLen
    <2>7. QED BY <2>3, <2>6
<1>5. CASE rt_ringbuffer_data_len(rb) = buffer_size
    <2>1. /\ pc # "wrap" /\ accepted - taken = buffer_size
          /\ UNCHANGED <<rb, pool, pc, length, copied, accepted, taken>>
          /\ fired' \in BOOLEAN
        BY <1>3, <1>4, <1>5
           DEF USART0_IRQHandler, rt_ringbuffer_putchar, rt_ringbuffer_space_len, callVars, Released
    <2>2. TypeOK'
        BY <2>1 DEF IInv, TypeOK
    <2>3. BufferInv'
        BY <2>1 DEF IInv, BufferInv, ReadIndex, Released
    <2>4. CallInv'
        BY <2>1 DEF IInv, CallInv
    <2>5. QED BY <2>1, <2>2, <2>3, <2>4 DEF IInv
<1>6. CASE rt_ringbuffer_data_len(rb) # buffer_size
    <2>1. held \in 0..(buffer_size - 1)
        BY <1>1, <1>2, <1>3, <1>4, <1>6, PutKeepsDistance
    <2> DEFINE moved == WriteMoved(rb, 1)
    <2>2. /\ moved \in rt_ringbuffer
          /\ moved.read_mirror = rb.read_mirror /\ moved.read_index = rb.read_index
          /\ Behind(moved.read_mirror, ReadIndex, moved.write_mirror, moved.write_index, held + 1)
          /\ rb.write_index = At(ReadIndex, held)
        BY <1>1, <1>2, <2>1, PutKeepsDistance
    <2>3. rt_ringbuffer_putchar(rb) = moved
        <3>1. rt_ringbuffer_data_len(rb) \in Int
            BY <1>1 DEF rt_ringbuffer_data_len, rt_ringbuffer_status, HalfFullLen, rt_ringbuffer, Index
        <3>2. rt_ringbuffer_space_len(rb) # 0
            BY <1>6, <3>1 DEF rt_ringbuffer_space_len
        <3>3. QED BY <3>2 DEF rt_ringbuffer_putchar
    <2>4. moved # rb
        BY <1>1, <1>2, <2>1, <2>2 DEF Behind, rt_ringbuffer, Index
    <2>5. /\ rb' = moved /\ accepted' = accepted + 1 /\ accepted < MaxBytes
          /\ pool' = [pool EXCEPT ![At(ReadIndex, held)] = accepted + 1]
          /\ fired' = (pc # "idle") /\ UNCHANGED <<pc, length, copied, taken>>
        BY <2>2, <2>3, <2>4 DEF USART0_IRQHandler, callVars
    <2>6. /\ ReadIndex' = ReadIndex /\ Released' = Released
          /\ (accepted - Released)' = held + 1 /\ accepted = Released + held
        BY <1>1, <2>2, <2>5 DEF ReadIndex, Released
    <2>7. TypeOK'
        <3> accepted + 1 \in 0..MaxBytes
            BY <1>1, <2>5
        <3>1. pool' \in [Index -> 0..MaxBytes]
            BY <1>1, <2>5
        <3>2. accepted' \in 0..MaxBytes /\ taken' \in 0..accepted'
            BY <1>1, <2>5 DEF IInv, TypeOK
        <3>3. fired' \in BOOLEAN
            BY <2>5
        <3>4. QED BY <2>2, <2>5, <3>1, <3>2, <3>3 DEF IInv, TypeOK
    <2>8. BufferInv'
        <3>1. Holding(pool, ReadIndex, Released, held)
            BY DEF IInv, BufferInv
        <3>2. Holding([pool EXCEPT ![At(ReadIndex, held)] = Released + held + 1],
                      ReadIndex, Released, held + 1)
            BY <1>1, <2>1, <3>1, PutKeepsBytes
        <3>3. Holding(pool', ReadIndex', Released', (accepted - Released)')
            BY <2>5, <2>6, <3>2
        <3>4. QED BY <2>2, <2>5, <2>6, <3>3 DEF BufferInv
    <2>9. CallInv'
        <3>1. pc = "wrap" => fired' = TRUE
            BY <2>5
        <3>2. rb'.read_index = rb.read_index /\ accepted' > accepted
            BY <1>1, <2>2, <2>5
        <3>3. /\ pc' # "idle" => length' = 1
              /\ pc' \in {"status", "mirror", "indices"} => copied' = <<>>
              /\ pc' = "copy" => copied' \in {<<>>, <<taken' + 1>>}
              /\ pc' = "wrap" => copied' = <<taken' + 1>> /\ rb'.read_index = buffer_size - 1
            BY <2>5, <3>2 DEF IInv, CallInv
        <3>4. pc' \in {"indices", "copy", "wrap"} => taken' < accepted'
            BY <1>1, <2>5, <3>2 DEF IInv, CallInv
        <3>5. QED BY <2>5, <3>1, <3>3, <3>4 DEF CallInv
    <2>10. QED BY <1>1, <2>5, <2>7, <2>8, <2>9 DEF IInv
<1>7. QED BY <1>5, <1>6

(* The steps of a call that change nothing of the buffer.                  *)
LEMMA LookStep ==
    ASSUME IInv, Lengths = {1},
           Poll \/ StatusIndices \/ StatusMirrors \/ DataLenIndices \/ CopyByte
    PROVE  IInv'
<1> USE BufferSizeAssumption, ReceiveAssumption
<1> DEFINE held == accepted - taken
<1>1. /\ rb \in rt_ringbuffer /\ rb.read_index \in Index /\ held \in Int
      /\ accepted \in Nat /\ taken \in Nat /\ pool \in [Index -> Nat]
      /\ UNCHANGED <<rb, pool, accepted>>
    BY DEF IInv, TypeOK, rt_ringbuffer, Index, Poll, usart_read, StatusIndices, StatusMirrors,
           DataLenIndices, CopyByte
<1>2. pc # "wrap" /\ pc' # "wrap" /\ taken' = taken
    BY <1>1 DEF Poll, usart_read, StatusIndices, StatusMirrors, DataLenIndices, CopyByte, Returned
<1>3. /\ Behind(rb.read_mirror, rb.read_index, rb.write_mirror, rb.write_index, held)
      /\ Holding(pool, rb.read_index, taken, held)
    BY <1>2 DEF IInv, BufferInv, ReadIndex, Released
<1>4. BufferInv'
    BY <1>1, <1>2, <1>3 DEF BufferInv, ReadIndex, Released
<1>5. CASE Poll
    <2>1. pc' = "status" /\ length' = 1 /\ copied' = <<>> /\ fired' = FALSE
        BY <1>5 DEF Poll, usart_read
    <2>2. TypeOK'
        <3>1. copied' \in Seq(0..MaxBytes) /\ length' \in Nat
            BY <2>1
        <3>2. QED BY <1>1, <1>2, <2>1, <3>1 DEF IInv, TypeOK
    <2>3. CallInv'
        BY <2>1 DEF CallInv
    <2>4. QED BY <1>4, <2>2, <2>3 DEF IInv
<1>6. CASE StatusIndices
    <2>1. rb.read_index # rb.write_index => taken < accepted
        BY <1>1, <1>3 DEF Behind, rt_ringbuffer, Index
    <2>2. /\ UNCHANGED <<length, copied, fired, taken>>
          /\ pc = "status" /\ pc' \in {"mirror", "indices"}
          /\ pc' = "indices" => taken < accepted
        BY <1>6, <2>1 DEF StatusIndices
    <2>3. TypeOK'
        BY <1>1, <2>2 DEF IInv, TypeOK
    <2>4. CallInv'
        BY <1>1, <2>2 DEF IInv, CallInv
    <2>5. QED BY <1>4, <2>3, <2>4 DEF IInv
<1>7. CASE StatusMirrors
    <2>1. rb.read_mirror # rb.write_mirror => taken < accepted
        BY <1>1, <1>3 DEF Behind, rt_ringbuffer, Index
    <2>2. length = 1 /\ copied = <<>>
        BY <1>7 DEF StatusMirrors, IInv, CallInv
    <2>3. /\ copied' = <<>> /\ pc' \in {"idle", "copy"} /\ length' \in {0, 1}
          /\ fired' \in BOOLEAN
          /\ pc' = "copy" => taken < accepted /\ length' = 1
        <3>1. Limited(buffer_size) = 1
            BY <2>2 DEF Limited
        <3>2. CASE rb.read_mirror = rb.write_mirror
            BY <1>7, <2>2, <3>2 DEF StatusMirrors, Returned
        <3>3. CASE rb.read_mirror # rb.write_mirror
            BY <1>7, <2>1, <2>2, <3>1, <3>3 DEF StatusMirrors, IInv, TypeOK
        <3>4. QED BY <3>2, <3>3
    <2>4. TypeOK'
        <3>1. copied' \in Seq(0..MaxBytes) /\ length' \in Nat
            BY <2>3
        <3>2. QED BY <1>1, <1>2, <2>3, <3>1 DEF IInv, TypeOK
    <2>5. CallInv'
        BY <1>1, <1>2, <2>3 DEF CallInv
    <2>6. QED BY <1>4, <2>4, <2>5 DEF IInv
<1>8. CASE DataLenIndices
    <2>1. /\ HalfFullLen(rb.write_index, rb.read_index) >= 1
          /\ HalfFullLen(rb.write_index, rb.read_index) \in Int
        BY <1>1 DEF HalfFullLen, rt_ringbuffer, Index
    <2>2. length = 1 /\ copied = <<>> /\ taken < accepted
        BY <1>8 DEF DataLenIndices, IInv, CallInv
    <2>3. length' = 1 /\ copied' = <<>> /\ pc' = "copy" /\ fired' = fired
        BY <1>8, <2>1, <2>2 DEF DataLenIndices, Limited
    <2>4. TypeOK'
        BY <1>1, <1>2, <2>3 DEF IInv, TypeOK
    <2>5. CallInv'
        BY <1>1, <1>2, <2>2, <2>3 DEF CallInv
    <2>6. QED BY <1>4, <2>4, <2>5 DEF IInv
<1>9. CASE CopyByte
    <2>1. /\ length = 1 /\ copied \in {<<>>, <<taken + 1>>}
          /\ taken < accepted /\ Len(copied) < length
        BY <1>9 DEF CopyByte, IInv, CallInv
    <2>2. copied = <<>>
        BY <2>1
    <2>3. held \in 1..buffer_size
        BY <1>1, <1>3, <2>1, LenIsDistance
    <2>4. pool[rb.read_index] = taken + 1
        BY <1>1, <1>3, <2>3, TakeKeepsBytes
    <2>5. At(rb.read_index, Len(copied)) = rb.read_index
        BY <1>1, <2>2 DEF At, Index
    <2>6. /\ copied' = <<taken + 1>> /\ pc' = "copy" /\ pc = "copy"
          /\ UNCHANGED <<length, fired>>
        BY <1>9, <2>2, <2>4, <2>5 DEF CopyByte
    <2>7. taken + 1 \in 0..MaxBytes
        BY <1>1, <2>1 DEF IInv, TypeOK
    <2>8. TypeOK'
        BY <1>1, <1>2, <2>6, <2>7 DEF IInv, TypeOK
    <2>9. CallInv'
        BY <1>1, <1>2, <2>1, <2>6 DEF CallInv
    <2>10. QED BY <1>4, <2>8, <2>9 DEF IInv
<1>10. QED BY <1>5, <1>6, <1>7, <1>8, <1>9

(* Taking the byte out, in one store or in two.                            *)
LEMMA MoveStep ==
    ASSUME IInv, Lengths = {1}, MoveIndex \/ FlipMirror \/ WrapIndex
    PROVE  IInv'
<1> USE BufferSizeAssumption, ReceiveAssumption
<1> DEFINE held == accepted - taken
<1>1. /\ rb \in rt_ringbuffer /\ rb.read_index \in Index /\ rb.write_index \in Index
      /\ rb.read_mirror \in {0, 1} /\ rb.write_mirror \in {0, 1}
      /\ held \in Int /\ accepted \in 0..MaxBytes /\ taken \in Nat /\ pool \in [Index -> Nat]
      /\ copied = <<taken + 1>> /\ length = 1 /\ taken < accepted
      /\ UNCHANGED <<pool, accepted, copied>>
    BY DEF IInv, TypeOK, CallInv, rt_ringbuffer, Index, MoveIndex, FlipMirror, WrapIndex
<1>2. CASE WrapIndex
    <2>1. /\ rb' = [rb EXCEPT !.read_index = 0] /\ pc = "wrap" /\ pc' = "idle"
          /\ taken' = taken + 1 /\ length' = 1 /\ fired' = FALSE
        BY <1>1, <1>2 DEF WrapIndex, Returned, IInv, CallInv, Index
    <2>2. 0 \in Index
        BY DEF Index
    <2>3. TypeOK'
        <3>1. rb' \in rt_ringbuffer
            BY <1>1, <2>1, <2>2 DEF rt_ringbuffer
        <3>2. taken' \in 0..accepted
            BY <1>1, <2>1
        <3>3. QED BY <1>1, <2>1, <3>1, <3>2 DEF IInv, TypeOK
    <2>4. BufferInv'
        BY <1>1, <2>1 DEF IInv, BufferInv, ReadIndex, Released, rt_ringbuffer
    <2>5. CallInv'
        BY <2>1 DEF CallInv
    <2>6. QED BY <2>3, <2>4, <2>5 DEF IInv
<1>3. ASSUME MoveIndex \/ FlipMirror
      PROVE  /\ pc = "copy"
             /\ Behind(rb.read_mirror, rb.read_index, rb.write_mirror, rb.write_index, held)
             /\ held \in 1..buffer_size
             /\ Holding(pool, At(rb.read_index, 1), taken + 1, held - 1)
    <2>1. pc = "copy"
        BY <1>3 DEF MoveIndex, FlipMirror
    <2>2. /\ Behind(rb.read_mirror, rb.read_index, rb.write_mirror, rb.write_index, held)
          /\ Holding(pool, rb.read_index, taken, held)
        BY <2>1 DEF IInv, BufferInv, ReadIndex, Released
    <2>3. held \in 1..buffer_size
        BY <1>1, <2>2, LenIsDistance
    <2>4. QED BY <1>1, <2>1, <2>2, <2>3, TakeKeepsBytes
<1>4. CASE MoveIndex
    <2>1. rb.read_index + 1 \in Index /\ At(rb.read_index, 1) = rb.read_index + 1
        BY <1>1, <1>4 DEF MoveIndex, Wraps, Index, At
    <2>2. /\ rb' = [rb EXCEPT !.read_index = rb.read_index + 1]
          /\ pc' = "idle" /\ taken' = taken + 1 /\ length' = 1 /\ fired' = FALSE
        BY <1>1, <1>4 DEF MoveIndex, ReadMoved, Returned
    <2>3. TypeOK'
        <3>1. rb' \in rt_ringbuffer
            BY <1>1, <2>1, <2>2 DEF rt_ringbuffer
        <3>2. taken' \in 0..accepted
            BY <1>1, <2>2
        <3>3. QED BY <1>1, <2>2, <3>1, <3>2 DEF IInv, TypeOK
    <2>4. /\ rb'.read_mirror = rb.read_mirror /\ rb'.read_index = rb.read_index + 1
          /\ rb'.write_mirror = rb.write_mirror /\ rb'.write_index = rb.write_index
        BY <1>1, <2>2 DEF rt_ringbuffer
    <2>5. Behind(rb.read_mirror, rb.read_index + 1, rb.write_mirror, rb.write_index, held - 1)
        <3>1. Behind(rb.read_mirror, rb.read_index, rb.write_mirror, rb.write_index, held)
            BY <1>3, <1>4
        <3>2. held >= 1
            BY <1>3, <1>4
        <3>3. rb.read_index \in Int /\ rb.write_index \in Int
            BY <1>1 DEF Index
        <3>4. CASE rb.read_mirror = rb.write_mirror
            BY <1>1, <3>1, <3>2, <3>3, <3>4 DEF Behind
        <3>5. CASE rb.read_mirror # rb.write_mirror
            BY <1>1, <3>1, <3>2, <3>3, <3>5 DEF Behind
        <3>6. QED BY <3>4, <3>5
    <2>6. /\ ReadIndex' = rb.read_index + 1 /\ Released' = taken + 1
          /\ (accepted - Released)' = held - 1
        BY <1>1, <2>2, <2>4 DEF ReadIndex, Released
    <2>7. BufferInv'
        BY <1>1, <1>3, <1>4, <2>1, <2>4, <2>5, <2>6 DEF BufferInv
    <2>8. CallInv'
        BY <2>2 DEF CallInv
    <2>9. QED BY <2>3, <2>7, <2>8 DEF IInv
<1>5. CASE FlipMirror
    <2>1. rb.read_index = buffer_size - 1 /\ At(rb.read_index, 1) = 0
        BY <1>1, <1>5 DEF FlipMirror, Wraps, Index, At
    <2>2. /\ rb' = [rb EXCEPT !.read_mirror = 1 - rb.read_mirror]
          /\ pc' = "wrap" /\ UNCHANGED <<taken, length, fired>>
        BY <1>5 DEF FlipMirror
    <2>3. TypeOK'
        <3>1. 1 - rb.read_mirror \in {0, 1}
            BY <1>1
        <3>2. rb' \in rt_ringbuffer
            BY <1>1, <2>2, <3>1 DEF rt_ringbuffer
        <3>3. QED BY <1>1, <2>2, <3>2 DEF IInv, TypeOK
    <2>4. /\ rb'.read_mirror = 1 - rb.read_mirror /\ rb'.read_index = rb.read_index
          /\ rb'.write_mirror = rb.write_mirror /\ rb'.write_index = rb.write_index
        BY <1>1, <2>2 DEF rt_ringbuffer
    <2>5. Behind(1 - rb.read_mirror, 0, rb.write_mirror, rb.write_index, held - 1)
        <3>1. Behind(rb.read_mirror, rb.read_index, rb.write_mirror, rb.write_index, held)
            BY <1>3, <1>5
        <3>2. held >= 1
            BY <1>3, <1>5
        <3>3. rb.write_index \in Int /\ 0 <= rb.write_index /\ rb.write_index <= buffer_size - 1
            BY <1>1 DEF Index
        <3>4. rb.read_mirror # rb.write_mirror
            BY <1>1, <2>1, <3>1, <3>2, <3>3 DEF Behind
        <3>5. 1 - rb.read_mirror = rb.write_mirror
            BY <1>1, <3>4
        <3>6. held - 1 = rb.write_index - 0
            BY <1>1, <2>1, <3>1, <3>3, <3>4 DEF Behind
        <3>7. QED BY <3>3, <3>5, <3>6 DEF Behind
    <2>6. ReadIndex' = 0 /\ Released' = taken + 1 /\ (accepted - Released)' = held - 1
        BY <1>1, <2>2 DEF ReadIndex, Released
    <2>7. BufferInv'
        BY <1>1, <1>3, <1>5, <2>1, <2>4, <2>5, <2>6 DEF BufferInv
    <2>8. CallInv'
        BY <1>1, <1>3, <1>5, <2>1, <2>2, <2>4 DEF CallInv
    <2>9. QED BY <2>3, <2>7, <2>8 DEF IInv
<1>6. QED BY <1>2, <1>4, <1>5

LEMMA StepIInv ==
    ASSUME Lengths = {1}, IInv, [Next]_vars
    PROVE  IInv'
<1>1. CASE USART0_IRQHandler
    BY <1>1, HandlerStep
<1>2. CASE Poll
    BY <1>2, LookStep
<1>3. CASE rt_ringbuffer_get
    BY <1>3, LookStep, MoveStep DEF rt_ringbuffer_get
<1>4. CASE UNCHANGED vars
    BY <1>4 DEF vars, IInv, TypeOK, BufferInv, CallInv, ReadIndex, Released
<1>5. QED BY <1>1, <1>2, <1>3, <1>4 DEF Next

THEOREM Invariance == ASSUME Lengths = {1} PROVE Spec => []IInv
<1>1. Init => IInv
    BY InitIInv
<1>2. IInv /\ [Next]_vars => IInv'
    BY StepIInv
<1>3. QED BY <1>1, <1>2, PTL DEF Spec

(* The reader sees the bytes in the order of their arrival and none twice, *)
(* for every buffer size and every interleaving with the handler.          *)
THEOREM ReadsInOrder == ASSUME Lengths = {1} PROVE Spec => []InOrder
<1>1. IInv => InOrder
    <2>1. SUFFICES ASSUME IInv, NEW i \in 1..Len(copied), pc # "idle"
                   PROVE  copied[i] = taken + i
        BY DEF InOrder
    <2>2. copied \in {<<>>, <<taken + 1>>}
        BY <2>1 DEF IInv, TypeOK, CallInv
    <2>3. QED BY <2>1, <2>2
<1>2. QED BY <1>1, Invariance, PTL

(* Between calls the buffer holds what was accepted and not yet returned.  *)
THEOREM LosesNothing == ASSUME Lengths = {1} PROVE Spec => []NothingLost
<1>1. IInv => NothingLost
    <2>1. SUFFICES ASSUME IInv, pc = "idle"
                   PROVE  Copied(pool, rb.read_index, rt_ringbuffer_data_len(rb))
                              = [i \in 1..(accepted - taken) |-> taken + i]
        BY DEF NothingLost
    <2>2. /\ rb \in rt_ringbuffer /\ accepted - taken \in Int
          /\ accepted \in Nat /\ taken \in Nat
        BY <2>1, ReceiveAssumption DEF IInv, TypeOK
    <2>3. /\ Behind(rb.read_mirror, rb.read_index, rb.write_mirror, rb.write_index, accepted - taken)
          /\ Holding(pool, rb.read_index, taken, accepted - taken)
        BY <2>1 DEF IInv, BufferInv, ReadIndex, Released
    <2>4. rt_ringbuffer_data_len(rb) = accepted - taken
        BY <2>2, <2>3, LenIsDistance
    <2>5. \A i \in 1..(accepted - taken) : pool[At(rb.read_index, i - 1)] = taken + i
        <3>1. SUFFICES ASSUME NEW i \in 1..(accepted - taken)
                       PROVE  pool[At(rb.read_index, i - 1)] = taken + i
            OBVIOUS
        <3>2. i - 1 \in 0..(accepted - taken - 1)
            BY <2>2
        <3>3. pool[At(rb.read_index, i - 1)] = taken + 1 + (i - 1)
            BY <2>3, <3>2 DEF Holding
        <3>4. QED BY <2>2, <3>3
    <2>6. QED BY <2>4, <2>5 DEF Copied
<1>2. QED BY <1>1, Invariance, PTL

(* A byte is dropped only if buffer_size others are waiting.               *)
THEOREM DropsAreJustified == ASSUME Lengths = {1} PROVE Spec => DropsOnlyWhenFull
<1>1. IInv /\ [Next]_vars
          => [USART0_IRQHandler /\ UNCHANGED accepted => accepted - taken = buffer_size]_vars
    BY HandlerStep
<1>2. QED BY <1>1, Invariance, PTL DEF Spec, DropsOnlyWhenFull
=============================================================================
