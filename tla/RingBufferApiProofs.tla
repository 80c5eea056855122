------------------------ MODULE RingBufferApiProofs -------------------------
(***************************************************************************)
(* The ring buffer implements the queue of ByteQueue for every size of the *)
(* pool, every set of bytes and transfers of every length.                 *)
(***************************************************************************)
EXTENDS RingBufferApi, SequenceTheorems, TLAPS

N == buffer_size

(* On the same side of the mirror the writer is not behind the reader, on  *)
(* different sides it is not before it.                                    *)
Sided(b) ==
    IF b.read_mirror = b.write_mirror THEN b.read_index <= b.write_index
    ELSE b.write_index <= b.read_index

Good(b) == b \in rt_ringbuffer /\ Sided(b)

IInv == TypeOK /\ Sided(rb)

(* The abstract queue.                                                     *)
Content == Copied(pool, rb.read_index, rt_ringbuffer_data_len(rb))

-----------------------------------------------------------------------------
(* Indices *)

LEMMA AtFacts ==
    ASSUME NEW r \in Index
    PROVE  /\ \A i \in 0..N : At(r, i) \in Index
           /\ At(r, 0) = r /\ At(r, N) = r
           /\ \A i, j \in 0..N : i + j <= N => At(At(r, i), j) = At(r, i + j)
           /\ \A i, j \in 0..(N - 1) : At(r, i) = At(r, j) => i = j
BY BufferSizeAssumption DEF At, Index, N

(* What the length comes to in either case.                                *)
LEMMA LenIsDifference ==
    ASSUME NEW b \in rt_ringbuffer, Sided(b)
    PROVE  rt_ringbuffer_data_len(b) =
             IF b.read_mirror = b.write_mirror THEN b.write_index - b.read_index
             ELSE N - (b.read_index - b.write_index)
BY BufferSizeAssumption
   DEF rt_ringbuffer, Index, N, rt_ringbuffer_data_len, rt_ringbuffer_status, HalfFullLen, Sided

(* The length is the distance from the reader to the writer.               *)
LEMMA LenFacts ==
    ASSUME NEW b \in rt_ringbuffer, Sided(b)
    PROVE  /\ rt_ringbuffer_data_len(b) \in 0..N
           /\ rt_ringbuffer_space_len(b) = N - rt_ringbuffer_data_len(b)
           /\ At(b.read_index, rt_ringbuffer_data_len(b)) = b.write_index
           /\ b.read_index \in Index /\ b.write_index \in Index
           /\ (rt_ringbuffer_status(b) = "FULL") <=> (rt_ringbuffer_data_len(b) = N)
<1> USE BufferSizeAssumption DEF rt_ringbuffer, Index, N
<1>1. rt_ringbuffer_data_len(b) =
        IF b.read_mirror = b.write_mirror THEN b.write_index - b.read_index
        ELSE N - (b.read_index - b.write_index)
    BY LenIsDifference
<1>2. (rt_ringbuffer_status(b) = "FULL")
        <=> (b.read_index = b.write_index /\ b.read_mirror # b.write_mirror)
    BY DEF rt_ringbuffer_status
<1>3. QED BY <1>1, <1>2 DEF Sided, rt_ringbuffer_space_len, At

(* The value of a buffer after its write index has moved.                  *)
LEMMA WriteMovedFields ==
    ASSUME NEW b \in rt_ringbuffer, NEW n \in 0..N
    PROVE  LET d == WriteMoved(b, n)
           IN  /\ d \in rt_ringbuffer
               /\ d.read_mirror = b.read_mirror /\ d.read_index = b.read_index
               /\ d.write_index = At(b.write_index, n)
               /\ d.write_mirror = IF Wraps(b.write_index, n) THEN 1 - b.write_mirror
                                   ELSE b.write_mirror
<1> DEFINE d == WriteMoved(b, n)
<1> USE BufferSizeAssumption
<1>1. CASE Wraps(b.write_index, n)
    <2>1. d = [b EXCEPT !.write_mirror = 1 - @, !.write_index = @ + n - buffer_size]
        BY <1>1 DEF WriteMoved
    <2>2. /\ 1 - b.write_mirror \in {0, 1} /\ b.write_index + n - buffer_size \in Index
          /\ b.write_index + n - buffer_size = At(b.write_index, n)
        BY <1>1 DEF rt_ringbuffer, Index, Wraps, At, N
    <2>3. QED BY <1>1, <2>1, <2>2 DEF rt_ringbuffer
<1>2. CASE ~Wraps(b.write_index, n)
    <2>1. d = [b EXCEPT !.write_index = @ + n]
        BY <1>2 DEF WriteMoved
    <2>2. b.write_index + n \in Index /\ b.write_index + n = At(b.write_index, n)
        BY <1>2 DEF rt_ringbuffer, Index, Wraps, At, N
    <2>3. QED BY <1>2, <2>1, <2>2 DEF rt_ringbuffer
<1>3. QED BY <1>1, <1>2

LEMMA ReadMovedFields ==
    ASSUME NEW b \in rt_ringbuffer, NEW n \in 0..N
    PROVE  LET d == ReadMoved(b, n)
           IN  /\ d \in rt_ringbuffer
               /\ d.write_mirror = b.write_mirror /\ d.write_index = b.write_index
               /\ d.read_index = At(b.read_index, n)
               /\ d.read_mirror = IF Wraps(b.read_index, n) THEN 1 - b.read_mirror
                                  ELSE b.read_mirror
<1> DEFINE d == ReadMoved(b, n)
<1> USE BufferSizeAssumption
<1>1. CASE Wraps(b.read_index, n)
    <2>1. d = [b EXCEPT !.read_mirror = 1 - @, !.read_index = @ + n - buffer_size]
        BY <1>1 DEF ReadMoved
    <2>2. /\ 1 - b.read_mirror \in {0, 1} /\ b.read_index + n - buffer_size \in Index
          /\ b.read_index + n - buffer_size = At(b.read_index, n)
        BY <1>1 DEF rt_ringbuffer, Index, Wraps, At, N
    <2>3. QED BY <1>1, <2>1, <2>2 DEF rt_ringbuffer
<1>2. CASE ~Wraps(b.read_index, n)
    <2>1. d = [b EXCEPT !.read_index = @ + n]
        BY <1>2 DEF ReadMoved
    <2>2. b.read_index + n \in Index /\ b.read_index + n = At(b.read_index, n)
        BY <1>2 DEF rt_ringbuffer, Index, Wraps, At, N
    <2>3. QED BY <1>2, <2>1, <2>2 DEF rt_ringbuffer
<1>3. QED BY <1>1, <1>2

(* Writing what fits lengthens the queue, and moves only its end.          *)
LEMMA WriteLengthens ==
    ASSUME NEW b \in rt_ringbuffer, Sided(b), NEW n \in 0..N, n <= rt_ringbuffer_space_len(b)
    PROVE  LET d == WriteMoved(b, n)
           IN  /\ Good(d) /\ d.read_index = b.read_index
               /\ rt_ringbuffer_data_len(d) = rt_ringbuffer_data_len(b) + n
<1> DEFINE d == WriteMoved(b, n)
<1>1. b \in rt_ringbuffer OBVIOUS
<1>2. /\ d \in rt_ringbuffer
      /\ d.read_mirror = b.read_mirror /\ d.read_index = b.read_index
      /\ d.write_index = At(b.write_index, n)
      /\ d.write_mirror = IF Wraps(b.write_index, n) THEN 1 - b.write_mirror
                          ELSE b.write_mirror
    BY <1>1, WriteMovedFields
<1>3. Good(d) /\ rt_ringbuffer_data_len(d) = rt_ringbuffer_data_len(b) + n
    <2> HIDE DEF d
    <2>1. QED BY <1>2, BufferSizeAssumption
        DEF Good, Sided, rt_ringbuffer, Index, rt_ringbuffer_data_len, rt_ringbuffer_space_len,
            rt_ringbuffer_status, HalfFullLen, At, Wraps, N
<1>4. QED BY <1>2, <1>3

(* Taking what is there shortens it.                                       *)
LEMMA ReadShortens ==
    ASSUME NEW b \in rt_ringbuffer, Sided(b), NEW n \in 0..N, n <= rt_ringbuffer_data_len(b)
    PROVE  LET d == ReadMoved(b, n)
           IN  /\ Good(d) /\ d.read_index = At(b.read_index, n)
               /\ rt_ringbuffer_data_len(d) = rt_ringbuffer_data_len(b) - n
<1> DEFINE d == ReadMoved(b, n)
<1>1. b \in rt_ringbuffer OBVIOUS
<1>2. /\ d \in rt_ringbuffer
      /\ d.write_mirror = b.write_mirror /\ d.write_index = b.write_index
      /\ d.read_index = At(b.read_index, n)
      /\ d.read_mirror = IF Wraps(b.read_index, n) THEN 1 - b.read_mirror
                         ELSE b.read_mirror
    BY <1>1, ReadMovedFields
<1>3. Good(d) /\ rt_ringbuffer_data_len(d) = rt_ringbuffer_data_len(b) - n
    <2> HIDE DEF d
    <2>1. QED BY <1>2, BufferSizeAssumption
        DEF Good, Sided, rt_ringbuffer, Index, rt_ringbuffer_data_len,
            rt_ringbuffer_status, HalfFullLen, At, Wraps, N
<1>4. QED BY <1>2, <1>3

(* Overtaking the reader leaves a full buffer that starts at the writer.   *)
LEMMA OvertakenIsFull ==
    ASSUME NEW b \in rt_ringbuffer, Sided(b), NEW n \in 0..N, n > rt_ringbuffer_space_len(b)
    PROVE  LET d == Overtaken(WriteMoved(b, n), Wraps(b.write_index, n))
           IN  /\ Good(d) /\ d.read_index = At(b.write_index, n)
               /\ rt_ringbuffer_data_len(d) = N
<1> DEFINE m == WriteMoved(b, n)
           flips == Wraps(b.write_index, n) /\ m.write_index <= m.read_index
           d == Overtaken(m, Wraps(b.write_index, n))
<1>1. b \in rt_ringbuffer OBVIOUS
<1>2. /\ m \in rt_ringbuffer
      /\ m.read_mirror = b.read_mirror /\ m.read_index = b.read_index
      /\ m.write_index = At(b.write_index, n)
      /\ m.write_mirror = IF Wraps(b.write_index, n) THEN 1 - b.write_mirror
                          ELSE b.write_mirror
    BY <1>1, WriteMovedFields
<1> HIDE DEF m
<1>3. (IF flips THEN 1 - m.read_mirror ELSE m.read_mirror) \in {0, 1} /\ m.write_index \in Index
    BY <1>2 DEF rt_ringbuffer
<1>4. d = [m EXCEPT !.read_mirror = IF flips THEN 1 - @ ELSE @, !.read_index = m.write_index]
    BY DEF Overtaken
<1>5. /\ d \in rt_ringbuffer
      /\ d.read_index = m.write_index /\ d.write_index = m.write_index
      /\ d.write_mirror = m.write_mirror
      /\ d.read_mirror = IF flips THEN 1 - m.read_mirror ELSE m.read_mirror
    BY <1>2, <1>3, <1>4 DEF rt_ringbuffer
<1>6. d.read_mirror # d.write_mirror
    <2>1. n > N - IF b.read_mirror = b.write_mirror THEN b.write_index - b.read_index
                  ELSE N - (b.read_index - b.write_index)
        BY LenIsDifference, BufferSizeAssumption DEF rt_ringbuffer_space_len, N
    <2>2. QED BY <1>2, <1>5, <2>1, BufferSizeAssumption
        DEF Sided, rt_ringbuffer, Index, At, Wraps, N
<1> HIDE DEF d
<1>7. Good(d) /\ rt_ringbuffer_data_len(d) = N
    BY <1>5, <1>6, BufferSizeAssumption
       DEF Good, Sided, rt_ringbuffer, Index, rt_ringbuffer_data_len, rt_ringbuffer_status, N
<1>8. QED BY <1>2, <1>5, <1>7 DEF d, m

(* rt_ringbuffer_putchar_force does the same with its own condition.       *)
LEMMA CharOvertakenIsFull ==
    ASSUME NEW b \in rt_ringbuffer, Sided(b), rt_ringbuffer_status(b) = "FULL"
    PROVE  LET d == CharOvertaken(WriteMoved(b, 1), Wraps(b.write_index, 1))
           IN  /\ Good(d) /\ d.read_index = At(b.write_index, 1)
               /\ rt_ringbuffer_data_len(d) = N
<1> DEFINE m == WriteMoved(b, 1)
           wraps == Wraps(b.write_index, 1)
           d == CharOvertaken(m, wraps)
<1>1. b \in rt_ringbuffer /\ 1 \in 0..N
    BY BufferSizeAssumption DEF Good, N
<1>2. /\ m \in rt_ringbuffer
      /\ m.read_mirror = b.read_mirror /\ m.read_index = b.read_index
      /\ m.write_index = At(b.write_index, 1)
      /\ m.write_mirror = IF wraps THEN 1 - b.write_mirror ELSE b.write_mirror
    BY <1>1, WriteMovedFields
<1> HIDE DEF m
<1>3. (IF wraps THEN 1 - m.read_mirror ELSE m.read_mirror) \in {0, 1} /\ m.write_index \in Index
    BY <1>2 DEF rt_ringbuffer
<1>4. d = [m EXCEPT !.read_mirror = IF wraps THEN 1 - @ ELSE @, !.read_index = m.write_index]
    BY DEF CharOvertaken
<1>5. /\ d \in rt_ringbuffer
      /\ d.read_index = m.write_index /\ d.write_index = m.write_index
      /\ d.write_mirror = m.write_mirror
      /\ d.read_mirror = IF wraps THEN 1 - m.read_mirror ELSE m.read_mirror
    BY <1>2, <1>3, <1>4 DEF rt_ringbuffer
<1>6. d.read_mirror # d.write_mirror
    BY <1>1, <1>2, <1>5 DEF rt_ringbuffer, rt_ringbuffer_status
<1> HIDE DEF d
<1>7. Good(d) /\ rt_ringbuffer_data_len(d) = N
    BY <1>5, <1>6, BufferSizeAssumption
       DEF Good, Sided, rt_ringbuffer, Index, rt_ringbuffer_data_len, rt_ringbuffer_status, N
<1>8. QED BY <1>2, <1>5, <1>7 DEF d, m

-----------------------------------------------------------------------------
(* Bytes *)

(* Reading past L bytes and once round comes back to the first of them.    *)
LEMMA AtBack ==
    ASSUME NEW r \in Index, NEW len \in 0..N, NEW i \in 0..(len - 1)
    PROVE  At(At(r, len), N - len + i) = At(r, i)
BY BufferSizeAssumption DEF At, Index, N

LEMMA AtThen ==
    ASSUME NEW r \in Index, NEW i \in 0..N, NEW j \in 0..N, i + j <= N
    PROVE  At(At(r, i), j) = At(r, i + j)
BY BufferSizeAssumption DEF At, Index, N

LEMMA CopiedFacts ==
    ASSUME NEW p \in [Index -> Byte], NEW r \in Index, NEW n \in 0..N
    PROVE  /\ Copied(p, r, n) \in Seq(Byte) /\ Len(Copied(p, r, n)) = n
           /\ \A i \in 1..n : Copied(p, r, n)[i] = p[At(r, i - 1)]
<1>1. \A i \in 1..n : At(r, i - 1) \in Index
    <2>1. TAKE i \in 1..n
    <2>2. i - 1 \in 0..N BY BufferSizeAssumption DEF N
    <2>3. QED BY <2>2, AtFacts
<1>2. n \in Nat BY BufferSizeAssumption DEF N
<1>3. Copied(p, r, n) \in [1..n -> Byte] BY <1>1 DEF Copied
<1>4. QED BY <1>2, <1>3 DEF Copied

LEMMA FilledFacts ==
    ASSUME NEW p \in [Index -> Byte], NEW w \in Index,
           NEW s \in Seq(Byte), Len(s) <= N
    PROVE  /\ Filled(p, w, s) \in [Index -> Byte]
           /\ \A j \in 0..(N - 1) :
                Filled(p, w, s)[At(w, j)] = IF j < Len(s) THEN s[j + 1] ELSE p[At(w, j)]
<1> USE BufferSizeAssumption
<1>1. \A k \in Index : At(k, N - w) \in 0..(N - 1)
    BY DEF At, Index, N
<1>2. \A j \in 0..(N - 1) : At(w, j) \in Index /\ At(At(w, j), N - w) = j
    BY DEF At, Index, N
<1>3. \A j \in 0..(N - 1) : j < Len(s) => s[j + 1] \in Byte
    <2>1. SUFFICES ASSUME NEW j \in 0..(N - 1), j < Len(s) PROVE s[j + 1] \in Byte
        OBVIOUS
    <2>2. j + 1 \in 1..Len(s) BY <2>1, LenProperties DEF N
    <2>3. QED BY <2>2, ElementOfSeq
<1>4. \A k \in Index : Filled(p, w, s)[k] = IF At(k, N - w) < Len(s)
                                             THEN s[At(k, N - w) + 1] ELSE p[k]
    BY DEF Filled, N
<1>5. Filled(p, w, s) \in [Index -> Byte]
    <2>1. SUFFICES ASSUME NEW k \in Index
                   PROVE (IF At(k, N - w) < Len(s) THEN s[At(k, N - w) + 1] ELSE p[k]) \in Byte
        BY DEF Filled, N
    <2>2. CASE At(k, N - w) < Len(s) BY <1>1, <1>3, <2>2
    <2>3. CASE ~(At(k, N - w) < Len(s)) BY <2>3
    <2>4. QED BY <2>2, <2>3
<1>6. QED BY <1>2, <1>4, <1>5

(* Bytes that fit, written at the writer, follow those held.               *)
LEMMA FittingBytesFollow ==
    ASSUME NEW p \in [Index -> Byte], NEW r \in Index, NEW len \in 0..N,
           NEW s \in Seq(Byte), len + Len(s) <= N
    PROVE  Copied(Filled(p, At(r, len), s), r, len + Len(s)) = Copied(p, r, len) \o s
<1> DEFINE w == At(r, len)
           f == Filled(p, w, s)
           q == Copied(p, r, len)
           n == Len(s)
<1> USE BufferSizeAssumption DEF N
<1>1. n \in Nat /\ n <= N /\ len + n \in 0..N /\ w \in Index
    BY LenProperties, AtFacts
<1>2. /\ f \in [Index -> Byte]
      /\ \A j \in 0..(N - 1) : f[At(w, j)] = IF j < n THEN s[j + 1] ELSE p[At(w, j)]
    BY <1>1, FilledFacts
<1>3. /\ q \in Seq(Byte) /\ Len(q) = len
      /\ \A i \in 1..len : q[i] = p[At(r, i - 1)]
    BY CopiedFacts
<1> DEFINE c == Copied(f, r, len + n)
<1>4. /\ c \in Seq(Byte) /\ Len(c) = len + n
      /\ \A i \in 1..(len + n) : c[i] = f[At(r, i - 1)]
    BY <1>1, <1>2, CopiedFacts
<1>5. /\ q \o s \in Seq(Byte) /\ Len(q \o s) = len + n
      /\ \A i \in 1..(len + n) : (q \o s)[i] = IF i <= len THEN q[i] ELSE s[i - len]
    <2> HIDE DEF q
    <2>1. QED BY <1>3, ConcatProperties
<1>6. ASSUME NEW i \in 1..(len + n) PROVE c[i] = (q \o s)[i]
    <2>1. CASE i <= len
        <3>1. i - 1 \in 0..(len - 1) /\ N - len + (i - 1) \in 0..(N - 1)
              /\ ~(N - len + (i - 1) < n) /\ i \in 1..len
            BY <1>1, <2>1
        <3>2. At(w, N - len + (i - 1)) = At(r, i - 1) BY <3>1, AtBack
        <3>3. f[At(r, i - 1)] = p[At(r, i - 1)] BY <1>2, <3>1, <3>2
        <3>4. QED BY <1>3, <1>4, <1>5, <2>1, <3>1, <3>3
    <2>2. CASE ~(i <= len)
        <3>1. i - 1 - len \in 0..(N - 1) /\ i - 1 - len < n /\ len + (i - 1 - len) <= N
              /\ i - 1 - len \in 0..N
            BY <1>1, <2>2
        <3>2. At(w, i - 1 - len) = At(r, len + (i - 1 - len)) BY <3>1, AtFacts
        <3>3. len + (i - 1 - len) = i - 1 /\ (i - 1 - len) + 1 = i - len BY <1>1
        <3>4. f[At(r, i - 1)] = s[i - len] BY <1>2, <3>1, <3>2, <3>3
        <3>5. QED BY <1>4, <1>5, <2>2, <3>4
    <2>3. QED BY <2>1, <2>2
<1>7. c = q \o s
    <2> HIDE DEF c, q, f, w, n
    <2>1. QED BY <1>4, <1>5, <1>6, SeqEqual
<1>8. QED BY <1>7

LEMMA NIsNat == N \in Nat \ {0}
BY BufferSizeAssumption DEF N

LEMMA PartFacts ==
    ASSUME NEW s \in Seq(Byte), NEW a \in 0..Len(s), NEW k \in 0..(Len(s) - a)
    PROVE  LET d == SubSeq(s, a + 1, a + k)
           IN  /\ d \in Seq(Byte) /\ Len(d) = k
               /\ \A i \in 1..k : d[i] = s[a + i]
<1> DEFINE low == a + 1
           high == a + k
<1>1. Len(s) \in Nat BY LenProperties
<1>2. low \in 1..(Len(s) + 1) /\ high \in 0..Len(s) BY <1>1
<1>3. high - low + 1 = k /\ (low <= high <=> k > 0) /\ \A i \in 1..k : low + i - 1 = a + i
    BY <1>1
<1> HIDE DEF low, high
<1>4. low \in Int /\ high \in Int /\ \A i \in low..high : s[i] \in Byte
    BY <1>1, <1>2, ElementOfSeq
<1>5. /\ SubSeq(s, low, high) \in Seq(Byte)
      /\ Len(SubSeq(s, low, high)) = IF low <= high THEN high - low + 1 ELSE 0
      /\ \A i \in 1..(high - low + 1) : SubSeq(s, low, high)[i] = s[low + i - 1]
    BY <1>4, SubSeqProperties
<1>6. QED BY <1>1, <1>3, <1>5 DEF low, high

(* The last N bytes of what is held and what is written.                   *)
LEMMA LatestBytesStay ==
    ASSUME NEW p \in [Index -> Byte], NEW r \in Index, NEW len \in 0..N,
           NEW s \in Seq(Byte), NEW n \in 0..N,
           n <= Len(s), n < N => n = Len(s), len + n > N
    PROVE  Copied(Filled(p, At(r, len), SubSeq(s, Len(s) - n + 1, Len(s))),
                  At(At(r, len), n), N)
             = SubSeq(Copied(p, r, len) \o s, len + Len(s) - N + 1, len + Len(s))
<1> DEFINE w == At(r, len)
           m == Len(s)
           last == SubSeq(s, m - n + 1, m)
           f == Filled(p, w, last)
           q == Copied(p, r, len)
           c == Copied(f, At(w, n), N)
           d == SubSeq(q \o s, len + m - N + 1, len + m)
<1> USE NIsNat
<1>1. m \in Nat /\ n <= m /\ w \in Index /\ At(w, n) \in Index /\ N \in 0..N
    BY LenProperties, AtFacts
<1>3. /\ last \in Seq(Byte) /\ Len(last) = n
      /\ \A i \in 1..n : last[i] = s[m - n + i]
    <2>1. m - n \in 0..Len(s) /\ n \in 0..(Len(s) - (m - n)) /\ (m - n) + n = m
        BY <1>1
    <2> DEFINE e == SubSeq(s, (m - n) + 1, (m - n) + n)
    <2>2. last = e
        BY <2>1
    <2>3. e \in Seq(Byte) /\ Len(e) = n /\ \A i \in 1..n : e[i] = s[(m - n) + i]
        <3> HIDE DEF m
        <3>1. QED BY <2>1, PartFacts
    <2> HIDE DEF last, e, m
    <2>4. QED BY <2>2, <2>3
<1>4. /\ f \in [Index -> Byte]
      /\ \A j \in 0..(N - 1) : f[At(w, j)] = IF j < n THEN last[j + 1] ELSE p[At(w, j)]
    <2>1. last \in Seq(Byte) /\ Len(last) <= N /\ w \in Index
        <3> HIDE DEF last, w
        <3>1. QED BY <1>1, <1>3
    <2>2. /\ f \in [Index -> Byte]
          /\ \A j \in 0..(N - 1) :
               f[At(w, j)] = IF j < Len(last) THEN last[j + 1] ELSE p[At(w, j)]
        <3> HIDE DEF last, w
        <3>1. QED BY <2>1, FilledFacts
    <2> HIDE DEF last, w, f
    <2>3. QED BY <1>3, <2>2
<1>5. /\ q \in Seq(Byte) /\ Len(q) = len
      /\ \A i \in 1..len : q[i] = p[At(r, i - 1)]
    BY CopiedFacts
<1>6. /\ q \o s \in Seq(Byte) /\ Len(q \o s) = len + m
      /\ \A i \in 1..(len + m) : (q \o s)[i] = IF i <= len THEN q[i] ELSE s[i - len]
    <2> HIDE DEF q
    <2>1. QED BY <1>5, ConcatProperties
<1>7. /\ c \in Seq(Byte) /\ Len(c) = N
      /\ \A i \in 1..N : c[i] = f[At(At(w, n), i - 1)]
    <2> HIDE DEF f
    <2>1. QED BY <1>1, <1>4, CopiedFacts
<1>8. /\ d \in Seq(Byte) /\ Len(d) = N
      /\ \A i \in 1..N : d[i] = (q \o s)[len + m - N + i]
    <2> DEFINE u == q \o s
               a == len + m - N
    <2>1. a + 1 = len + m - N + 1 /\ a + N = len + m
        BY <1>1
    <2>2. a \in 0..Len(u) /\ N \in 0..(Len(u) - a)
        BY <1>1, <1>6
    <2>3. u \in Seq(Byte) BY <1>6
    <2>4. d = SubSeq(u, a + 1, a + N)
        BY <2>1
    <2> HIDE DEF u, a, d
    <2>5. /\ d \in Seq(Byte) /\ Len(d) = N
          /\ \A i \in 1..N : d[i] = u[a + i]
        BY <2>2, <2>3, <2>4, PartFacts
    <2>6. QED BY <2>5 DEF u, a
<1>9. ASSUME NEW i \in 1..N PROVE c[i] = d[i]
    <2>1. CASE i <= N - n
        <3>1. n = m /\ n + (i - 1) \in 0..(N - 1) /\ ~(n + (i - 1) < n)
              /\ n + (i - 1) <= N /\ i - 1 \in 0..N
            BY <1>1, <2>1
        <3>2. At(At(w, n), i - 1) = At(w, n + (i - 1))
            BY <1>1, <3>1, AtThen
        <3>3. c[i] = p[At(w, n + (i - 1))]
            <4> HIDE DEF c, f, w, last
            <4>1. QED BY <1>4, <1>7, <3>1, <3>2
        <3>4. /\ len + m - N + i \in 1..len /\ len + m - N + i \in 1..(len + m)
              /\ len + m - N + i - 1 \in 0..(len - 1)
              /\ N - len + (len + m - N + i - 1) = n + (i - 1)
            BY <1>1, <2>1, <3>1
        <3>5. At(w, n + (i - 1)) = At(r, len + m - N + i - 1)
            <4>1. At(w, N - len + (len + m - N + i - 1)) = At(r, len + m - N + i - 1)
                BY <3>4, AtBack
            <4>2. QED BY <3>4, <4>1
        <3>6. d[i] = p[At(r, len + m - N + i - 1)]
            BY <1>5, <1>6, <1>8, <3>4
        <3>7. QED BY <3>3, <3>5, <3>6
    <2>2. CASE ~(i <= N - n)
        <3> DEFINE j == i - 1 - N + n
        <3>1. /\ j \in 0..(n - 1) /\ j \in 0..(N - 1) /\ j < n /\ j + 1 \in 1..n
              /\ N - n + j = i - 1 /\ m - n + (j + 1) = m - N + i
            BY <1>1, <2>2
        <3> HIDE DEF j, c, f, w, last
        <3>2. At(At(w, n), i - 1) = At(w, j)
            <4>1. At(At(w, n), N - n + j) = At(w, j) BY <1>1, <3>1, AtBack
            <4>2. QED BY <3>1, <4>1
        <3>3. c[i] = last[j + 1] BY <1>4, <1>7, <3>1, <3>2
        <3>4. c[i] = s[m - N + i] BY <1>3, <3>1, <3>3
        <3>5. /\ len + m - N + i \in 1..(len + m) /\ ~(len + m - N + i <= len)
              /\ len + m - N + i - len = m - N + i
            BY <1>1, <2>2
        <3>6. d[i] = s[m - N + i] BY <1>6, <1>8, <3>5
        <3>7. QED BY <3>4, <3>6
    <2>3. QED BY <2>1, <2>2
<1>10. c = d
    <2> HIDE DEF c, d
    <2>1. QED BY <1>7, <1>8, <1>9, SeqEqual
<1>11. QED BY <1>10

(* Taking k bytes splits what is held.                                     *)
LEMMA TakenBytes ==
    ASSUME NEW p \in [Index -> Byte], NEW r \in Index, NEW len \in 0..N, NEW k \in 0..len
    PROVE  /\ Copied(p, r, k) = SubSeq(Copied(p, r, len), 1, k)
           /\ Copied(p, At(r, k), len - k) = SubSeq(Copied(p, r, len), k + 1, len)
<1> DEFINE q == Copied(p, r, len)
<1> USE NIsNat
<1>1. k \in 0..N /\ len - k \in 0..N /\ At(r, k) \in Index
    BY AtFacts
<1>2. /\ q \in Seq(Byte) /\ Len(q) = len
      /\ \A i \in 1..len : q[i] = p[At(r, i - 1)]
    BY CopiedFacts
<1>4. Copied(p, r, k) = SubSeq(q, 1, k)
    <2> DEFINE c == Copied(p, r, k)
               d == SubSeq(q, 1, k)
    <2>1. /\ c \in Seq(Byte) /\ Len(c) = k
          /\ \A i \in 1..k : c[i] = p[At(r, i - 1)]
        BY <1>1, CopiedFacts
    <2>2. /\ d \in Seq(Byte) /\ Len(d) = k
          /\ \A i \in 1..k : d[i] = q[i]
        <3>1. d = SubSeq(q, 0 + 1, 0 + k) /\ 0 \in 0..Len(q) /\ k \in 0..(Len(q) - 0)
            BY <1>2
        <3> HIDE DEF q, d
        <3>2. QED BY <1>2, <3>1, PartFacts
    <2>3. \A i \in 1..k : c[i] = d[i]
        <3> HIDE DEF c, d, q
        <3>1. QED BY <1>2, <2>1, <2>2
    <2>4. c = d
        <3> HIDE DEF c, d
        <3>1. QED BY <2>1, <2>2, <2>3, SeqEqual
    <2>5. QED BY <2>4
<1>5. Copied(p, At(r, k), len - k) = SubSeq(q, k + 1, len)
    <2> DEFINE c == Copied(p, At(r, k), len - k)
               d == SubSeq(q, k + 1, len)
    <2>1. /\ c \in Seq(Byte) /\ Len(c) = len - k
          /\ \A i \in 1..(len - k) : c[i] = p[At(At(r, k), i - 1)]
        BY <1>1, CopiedFacts
    <2>2. /\ d \in Seq(Byte) /\ Len(d) = len - k
          /\ \A i \in 1..(len - k) : d[i] = q[k + i]
        <3>1. /\ d = SubSeq(q, k + 1, k + (len - k))
              /\ k \in 0..Len(q) /\ len - k \in 0..(Len(q) - k)
            BY <1>2
        <3> HIDE DEF q, d
        <3>2. QED BY <1>2, <3>1, PartFacts
    <2>3. ASSUME NEW i \in 1..(len - k) PROVE c[i] = d[i]
        <3>1. k + (i - 1) <= N /\ i - 1 \in 0..N /\ k + i \in 1..len /\ k + i - 1 = k + (i - 1)
            OBVIOUS
        <3>2. At(At(r, k), i - 1) = At(r, k + i - 1) BY <1>1, <3>1, AtFacts
        <3> HIDE DEF c, d, q
        <3>3. q[k + i] = p[At(r, k + i - 1)] BY <1>2, <3>1
        <3>4. c[i] = p[At(At(r, k), i - 1)] /\ d[i] = q[k + i] BY <2>1, <2>2
        <3>5. QED BY <3>2, <3>3, <3>4
    <2>4. c = d
        <3> HIDE DEF c, d
        <3>1. QED BY <2>1, <2>2, <2>3, SeqEqual
    <2>5. QED BY <2>4
<1>6. QED BY <1>4, <1>5

-----------------------------------------------------------------------------
(* Operations *)

LEMMA BoundedFacts ==
    ASSUME NEW s \in BoundedSeq(Byte, MaxCall)
    PROVE  s \in Seq(Byte) /\ Len(s) \in 0..MaxCall /\ Len(s) \in Nat
<1>1. PICK m \in 0..MaxCall : s \in [1..m -> Byte]
    BY DEF BoundedSeq, SeqOf
<1>2. m \in Nat BY ApiAssumption
<1>3. s \in Seq(Byte) /\ Len(s) = m
    BY <1>1, <1>2
<1>4. QED BY <1>2, <1>3

(* What the invariant says of the buffer before a call.                    *)
LEMMA BufferFacts ==
    ASSUME IInv
    PROVE  /\ rb \in rt_ringbuffer /\ Sided(rb) /\ pool \in [Index -> Byte]
           /\ rt_ringbuffer_data_len(rb) \in 0..N
           /\ rt_ringbuffer_space_len(rb) = N - rt_ringbuffer_data_len(rb)
           /\ rb.read_index \in Index /\ rb.write_index \in Index
           /\ At(rb.read_index, rt_ringbuffer_data_len(rb)) = rb.write_index
           /\ (rt_ringbuffer_status(rb) = "FULL") <=> (rt_ringbuffer_data_len(rb) = N)
           /\ Content \in Seq(Byte) /\ Len(Content) = rt_ringbuffer_data_len(rb)
<1>1. rb \in rt_ringbuffer /\ Sided(rb) /\ pool \in [Index -> Byte]
    BY DEF IInv, TypeOK
<1>2. /\ rt_ringbuffer_data_len(rb) \in 0..N
      /\ rb.read_index \in Index
    BY <1>1, LenFacts
<1>3. Content \in Seq(Byte) /\ Len(Content) = rt_ringbuffer_data_len(rb)
    BY <1>1, <1>2, CopiedFacts DEF Content
<1>4. QED BY <1>1, <1>3, LenFacts

(* After a write that fits.                                                *)
LEMMA Written ==
    ASSUME IInv, NEW s \in Seq(Byte), Len(s) <= rt_ringbuffer_space_len(rb),
           rb' = WriteMoved(rb, Len(s)), Wrote(s)
    PROVE  /\ rb' \in rt_ringbuffer /\ Sided(rb') /\ pool' \in [Index -> Byte]
           /\ Content' = Content \o s
<1> DEFINE len == rt_ringbuffer_data_len(rb)
<1>1. /\ rb \in rt_ringbuffer /\ Sided(rb) /\ pool \in [Index -> Byte] /\ len \in 0..N
      /\ rb.read_index \in Index /\ rb.write_index \in Index
      /\ At(rb.read_index, len) = rb.write_index
      /\ rt_ringbuffer_space_len(rb) = N - len
    BY BufferFacts
<1>2. Len(s) \in 0..N /\ len + Len(s) <= N /\ Len(s) <= N
    <2> HIDE DEF len
    <2>1. Len(s) \in Nat BY LenProperties
    <2>2. QED BY <1>1, <2>1, NIsNat
<1>3. /\ Good(rb') /\ rb'.read_index = rb.read_index
      /\ rt_ringbuffer_data_len(rb') = len + Len(s)
    BY <1>1, <1>2, WriteLengthens
<1>4. pool' \in [Index -> Byte]
    BY <1>1, <1>2, FilledFacts DEF Wrote
<1>5. Content' = Copied(pool', rb.read_index, len + Len(s))
    BY <1>3 DEF Content
<1>6. Copied(Filled(pool, At(rb.read_index, len), s), rb.read_index, len + Len(s))
        = Copied(pool, rb.read_index, len) \o s
    <2> HIDE DEF len
    <2>1. QED BY <1>1, <1>2, FittingBytesFollow
<1>7. Content' = Content \o s
    BY <1>1, <1>5, <1>6 DEF Wrote, Content
<1>8. QED BY <1>3, <1>4, <1>7 DEF Good

(* After a write that overtakes the reader.                                *)
LEMMA Overwritten ==
    ASSUME IInv, NEW s \in Seq(Byte), NEW n \in 0..N,
           n <= Len(s), n < N => n = Len(s), n > rt_ringbuffer_space_len(rb),
           Good(rb'), rb'.read_index = At(rb.write_index, n),
           rt_ringbuffer_data_len(rb') = N, Wrote(SubSeq(s, Len(s) - n + 1, Len(s)))
    PROVE  /\ rb' \in rt_ringbuffer /\ Sided(rb') /\ pool' \in [Index -> Byte]
           /\ Content' = Queue!Latest(Content \o s)
<1> DEFINE len == rt_ringbuffer_data_len(rb)
           last == SubSeq(s, (Len(s) - n) + 1, (Len(s) - n) + n)
<1>1. /\ rb \in rt_ringbuffer /\ Sided(rb) /\ pool \in [Index -> Byte] /\ len \in 0..N
      /\ rb.read_index \in Index /\ rb.write_index \in Index
      /\ At(rb.read_index, len) = rb.write_index
      /\ rt_ringbuffer_space_len(rb) = N - len
      /\ Content \in Seq(Byte) /\ Len(Content) = len
    BY BufferFacts
<1>2. len + n > N /\ Len(s) \in Nat
    <2> HIDE DEF len
    <2>1. Len(s) \in Nat BY LenProperties
    <2>2. QED BY <1>1, <2>1, NIsNat
<1>3. last \in Seq(Byte) /\ Len(last) = n
    <2>1. Len(s) - n \in 0..Len(s) /\ n \in 0..(Len(s) - (Len(s) - n))
        BY <1>2, NIsNat
    <2>2. QED BY <2>1, PartFacts
<1>4. pool' = Filled(pool, rb.write_index, last)
    <2>1. (Len(s) - n) + n = Len(s) BY <1>2, NIsNat
    <2>2. QED BY <2>1 DEF Wrote
<1>5. pool' \in [Index -> Byte]
    <2> HIDE DEF last
    <2>1. Len(last) <= N BY <1>3, NIsNat
    <2>2. QED BY <1>1, <1>3, <1>4, <2>1, FilledFacts
<1>6. Content' = Copied(pool', At(rb.write_index, n), N)
    BY DEF Content
<1>7. Content' = SubSeq(Content \o s, len + Len(s) - N + 1, len + Len(s))
    <2>1. Copied(Filled(pool, At(rb.read_index, len), SubSeq(s, Len(s) - n + 1, Len(s))),
                 At(At(rb.read_index, len), n), N)
            = SubSeq(Copied(pool, rb.read_index, len) \o s,
                     len + Len(s) - N + 1, len + Len(s))
        <3>1. /\ pool \in [Index -> Byte] /\ rb.read_index \in Index /\ len \in 0..N
              /\ s \in Seq(Byte) /\ n \in 0..N
              /\ n <= Len(s) /\ (n < N => n = Len(s)) /\ len + n > N
            BY <1>1, <1>2
        <3> HIDE DEF len
        <3>2. QED BY ONLY <3>1, LatestBytesStay
    <2>2. QED BY <1>1, <1>6, <2>1 DEF Wrote, Content
<1>8. Len(Content \o s) = len + Len(s)
    <2> HIDE DEF len
    <2>1. QED BY <1>1, ConcatProperties
<1>9. Queue!Latest(Content \o s) = SubSeq(Content \o s, len + Len(s) - N + 1, len + Len(s))
    <2> DEFINE u == Content \o s
    <2>1. ~(Len(u) < N) /\ Len(u) \in Nat
        <3> HIDE DEF len
        <3>1. QED BY <1>1, <1>2, <1>8, NIsNat
    <2>2. Queue!Smaller(Len(u), buffer_size) = N
        <3> HIDE DEF u
        <3>1. QED BY <2>1 DEF Queue!Smaller, N
    <2>3. Queue!Latest(u) = SubSeq(u, Len(u) - N + 1, Len(u))
        <3> HIDE DEF u
        <3>1. QED BY <2>2 DEF Queue!Latest
    <2>4. Len(u) = len + Len(s) BY <1>8
    <2>5. Queue!Latest(u) = SubSeq(u, len + Len(s) - N + 1, len + Len(s))
        <3>3. len \in Int /\ Len(s) \in Int /\ N \in Int
            BY <1>1, <1>2, NIsNat
        <3> HIDE DEF u, len
        <3>1. Len(u) - N + 1 = len + Len(s) - N + 1
            BY <2>4, <3>3
        <3>2. QED BY <2>3, <2>4, <3>1
    <2>6. QED BY <2>5
<1>10. QED BY <1>5, <1>7, <1>9 DEF Good

(* After k of the bytes held have been taken.                              *)
LEMMA Taken ==
    ASSUME IInv, NEW k \in 0..rt_ringbuffer_data_len(rb),
           rb' = ReadMoved(rb, k) \/ (k = 0 /\ rb' = rb), UNCHANGED pool
    PROVE  /\ rb' \in rt_ringbuffer /\ Sided(rb') /\ pool' \in [Index -> Byte]
           /\ Content' = SubSeq(Content, k + 1, Len(Content))
           /\ Copied(pool, rb.read_index, k) = SubSeq(Content, 1, k)
           /\ Copied(pool, rb.read_index, k) \in Seq(Byte)
<1> DEFINE len == rt_ringbuffer_data_len(rb)
<1>1. /\ rb \in rt_ringbuffer /\ Sided(rb) /\ pool \in [Index -> Byte] /\ len \in 0..N
      /\ rb.read_index \in Index
      /\ Content \in Seq(Byte) /\ Len(Content) = len
    BY BufferFacts
<1>2. k \in 0..N /\ k <= len /\ len \in Nat BY <1>1, NIsNat
<1>3. /\ Good(rb') /\ rb'.read_index = At(rb.read_index, k)
      /\ rt_ringbuffer_data_len(rb') = len - k
    <2>1. CASE rb' = ReadMoved(rb, k)
        BY <1>1, <1>2, <2>1, ReadShortens
    <2>2. CASE k = 0 /\ rb' = rb
        <3>1. At(rb.read_index, k) = rb.read_index BY <1>1, <2>2, AtFacts
        <3>2. len - k = len BY <1>2, <2>2
        <3>3. QED BY <1>1, <2>2, <3>1, <3>2 DEF Good
    <2>3. QED BY <2>1, <2>2
<1>4. Content' = Copied(pool, At(rb.read_index, k), len - k)
    BY <1>3 DEF Content
<1>5. /\ Copied(pool, rb.read_index, k) = SubSeq(Content, 1, k)
      /\ Content' = SubSeq(Content, k + 1, len)
    <2> HIDE DEF len
    <2>1. /\ Copied(pool, rb.read_index, k) = SubSeq(Copied(pool, rb.read_index, len), 1, k)
          /\ Copied(pool, At(rb.read_index, k), len - k)
               = SubSeq(Copied(pool, rb.read_index, len), k + 1, len)
        BY <1>1, TakenBytes DEF len
    <2>2. QED BY <1>4, <2>1 DEF Content, len
<1>6. Copied(pool, rb.read_index, k) \in Seq(Byte) BY <1>1, <1>2, CopiedFacts
<1>7. QED BY <1>1, <1>3, <1>5, <1>6 DEF Good

LEMMA AnswerKeepsType ==
    ASSUME NEW n \in Nat, n <= N \/ n <= MaxCall, NEW bytes \in Seq(Byte),
           Answer(n, bytes), rb' \in rt_ringbuffer, Sided(rb'), pool' \in [Index -> Byte]
    PROVE  IInv'
<1>1. answer'.count = n /\ answer'.bytes = bytes
    BY DEF Answer
<1>2. n \in 0..(IF MaxCall > buffer_size THEN MaxCall ELSE buffer_size)
    BY ApiAssumption, BufferSizeAssumption DEF N
<1>3. QED BY <1>1, <1>2 DEF IInv, TypeOK

LEMMA EmptyFacts == <<>> \in Seq(Byte) /\ Len(<<>>) = 0
BY EmptySeq

(* Nothing is dropped of what fits.                                        *)
LEMMA LatestOfFew ==
    ASSUME NEW q \in Seq(Byte), NEW s \in Seq(Byte), Len(s) <= N - Len(q)
    PROVE  Queue!Latest(q \o s) = q \o s
<1> DEFINE u == q \o s
<1>1. u \in Seq(Byte) /\ Len(u) = Len(q) + Len(s)
    BY ConcatProperties
<1>2. Len(q) \in Nat /\ Len(s) \in Nat
    BY LenProperties
<1>3. Len(u) \in Nat /\ Len(u) <= N
    <2> HIDE DEF u
    <2>1. QED BY <1>1, <1>2, NIsNat
<1> HIDE DEF u
<1>4. Queue!Smaller(Len(u), buffer_size) = Len(u)
    BY <1>3, NIsNat DEF Queue!Smaller, N
<1>5. Len(u) - Len(u) + 1 = 1 BY <1>3
<1>6. Queue!Latest(u) = SubSeq(u, 1, Len(u))
    BY <1>4, <1>5 DEF Queue!Latest
<1>7. QED BY <1>1, <1>6, SubSeqFull DEF u

LEMMA PutStep ==
    ASSUME IInv, NEW s \in BoundedSeq(Byte, MaxCall), rt_ringbuffer_put(s)
    PROVE  IInv' /\ Queue!Offer(s)
<1> DEFINE space == rt_ringbuffer_space_len(rb)
           n == IF space < Len(s) THEN space ELSE Len(s)
           fits == SubSeq(s, 1, n)
<1>1. /\ rb \in rt_ringbuffer /\ Sided(rb) /\ pool \in [Index -> Byte]
      /\ Content \in Seq(Byte) /\ space = N - Len(Content) /\ Len(Content) \in 0..N
    BY BufferFacts
<1>2. s \in Seq(Byte) /\ Len(s) \in 0..MaxCall /\ Len(s) \in Nat
    BY BoundedFacts
<1>3. /\ Answer(n, <<>>)
      /\ IF space = 0 THEN UNCHANGED <<rb, pool>>
         ELSE Wrote(fits) /\ rb' = WriteMoved(rb, n)
    BY DEF rt_ringbuffer_put
<1> HIDE DEF space
<1>4. space \in 0..N /\ n \in Nat /\ n <= space /\ n \in 0..Len(s) /\ n <= N
    BY <1>1, <1>2, NIsNat
<1> HIDE DEF n
<1>5. fits \in Seq(Byte) /\ Len(fits) = n
    <2>1. fits = SubSeq(s, 0 + 1, 0 + n) /\ 0 \in 0..Len(s) /\ n \in 0..(Len(s) - 0)
        BY <1>2, <1>4
    <2> HIDE DEF fits
    <2>2. QED BY <1>2, <2>1, PartFacts
<1>6. rb' \in rt_ringbuffer /\ Sided(rb') /\ pool' \in [Index -> Byte] /\ Content' = Content \o fits
    <2>1. CASE space = 0
        <3>1. n = 0 BY <1>4, <2>1
        <3>2. fits = <<>> BY <3>1, SubSeqEmpty
        <3> HIDE DEF fits
        <3>3. Content' = Content BY <1>3, <2>1 DEF Content
        <3>4. Content \o fits = Content BY <1>1, <3>2, ConcatEmptySeq
        <3>5. QED BY <1>1, <1>3, <2>1, <3>3, <3>4
    <2>2. CASE space # 0
        <3> HIDE DEF fits
        <3>1. QED BY <1>3, <1>4, <1>5, <2>2, Written DEF space
    <2>3. QED BY <2>1, <2>2
<1>7. IInv'
    BY <1>3, <1>4, <1>6, EmptyFacts, AnswerKeepsType
<1>8. Queue!Smaller(Len(s), buffer_size - Len(Content)) = n
    BY <1>1, <1>2, <1>4, NIsNat DEF Queue!Smaller, n, N
<1>9. Queue!Offer(s)
    BY <1>3, <1>6, <1>8 DEF Queue!Offer, Answer, Content
<1>10. QED BY <1>7, <1>9

LEMMA PutForceStep ==
    ASSUME IInv, NEW s \in BoundedSeq(Byte, MaxCall), rt_ringbuffer_put_force(s)
    PROVE  IInv' /\ Queue!Force(s)
<1> DEFINE n == IF Len(s) > buffer_size THEN buffer_size ELSE Len(s)
           last == SubSeq(s, Len(s) - n + 1, Len(s))
           moved == WriteMoved(rb, n)
<1>1. /\ rb \in rt_ringbuffer /\ Sided(rb) /\ pool \in [Index -> Byte]
      /\ Content \in Seq(Byte) /\ rt_ringbuffer_space_len(rb) = N - Len(Content)
      /\ Len(Content) \in 0..N
    BY BufferFacts
<1>2. s \in Seq(Byte) /\ Len(s) \in 0..MaxCall /\ Len(s) \in Nat
    BY BoundedFacts
<1>3. /\ Answer(n, <<>>) /\ Wrote(last)
      /\ rb' = IF n > rt_ringbuffer_space_len(rb)
               THEN Overtaken(moved, Wraps(rb.write_index, n)) ELSE moved
    BY DEF rt_ringbuffer_put_force
<1>4. n \in Nat /\ n \in 0..N /\ n <= Len(s) /\ n <= N /\ (n < N => n = Len(s))
    BY <1>2, NIsNat DEF N
<1> HIDE DEF n
<1>5. /\ rb' \in rt_ringbuffer /\ Sided(rb') /\ pool' \in [Index -> Byte]
      /\ Content' = Queue!Latest(Content \o s)
    <2>1. CASE n > rt_ringbuffer_space_len(rb)
        <3>1. /\ Good(rb') /\ rb'.read_index = At(rb.write_index, n)
              /\ rt_ringbuffer_data_len(rb') = N
            BY <1>1, <1>3, <1>4, <2>1, OvertakenIsFull
        <3>2. QED BY <1>2, <1>3, <1>4, <2>1, <3>1, Overwritten
    <2>2. CASE ~(n > rt_ringbuffer_space_len(rb))
        <3>1. n <= N - Len(Content) BY <1>1, <1>4, <2>2, NIsNat
        <3> DEFINE part == SubSeq(s, (Len(s) - n) + 1, (Len(s) - n) + n)
        <3>2. last = part
            <4>1. (Len(s) - n) + n = Len(s) BY <1>2, <1>4
            <4>2. QED BY <4>1
        <3>3. part \in Seq(Byte) /\ Len(part) = n
            <4>1. Len(s) - n \in 0..Len(s) /\ n \in 0..(Len(s) - (Len(s) - n))
                BY <1>2, <1>4
            <4>2. QED BY <1>2, <4>1, PartFacts
        <3>4. /\ rb' \in rt_ringbuffer /\ Sided(rb') /\ pool' \in [Index -> Byte]
              /\ Content' = Content \o last
            <4> HIDE DEF last, part
            <4>1. /\ last \in Seq(Byte) /\ Len(last) <= rt_ringbuffer_space_len(rb)
                  /\ rb' = WriteMoved(rb, Len(last))
                BY <1>1, <1>3, <2>2, <3>1, <3>2, <3>3
            <4>2. QED BY <1>3, <4>1, Written
        <3>5. CASE n = Len(s)
            <4>1. Len(s) - n + 1 = 1 BY <1>2, <3>5
            <4>2. last = SubSeq(s, 1, Len(s)) BY <4>1
            <4>3. last = s BY <1>2, <4>2, SubSeqFull
            <4>4. Queue!Latest(Content \o s) = Content \o s
                BY <1>1, <1>2, <3>1, <3>5, LatestOfFew
            <4>5. QED BY <3>4, <4>3, <4>4
        <3>6. CASE n # Len(s)
            <4>1. n = N /\ Len(Content) = 0 /\ ~(Len(s) < N)
                BY <1>1, <1>2, <1>4, <3>1, <3>6, NIsNat
            <4>2. Content = <<>> BY <1>1, <4>1, EmptySeq
            <4>3. Content \o s = s /\ Content \o last = last
                <5>1. last \in Seq(Byte) BY <3>2, <3>3
                <5> HIDE DEF last
                <5>2. QED BY <1>2, <4>2, <5>1, ConcatEmptySeq
            <4>4. Queue!Smaller(Len(s), buffer_size) = n
                BY <1>2, <4>1, NIsNat DEF Queue!Smaller, N
            <4>5. Queue!Latest(s) = last
                BY <4>4 DEF Queue!Latest
            <4>6. QED BY <3>4, <4>3, <4>5
        <3>7. QED BY <3>5, <3>6
    <2>3. QED BY <2>1, <2>2
<1>6. IInv'
    BY <1>3, <1>4, <1>5, EmptyFacts, AnswerKeepsType
<1>7. Queue!Smaller(Len(s), buffer_size) = n
    BY <1>2, NIsNat DEF Queue!Smaller, n, N
<1>8. Queue!Force(s)
    BY <1>3, <1>5, <1>7 DEF Queue!Force, Answer, Content
<1>9. QED BY <1>6, <1>8

LEMMA CharFacts ==
    ASSUME NEW ch \in Byte
    PROVE  /\ <<ch>> \in BoundedSeq(Byte, MaxCall) /\ <<ch>> \in Seq(Byte)
           /\ Len(<<ch>>) = 1 /\ 1 \in 0..N
           /\ SubSeq(<<ch>>, 1, 1) = <<ch>> /\ SubSeq(<<ch>>, 1, 0) = <<>>
<1>1. <<ch>> \in [1..1 -> Byte] /\ 1 \in 0..MaxCall
    BY ApiAssumption
<1>2. <<ch>> \in BoundedSeq(Byte, MaxCall)
    BY <1>1 DEF BoundedSeq, SeqOf
<1>3. <<ch>> \in Seq(Byte) /\ Len(<<ch>>) = 1 OBVIOUS
<1>4. SubSeq(<<ch>>, 1, 1) = <<ch>> BY <1>3, SubSeqFull
<1>5. SubSeq(<<ch>>, 1, 0) = <<>> BY SubSeqEmpty
<1>6. QED BY <1>2, <1>3, <1>4, <1>5, NIsNat

LEMMA PutCharStep ==
    ASSUME IInv, NEW ch \in Byte, PutChar(ch)
    PROVE  IInv' /\ Queue!Offer(<<ch>>)
<1> DEFINE s == <<ch>>
           space == rt_ringbuffer_space_len(rb)
<1>1. /\ rb \in rt_ringbuffer /\ Sided(rb) /\ pool \in [Index -> Byte]
      /\ Content \in Seq(Byte) /\ space = N - Len(Content) /\ Len(Content) \in 0..N
    BY BufferFacts
<1>2. /\ s \in Seq(Byte) /\ Len(s) = 1 /\ 1 \in 0..N
      /\ SubSeq(s, 1, 1) = s /\ SubSeq(s, 1, 0) = <<>>
    BY CharFacts
<1> HIDE DEF s, space
<1>3. CASE space = 0
    <2>1. rb' = rb /\ UNCHANGED pool /\ Answer(0, <<>>)
        BY <1>3 DEF PutChar, rt_ringbuffer_putchar, space
    <2>2. IInv'
        <3>1. 0 \in Nat /\ 0 <= N BY NIsNat
        <3>2. QED BY <1>1, <2>1, <3>1, EmptyFacts, AnswerKeepsType
    <2>3. Content' = Content BY <2>1 DEF Content
    <2>4. Queue!Smaller(Len(s), buffer_size - Len(Content)) = 0
        BY <1>1, <1>2, <1>3, NIsNat DEF Queue!Smaller, N
    <2>5. Content \o SubSeq(s, 1, 0) = Content
        BY <1>1, <1>2, ConcatEmptySeq
    <2>6. Queue!Offer(s)
        BY <2>1, <2>3, <2>4, <2>5 DEF Queue!Offer, Answer, Content
    <2>7. QED BY <2>2, <2>6 DEF s
<1>4. CASE space # 0
    <2>1. rt_ringbuffer_putchar(rb) = WriteMoved(rb, 1)
        BY <1>4 DEF rt_ringbuffer_putchar, space
    <2>2. WriteMoved(rb, 1) # rb
        <3>1. Wraps(rb.write_index, 1) =>
                WriteMoved(rb, 1).write_mirror = 1 - rb.write_mirror
            BY <1>1, <1>2, WriteMovedFields
        <3>2. ~Wraps(rb.write_index, 1) =>
                WriteMoved(rb, 1).write_index = rb.write_index + 1
            <4>1. WriteMoved(rb, 1).write_index = At(rb.write_index, 1)
                BY <1>1, <1>2, WriteMovedFields
            <4>2. QED BY <1>1, <4>1, BufferSizeAssumption DEF Wraps, At, rt_ringbuffer, Index
        <3>3. rb.write_mirror # 1 - rb.write_mirror /\ rb.write_index # rb.write_index + 1
            BY <1>1 DEF rt_ringbuffer, Index
        <3>4. QED BY <3>1, <3>2, <3>3
    <2>3. rb' = WriteMoved(rb, 1) /\ Wrote(s) /\ Answer(1, <<>>)
        BY <2>1, <2>2 DEF PutChar, s
    <2>4. Len(s) <= space BY <1>1, <1>2, <1>4, NIsNat
    <2>5. /\ rb' \in rt_ringbuffer /\ Sided(rb') /\ pool' \in [Index -> Byte]
          /\ Content' = Content \o s
        BY <1>2, <2>3, <2>4, Written DEF space
    <2>6. IInv'
        <3>1. 1 \in Nat /\ 1 <= N BY NIsNat
        <3>2. QED BY <2>3, <2>5, <3>1, EmptyFacts, AnswerKeepsType
    <2>7. Queue!Smaller(Len(s), buffer_size - Len(Content)) = 1
        BY <1>1, <1>2, <2>4, NIsNat DEF Queue!Smaller, N
    <2>8. Queue!Offer(s)
        BY <1>2, <2>3, <2>5, <2>7 DEF Queue!Offer, Answer, Content
    <2>9. QED BY <2>6, <2>8 DEF s
<1>5. QED BY <1>3, <1>4

LEMMA PutCharForceStep ==
    ASSUME IInv, NEW ch \in Byte, rt_ringbuffer_putchar_force(ch)
    PROVE  IInv' /\ Queue!Force(<<ch>>)
<1> DEFINE s == <<ch>>
           moved == WriteMoved(rb, 1)
<1>1. /\ rb \in rt_ringbuffer /\ Sided(rb) /\ pool \in [Index -> Byte]
      /\ Content \in Seq(Byte) /\ Len(Content) \in 0..N
      /\ rt_ringbuffer_space_len(rb) = N - Len(Content)
      /\ (rt_ringbuffer_status(rb) = "FULL") <=> (Len(Content) = N)
    BY BufferFacts
<1>2. /\ s \in Seq(Byte) /\ Len(s) = 1 /\ 1 \in 0..N /\ SubSeq(s, 1, 1) = s
    BY CharFacts
<1>3. /\ Wrote(s) /\ Answer(1, <<>>)
      /\ rb' = IF rt_ringbuffer_status(rb) = "FULL"
               THEN CharOvertaken(moved, Wraps(rb.write_index, 1)) ELSE moved
    BY DEF rt_ringbuffer_putchar_force
<1> HIDE DEF s
<1>4. /\ rb' \in rt_ringbuffer /\ Sided(rb') /\ pool' \in [Index -> Byte]
      /\ Content' = Queue!Latest(Content \o s)
    <2>1. CASE rt_ringbuffer_status(rb) = "FULL"
        <3>1. /\ Good(rb') /\ rb'.read_index = At(rb.write_index, 1)
              /\ rt_ringbuffer_data_len(rb') = N
            BY <1>1, <1>3, <2>1, CharOvertakenIsFull
        <3>2. 1 > rt_ringbuffer_space_len(rb)
            <4>1. Len(Content) = N BY <1>1, <2>1
            <4>2. rt_ringbuffer_space_len(rb) = N - N BY <1>1, <4>1
            <4>3. QED BY <4>2, NIsNat
        <3>3. Wrote(SubSeq(s, Len(s) - 1 + 1, Len(s)))
            <4>1. Len(s) - 1 + 1 = 1 BY <1>2
            <4>2. SubSeq(s, Len(s) - 1 + 1, Len(s)) = s BY <1>2, <4>1
            <4>3. QED BY <1>3, <4>2
        <3>4. 1 <= Len(s) /\ (1 < N => 1 = Len(s)) BY <1>2
        <3>5. QED BY <1>2, <3>1, <3>2, <3>3, <3>4, Overwritten
    <2>2. CASE rt_ringbuffer_status(rb) # "FULL"
        <3>1. Len(s) <= rt_ringbuffer_space_len(rb) /\ Len(Content) + 1 <= N
            BY <1>1, <1>2, <2>2, NIsNat
        <3>2. /\ rb' \in rt_ringbuffer /\ Sided(rb') /\ pool' \in [Index -> Byte]
              /\ Content' = Content \o s
            BY <1>2, <1>3, <2>2, <3>1, Written
        <3>3. Queue!Latest(Content \o s) = Content \o s
            BY <1>1, <1>2, <3>1, LatestOfFew
        <3>4. QED BY <3>2, <3>3
    <2>3. QED BY <2>1, <2>2
<1>5. IInv'
    <2>1. 1 \in Nat /\ 1 <= N BY NIsNat
    <2>2. QED BY <1>3, <1>4, <2>1, EmptyFacts, AnswerKeepsType
<1>6. Queue!Smaller(Len(s), buffer_size) = 1
    BY <1>2, NIsNat DEF Queue!Smaller, N
<1>7. Queue!Force(s)
    BY <1>3, <1>4, <1>6 DEF Queue!Force, Answer, Content
<1>8. QED BY <1>5, <1>7 DEF s

(* Taking k bytes, however many are asked for.                             *)
LEMMA TakeStep ==
    ASSUME IInv, NEW n \in Nat, NEW k \in 0..rt_ringbuffer_data_len(rb),
           k = IF rt_ringbuffer_data_len(rb) < n THEN rt_ringbuffer_data_len(rb) ELSE n,
           Answer(k, Copied(pool, rb.read_index, k)),
           rb' = ReadMoved(rb, k) \/ (k = 0 /\ rb' = rb), UNCHANGED pool
    PROVE  IInv' /\ Queue!Take(n)
<1>1. /\ rt_ringbuffer_data_len(rb) \in 0..N /\ Len(Content) = rt_ringbuffer_data_len(rb)
    BY BufferFacts
<1>2. /\ rb' \in rt_ringbuffer /\ Sided(rb') /\ pool' \in [Index -> Byte]
      /\ Content' = SubSeq(Content, k + 1, Len(Content))
      /\ Copied(pool, rb.read_index, k) = SubSeq(Content, 1, k)
      /\ Copied(pool, rb.read_index, k) \in Seq(Byte)
    BY Taken
<1>3. k \in Nat /\ k <= N BY <1>1, NIsNat
<1>4. IInv' BY <1>2, <1>3, AnswerKeepsType
<1>5. Queue!Smaller(n, Len(Content)) = k
    BY <1>1, NIsNat DEF Queue!Smaller
<1>6. Queue!Take(n)
    BY <1>2, <1>5 DEF Queue!Take, Answer, Content
<1>7. QED BY <1>4, <1>6

LEMMA GetStep ==
    ASSUME IInv, NEW length \in 0..MaxCall, rt_ringbuffer_get(length)
    PROVE  IInv' /\ Queue!Take(length)
<1> DEFINE size == rt_ringbuffer_data_len(rb)
           k == IF size < length THEN size ELSE length
<1>1. /\ Answer(k, Copied(pool, rb.read_index, k)) /\ UNCHANGED pool
      /\ rb' = IF size = 0 THEN rb ELSE ReadMoved(rb, k)
    BY DEF rt_ringbuffer_get
<1>2. size \in 0..N BY BufferFacts
<1> HIDE DEF size
<1>3. length \in Nat /\ k \in 0..size /\ (size = 0 => k = 0)
    BY <1>2, ApiAssumption, NIsNat
<1>4. rb' = ReadMoved(rb, k) \/ (k = 0 /\ rb' = rb) BY <1>1, <1>3
<1>5. QED BY <1>1, <1>3, <1>4, TakeStep DEF size

LEMMA PeekStep ==
    ASSUME IInv, rt_ringbuffer_peek
    PROVE  IInv' /\ (Queue!TakeSome \/ Queue!Take(0))
<1> DEFINE size == rt_ringbuffer_data_len(rb)
           k == IF Wraps(rb.read_index, size) THEN buffer_size - rb.read_index ELSE size
<1>1. /\ Answer(k, Copied(pool, rb.read_index, k)) /\ UNCHANGED pool
      /\ rb' = IF size = 0 THEN rb ELSE ReadMoved(rb, k)
    BY DEF rt_ringbuffer_peek
<1>2. size \in 0..N /\ Len(Content) = size /\ rb.read_index \in Index
    BY BufferFacts
<1> HIDE DEF size
<1>3. k \in Nat /\ k \in 0..size /\ (size = 0 <=> k = 0)
    BY <1>2, NIsNat DEF Wraps, Index, N
<1> HIDE DEF k
<1>4. rb' = ReadMoved(rb, k) \/ (k = 0 /\ rb' = rb) BY <1>1, <1>3
<1>5. k = IF size < k THEN size ELSE k BY <1>2, <1>3, NIsNat
<1>6. IInv' /\ Queue!Take(k) BY <1>1, <1>3, <1>4, <1>5, TakeStep DEF size
<1>7. k = 0 \/ k \in 1..Len(Content) BY <1>2, <1>3, NIsNat
<1>8. QED BY <1>6, <1>7 DEF Queue!TakeSome, Content

LEMMA FreshBuffer ==
    /\ rt_ringbuffer_reset \in rt_ringbuffer /\ Sided(rt_ringbuffer_reset)
    /\ rt_ringbuffer_data_len(rt_ringbuffer_reset) = 0
    /\ \A p, r : Copied(p, r, 0) = <<>>
<1>1. /\ rt_ringbuffer_reset \in rt_ringbuffer /\ Sided(rt_ringbuffer_reset)
      /\ rt_ringbuffer_data_len(rt_ringbuffer_reset) = 0
    BY BufferSizeAssumption DEF rt_ringbuffer_reset, rt_ringbuffer, Index, Sided,
         rt_ringbuffer_data_len, rt_ringbuffer_status
<1>2. ASSUME NEW p, NEW r PROVE Copied(p, r, 0) = <<>>
    BY DEF Copied
<1>3. QED BY <1>1, <1>2

LEMMA ResetStep ==
    ASSUME IInv, Reset
    PROVE  IInv' /\ Queue!Discard
<1>1. rb' = rt_ringbuffer_reset /\ UNCHANGED <<pool, answer>> BY DEF Reset
<1>2. IInv' BY <1>1, FreshBuffer DEF IInv, TypeOK
<1>3. Content' = <<>> BY <1>1, FreshBuffer DEF Content
<1>4. QED BY <1>1, <1>2, <1>3 DEF Queue!Discard, Content

-----------------------------------------------------------------------------

LEMMA InitIInv == Init => IInv /\ Queue!QueueInit
<1> SUFFICES ASSUME Init PROVE IInv /\ Queue!QueueInit OBVIOUS
<1>1. /\ rb = rt_ringbuffer_reset /\ pool \in [Index -> Byte]
      /\ answer = [count |-> 0, bytes |-> <<>>]
    BY ApiAssumption DEF Init
<1>2. answer.count = 0 /\ answer.bytes = <<>> BY <1>1
<1>3. 0 \in 0..(IF MaxCall > buffer_size THEN MaxCall ELSE buffer_size)
    BY ApiAssumption, BufferSizeAssumption
<1>4. IInv BY <1>1, <1>2, <1>3, FreshBuffer, EmptyFacts DEF IInv, TypeOK
<1>5. Content = <<>> BY <1>1, FreshBuffer DEF Content
<1>6. QED BY <1>1, <1>4, <1>5 DEF Queue!QueueInit, Content

LEMMA StepIInv == IInv /\ [Next]_vars => IInv' /\ [Queue!QueueNext]_(Queue!queueVars)
<1> SUFFICES ASSUME IInv, [Next]_vars
             PROVE  IInv' /\ [Queue!QueueNext]_(Queue!queueVars)
    OBVIOUS
<1>1. ASSUME NEW s \in BoundedSeq(Byte, MaxCall),
             rt_ringbuffer_put(s) \/ rt_ringbuffer_put_force(s)
      PROVE  IInv' /\ Queue!QueueNext
    <2>1. s \in Queue!BoundedSeq(Byte, MaxCall)
        BY DEF BoundedSeq, SeqOf, Queue!BoundedSeq, Queue!SeqOf
    <2>2. QED BY <1>1, <2>1, PutStep, PutForceStep DEF Queue!QueueNext
<1>2. ASSUME NEW ch \in Byte, PutChar(ch) \/ rt_ringbuffer_putchar_force(ch)
      PROVE  IInv' /\ Queue!QueueNext
    <2>1. <<ch>> \in Queue!BoundedSeq(Byte, MaxCall)
        BY CharFacts DEF BoundedSeq, SeqOf, Queue!BoundedSeq, Queue!SeqOf
    <2>2. QED BY <1>2, <2>1, PutCharStep, PutCharForceStep DEF Queue!QueueNext
<1>3. ASSUME NEW length \in 0..MaxCall, rt_ringbuffer_get(length)
      PROVE  IInv' /\ Queue!QueueNext
    BY <1>3, GetStep DEF Queue!QueueNext
<1>4. CASE rt_ringbuffer_peek
    <2>1. 0 \in 0..MaxCall BY ApiAssumption
    <2>2. QED BY <1>4, <2>1, PeekStep DEF Queue!QueueNext
<1>5. CASE Reset
    BY <1>5, ResetStep DEF Queue!QueueNext
<1>6. CASE UNCHANGED vars
    <2>1. IInv' BY <1>6 DEF vars, IInv, TypeOK
    <2>2. Content' = Content /\ answer' = answer BY <1>6 DEF vars, Content
    <2>3. QED BY <2>1, <2>2 DEF Queue!queueVars, Content
<1>7. QED BY <1>1, <1>2, <1>3, <1>4, <1>5, <1>6 DEF Next

(* The indices stay in the pool and no call returns more than was asked    *)
(* for or can be held, whatever sequence of calls is made.                 *)
THEOREM TypeCorrect == Spec => []TypeOK
<1>1. IInv => TypeOK BY DEF IInv
<1>2. QED BY InitIInv, StepIInv, <1>1, PTL DEF Spec

(* Every call does to the bytes held what ByteQueue says: for every size   *)
(* of the pool, wherever the two indices are and however the transfer      *)
(* wraps.                                                                  *)
THEOREM BufferImplementsQueue == Spec => ImplementsQueue
<1>1. QED BY InitIInv, StepIInv, PTL DEF Spec, ImplementsQueue, Queue!QueueSpec
=============================================================================
