------------------------ MODULE ZmodemReceiveProofs ------------------------
(***************************************************************************)
(* The safety properties of ZmodemReceive for every file, every size of    *)
(* the buffers, pages and sectors and every number of faults.  The first   *)
(* part says what the functions of rz do to the flash and to the page; the *)
(* second proves IInv step by step.                                        *)
(***************************************************************************)
EXTENDS ZmodemReceive, Sequences, SequenceTheorems, WellFoundedInduction, TLAPS

-----------------------------------------------------------------------------
(* Sequences, and the least of a set.                                      *)

LEMMA LeastExists ==
    ASSUME NEW S, S \subseteq Nat, S # {}
    PROVE  \E x \in S : \A y \in S : x <= y
<1> DEFINE R == {p \in Nat \X Nat : p[1] < p[2]}
<1>1. IsWellFoundedOn(R, Nat)
    BY NatLessThanWellFounded DEF OpToRel
<1>2. \A x, y \in Nat : y < x => <<y, x>> \in R
    OBVIOUS
<1> HIDE DEF R
<1>3. PICK x \in S : \A y \in S : ~(<<y, x>> \in R)
    BY <1>1, WFMin
<1>4. ASSUME NEW y \in S PROVE x <= y
    <2>1. x \in Nat /\ y \in Nat
        OBVIOUS
    <2>2. ~(y < x)
        BY <1>2, <1>3, <2>1
    <2>3. QED BY <2>1, <2>2
<1>5. QED BY <1>4

LEMMA MinIsLeast ==
    ASSUME NEW S, S \subseteq Nat, S # {}
    PROVE  Min(S) \in S /\ \A y \in S : Min(S) <= y
BY LeastExists DEF Min

IsRemoved(r, s, i) ==
    /\ Len(r) = Len(s) - 1
    /\ \A j \in 1..(Len(s) - 1) : r[j] = IF j < i THEN s[j] ELSE s[j + 1]

LEMMA RemoveFacts ==
    ASSUME NEW T, NEW s \in Seq(T), NEW i \in 1..Len(s)
    PROVE  RemoveAt(s, i) \in Seq(T) /\ IsRemoved(RemoveAt(s, i), s, i)
<1> DEFINE a == SubSeq(s, 1, i - 1)
           b == SubSeq(s, i + 1, Len(s))
<1>1. /\ a \in Seq(T) /\ Len(a) = i - 1
      /\ \A j \in 1..(i - 1) : a[j] = s[j]
    BY SubSeqProperties
<1>2. /\ b \in Seq(T) /\ Len(b) = Len(s) - i
      /\ \A j \in 1..(Len(s) - i) : b[j] = s[i + j]
    BY SubSeqProperties
<1> HIDE DEF a, b
<1>3. /\ a \o b \in Seq(T) /\ Len(a \o b) = Len(a) + Len(b)
      /\ \A j \in 1..(Len(a) + Len(b)) :
           (a \o b)[j] = IF j <= Len(a) THEN a[j] ELSE b[j - Len(a)]
    BY <1>1, <1>2, ConcatProperties
<1>4. Len(a) + Len(b) = Len(s) - 1
    BY <1>1, <1>2
<1>5. ASSUME NEW j \in 1..(Len(s) - 1)
      PROVE  (a \o b)[j] = IF j < i THEN s[j] ELSE s[j + 1]
    <2>1. CASE j < i
        BY <1>1, <1>3, <1>4, <2>1
    <2>2. CASE ~(j < i)
        <3>1. /\ (a \o b)[j] = b[j - Len(a)] /\ Len(a) = i - 1
              /\ j - Len(a) \in 1..(Len(s) - i)
            BY <1>1, <1>3, <1>4, <2>2
        <3>2. b[j - Len(a)] = s[i + (j - Len(a))]
            BY <1>2, <3>1
        <3>3. i + (j - Len(a)) = j + 1
            BY <3>1
        <3>4. QED BY <2>2, <3>1, <3>2, <3>3
    <2>3. QED BY <2>1, <2>2
<1>6. QED BY <1>3, <1>4, <1>5 DEF a, b, RemoveAt, IsRemoved

(* Writing the first n elements of b into s behind its first i.             *)
IsSpliced(r, s, b, i, n) ==
    /\ Len(r) = Len(s)
    /\ \A j \in 1..Len(s) :
           r[j] = IF j <= i \/ j > i + n THEN s[j] ELSE b[j - i]

Splice(s, b, i, n) ==
    SubSeq(s, 1, i) \o SubSeq(b, 1, n) \o SubSeq(s, i + n + 1, Len(s))

LEMMA SpliceFacts ==
    ASSUME NEW T, NEW s \in Seq(T), NEW b \in Seq(T),
           NEW i \in Nat, NEW n \in 0..Len(b), i + n <= Len(s)
    PROVE  Splice(s, b, i, n) \in Seq(T) /\ IsSpliced(Splice(s, b, i, n), s, b, i, n)
<1> DEFINE x == SubSeq(s, 1, i)
           y == SubSeq(b, 1, n)
           z == SubSeq(s, i + n + 1, Len(s))
           xy == x \o y
           r == xy \o z
<1>0. /\ Len(s) \in Nat /\ Len(b) \in Nat /\ n \in Nat
      /\ \A j \in 1..Len(s) : s[j] \in T
      /\ \A j \in 1..Len(b) : b[j] \in T
    BY LenProperties, ElementOfSeq
<1>1. x \in Seq(T) /\ Len(x) = i /\ \A j \in 1..i : x[j] = s[j]
    BY <1>0, SubSeqProperties
<1>2. y \in Seq(T) /\ Len(y) = n /\ \A j \in 1..n : y[j] = b[j]
    BY <1>0, SubSeqProperties
<1>3. /\ z \in Seq(T) /\ Len(z) = Len(s) - (i + n)
      /\ \A j \in 1..(Len(s) - (i + n)) : z[j] = s[i + n + j]
    <2>1. /\ z \in Seq(T)
          /\ Len(z) = IF i + n + 1 <= Len(s) THEN Len(s) - (i + n + 1) + 1 ELSE 0
          /\ \A j \in 1..(Len(s) - (i + n + 1) + 1) : z[j] = s[i + n + 1 + j - 1]
        BY <1>0, SubSeqProperties
    <2> HIDE DEF z
    <2>2. Len(s) - (i + n + 1) + 1 = Len(s) - (i + n)
        BY <1>0
    <2>3. Len(z) = Len(s) - (i + n)
        BY <1>0, <2>1
    <2>4. ASSUME NEW j \in 1..(Len(s) - (i + n))
          PROVE  z[j] = s[i + n + j]
        <3>1. j \in 1..(Len(s) - (i + n + 1) + 1)
            BY <2>2
        <3>2. z[j] = s[i + n + 1 + j - 1]
            BY <2>1, <3>1
        <3>3. i + n + 1 + j - 1 = i + n + j
            BY <1>0
        <3>4. QED BY <3>2, <3>3
    <2>5. QED BY <2>1, <2>3, <2>4
<1> HIDE DEF x, y, z
<1>4. /\ xy \in Seq(T) /\ Len(xy) = i + n
      /\ \A j \in 1..(i + n) : xy[j] = IF j <= i THEN x[j] ELSE y[j - i]
    BY <1>1, <1>2, ConcatProperties
<1> HIDE DEF xy
<1>5. /\ r \in Seq(T) /\ Len(r) = Len(s)
      /\ \A j \in 1..Len(s) : r[j] = IF j <= i + n THEN xy[j] ELSE z[j - (i + n)]
    BY <1>0, <1>3, <1>4, ConcatProperties
<1> HIDE DEF r
<1>6. ASSUME NEW j \in 1..Len(s)
      PROVE  r[j] = IF j <= i \/ j > i + n THEN s[j] ELSE b[j - i]
    <2>1. CASE j <= i
        BY <1>0, <1>1, <1>4, <1>5, <2>1
    <2>2. CASE j > i /\ j <= i + n
        <3>1. j - i \in 1..n /\ j \in 1..(i + n)
            BY <1>0, <2>2
        <3>2. QED BY <1>2, <1>4, <1>5, <2>2, <3>1
    <2>3. CASE j > i + n
        <3>1. j - (i + n) \in 1..(Len(s) - (i + n)) /\ i + n + (j - (i + n)) = j
            BY <1>0, <2>3
        <3>2. r[j] = z[j - (i + n)]
            BY <1>5, <2>3
        <3>3. QED BY <1>3, <2>3, <3>1, <3>2
    <2>4. QED BY <1>0, <2>1, <2>2, <2>3
<1>7. r = Splice(s, b, i, n)
    BY DEF r, xy, x, y, z, Splice
<1>8. QED BY <1>5, <1>6, <1>7 DEF IsSpliced
-----------------------------------------------------------------------------

-----------------------------------------------------------------------------
(* The flash and the page.                                                  *)

Flash   == [1..FlashSize -> 0..FF]
Statics == [flash_write_pos : 0..FlashSize, expected_size : Nat,
            received_size : Nat, page : Seq(0..FF)]

LEMMA Sizing ==
    /\ write_buf_size \in Nat /\ PageSize \in Nat /\ FlashSize \in Nat
    /\ MaxFaults \in Nat /\ MaxCalls \in Nat /\ FLASH_SECTOR_SIZE \in Nat
    /\ 2 <= write_buf_size /\ write_buf_size <= PageSize
    /\ FF \in 0..FF /\ Junk \in 0..FF /\ Old \in 0..FF
    /\ Sizes \subseteq 1..FlashSize /\ Sizes \subseteq Nat
  BY ZmodemAssumption DEF FF, Junk, Old

LEMMA EvenPages == PageSize % 2 = 0
  BY ZmodemAssumption

LEMMA FlashIsSeq ==
    ASSUME NEW fl \in Flash
    PROVE  fl \in Seq(0..FF) /\ Len(fl) = FlashSize /\ DOMAIN fl = 1..FlashSize
  <1>1. fl \in Seq(0..FF)
    BY Sizing DEF Flash
  <1> QED
    BY <1>1, Sizing, LenProperties DEF Flash

(* The half-words onchip_flash_write cannot program.                        *)
StuckAt(fl, offset, buf) ==
    {k \in 0..(Len(buf) - 1) : k % 2 = 0 /\ ~HalfwordErased(fl, offset + k)}

Written(fl, offset, buf) ==
    IF StuckAt(fl, offset, buf) = {} THEN Len(buf) ELSE Min(StuckAt(fl, offset, buf))

LEMMA WrittenFits ==
    ASSUME NEW fl \in Flash, NEW offset \in 0..FlashSize,
           NEW buf \in Seq(0..FF), Len(buf) % 2 = 0
    PROVE  /\ Written(fl, offset, buf) \in 0..Len(buf)
           /\ offset + Written(fl, offset, buf) <= FlashSize
           /\ StuckAt(fl, offset, buf) # {} =>
                /\ Written(fl, offset, buf) \in 0..(Len(buf) - 1)
                /\ Written(fl, offset, buf) % 2 = 0
                /\ ~HalfwordErased(fl, offset + Written(fl, offset, buf))
  <1> DEFINE stuck == StuckAt(fl, offset, buf)
  <1>a. PICK n : n = Written(fl, offset, buf)
    OBVIOUS
  <1>1. Len(buf) \in Nat /\ FlashSize \in Nat /\ DOMAIN fl = 1..FlashSize
    BY Sizing, FlashIsSeq, LenProperties
  <1>b. stuck \subseteq Nat /\ \A k \in stuck : k \in 0..(Len(buf) - 1) /\ k % 2 = 0
    BY <1>1 DEF StuckAt
  <1>2. stuck # {} => n \in stuck /\ \A k \in stuck : n <= k
    BY <1>a, <1>b, MinIsLeast DEF Written
  <1>3. stuck = {} => n = Len(buf)
    BY <1>a DEF Written
  <1>4. n \in 0..Len(buf) /\ n % 2 = 0
    <2>1. CASE stuck = {}
      BY <1>1, <1>3, <2>1
    <2>2. CASE stuck # {}
      BY <1>1, <1>2, <1>b, <2>2
    <2> QED
      BY <2>1, <2>2
  <1>5. ASSUME n # 0 PROVE offset + n <= FlashSize
    <2>1. n - 2 \in 0..(Len(buf) - 1) /\ (n - 2) % 2 = 0
      BY <1>1, <1>4, <1>5
    <2>2. n - 2 \notin stuck
      BY <1>2, <1>3, <1>4
    <2>3. HalfwordErased(fl, offset + (n - 2))
      BY <2>1, <2>2 DEF StuckAt
    <2> QED
      BY <1>1, <1>4, <2>3 DEF HalfwordErased, At
  <1> QED
    BY <1>a, <1>b, <1>1, <1>2, <1>4, <1>5 DEF StuckAt

(* onchip_flash_write programs the bytes in front of the first half-word it *)
(* cannot program, and nothing else (bsp_flash.c:130-164).                  *)
LEMMA WriteFacts ==
    ASSUME NEW fl \in Flash, NEW offset \in 0..FlashSize,
           NEW buf \in Seq(0..FF), Len(buf) % 2 = 0
    PROVE  LET w == onchip_flash_write(fl, offset, buf)
               n == Written(fl, offset, buf)
           IN  /\ w.flash \in Flash
               /\ w.ok <=> StuckAt(fl, offset, buf) = {}
               /\ \A i \in 1..FlashSize :
                    w.flash[i] = IF i <= offset \/ i > offset + n THEN fl[i]
                                 ELSE buf[i - offset]
  <1>1. PICK n : n = Written(fl, offset, buf)
    OBVIOUS
  <1>2. Len(buf) \in Nat /\ FlashSize \in Nat /\ offset \in Nat
        /\ fl \in Seq(0..FF) /\ Len(fl) = FlashSize /\ DOMAIN fl = 1..FlashSize
    BY Sizing, FlashIsSeq, LenProperties
  <1>3. n \in 0..Len(buf) /\ offset + n <= FlashSize
    BY <1>1, WrittenFits
  <1>4. PICK r : r = Splice(fl, buf, offset, n)
    OBVIOUS
  <1>5. /\ r \in Seq(0..FF) /\ Len(r) = FlashSize
        /\ \A i \in 1..FlashSize :
             r[i] = IF i <= offset \/ i > offset + n THEN fl[i] ELSE buf[i - offset]
    <2>1. offset \in Nat /\ n \in 0..Len(buf) /\ offset + n <= Len(fl)
      BY <1>2, <1>3
    <2>2. r \in Seq(0..FF) /\ IsSpliced(r, fl, buf, offset, n)
      BY <1>2, <1>4, <2>1, SpliceFacts
    <2> QED
      BY <1>2, <2>2 DEF IsSpliced
  <1>6. r \in Flash
    BY <1>5, LenProperties DEF Flash
  <1>7. /\ onchip_flash_write(fl, offset, buf).flash = r
        /\ onchip_flash_write(fl, offset, buf).ok <=> StuckAt(fl, offset, buf) = {}
    <2>1. At(offset + n) = offset + n + 1
      BY <1>2, <1>3 DEF At
    <2> QED
      BY <1>1, <1>4, <2>1 DEF onchip_flash_write, StuckAt, Written, Splice
  <1> QED
    BY <1>1, <1>5, <1>6, <1>7

Padded(s) == IF Len(s.page) % 2 = 1 THEN Append(s.page, FF) ELSE s.page

LEMMA PaddedFacts ==
    ASSUME NEW s \in Statics, Len(s.page) <= PageSize
    PROVE  /\ Padded(s) \in Seq(0..FF) /\ Len(Padded(s)) % 2 = 0
           /\ Len(Padded(s)) \in Nat /\ Len(s.page) \in Nat
           /\ Len(s.page) <= Len(Padded(s)) /\ Len(Padded(s)) <= PageSize
           /\ Len(s.page) % 2 = 0 => Padded(s) = s.page
           /\ \A j \in 1..Len(s.page) : Padded(s)[j] = s.page[j]
           /\ \A k \in Nat : k % 2 = 0 => (k < Len(Padded(s)) <=> k < Len(s.page))
  <1>1. PICK L : L = Len(s.page)
    OBVIOUS
  <1>2. s.page \in Seq(0..FF) /\ L \in Nat /\ L <= PageSize
    BY <1>1, LenProperties DEF Statics
  <1>3. /\ Padded(s) \in Seq(0..FF)
        /\ Len(Padded(s)) = IF L % 2 = 1 THEN L + 1 ELSE L
        /\ L % 2 # 1 => Padded(s) = s.page
        /\ \A j \in 1..L : Padded(s)[j] = s.page[j]
    <2>1. CASE L % 2 = 1
      <3>1. Padded(s) = Append(s.page, FF)
        BY <1>1, <2>1 DEF Padded
      <3> QED
        <4>1. FF \in 0..FF /\ s.page \in Seq(0..FF)
          BY <1>2, Sizing
        <4>2. /\ Append(s.page, FF) \in Seq(0..FF)
              /\ Len(Append(s.page, FF)) = Len(s.page) + 1
              /\ \A j \in 1..Len(s.page) : Append(s.page, FF)[j] = s.page[j]
          BY <4>1, AppendProperties
        <4> QED
          BY <1>1, <2>1, <3>1, <4>2
    <2>2. CASE L % 2 # 1
      BY <1>1, <1>2, <2>2 DEF Padded
    <2> QED
      BY <2>1, <2>2
  <1>4. \/ L % 2 = 1 /\ (L + 1) % 2 = 0 /\ L + 1 <= PageSize
        \/ L % 2 = 0
    BY <1>2, Sizing, EvenPages
  <1>5. \A k \in Nat : k % 2 = 0 /\ L % 2 = 1 => (k < L + 1 <=> k < L)
    BY <1>2
  <1>6. PICK N : N = Len(Padded(s))
    OBVIOUS
  <1>7. /\ N % 2 = 0 /\ N \in Nat /\ L <= N /\ N <= PageSize
        /\ L % 2 = 0 => Padded(s) = s.page
        /\ \A k \in Nat : k % 2 = 0 => (k < N <=> k < L)
    BY <1>2, <1>3, <1>4, <1>5, <1>6, Sizing
  <1> QED
    BY <1>1, <1>2, <1>3, <1>6, <1>7

(* flash_flush_page programs the page and empties it, or keeps it and will  *)
(* fail again (zmodem_tabby_rx_rz.c:84-104).                                *)
IsFlushed(r, fl, s) ==
    LET kept == s.flash_write_pos + Len(s.page)
    IN  /\ r.flash \in Flash /\ r.st \in Statics
        /\ Len(r.st.page) <= PageSize
        /\ r.st.received_size = s.received_size
        /\ r.st.expected_size = s.expected_size
        /\ r.ok <=> ~PageStuck(fl, s)
        /\ ~r.ok => PageStuck(r.flash, r.st)
        /\ r.ok => /\ r.st.page = << >>
                   /\ kept <= r.st.flash_write_pos
                   /\ Len(s.page) % 2 = 0 => r.st.flash_write_pos = kept
                   /\ \A i \in 1..kept : r.flash[i] = KeptByte(fl, s, i)

LEMMA FlushFacts ==
    ASSUME NEW fl \in Flash, NEW s \in Statics, Len(s.page) <= PageSize
    PROVE  IsFlushed(flash_flush_page(fl, s), fl, s)
  <1> DEFINE kept == s.flash_write_pos + Len(s.page)
  <1>1. PICK p : p = Padded(s)
    OBVIOUS
  <1>2. PICK off : off = s.flash_write_pos
    OBVIOUS
  <1>3. PICK w : w = onchip_flash_write(fl, off, p)
    OBVIOUS
  <1>4. PICK n : n = Written(fl, off, p)
    OBVIOUS
  <1>5. /\ p \in Seq(0..FF) /\ Len(p) % 2 = 0 /\ Len(p) \in Nat /\ Len(s.page) \in Nat
        /\ Len(s.page) <= Len(p) /\ Len(p) <= PageSize
        /\ Len(s.page) % 2 = 0 => p = s.page
        /\ \A j \in 1..Len(s.page) : p[j] = s.page[j]
        /\ \A k \in Nat : k % 2 = 0 => (k < Len(p) <=> k < Len(s.page))
    BY <1>1, PaddedFacts
  <1>6. off \in 0..FlashSize /\ FlashSize \in Nat
    BY <1>2, Sizing DEF Statics
  <1>7. /\ w.flash \in Flash
        /\ w.ok <=> StuckAt(fl, off, p) = {}
        /\ \A i \in 1..FlashSize :
             w.flash[i] = IF i <= off \/ i > off + n THEN fl[i] ELSE p[i - off]
    BY <1>3, <1>4, <1>5, <1>6, WriteFacts
  <1>8. /\ n \in 0..Len(p) /\ off + n <= FlashSize
        /\ StuckAt(fl, off, p) # {} =>
             n \in 0..(Len(p) - 1) /\ n % 2 = 0 /\ ~HalfwordErased(fl, off + n)
        /\ StuckAt(fl, off, p) = {} => n = Len(p)
    BY <1>4, <1>5, <1>6, WrittenFits DEF Written
  <1>9. w.ok <=> ~PageStuck(fl, s)
    <2>1. \A k : k \in 0..(Len(p) - 1) /\ k % 2 = 0
                 <=> k \in 0..(Len(s.page) - 1) /\ k % 2 = 0
      BY <1>5
    <2>2. StuckAt(fl, off, p) = {} <=> ~PageStuck(fl, s)
      BY <1>2, <2>1 DEF StuckAt, PageStuck
    <2> QED
      BY <1>7, <2>2
  <1>10. /\ flash_flush_page(fl, s).flash = w.flash
         /\ flash_flush_page(fl, s).ok = w.ok
         /\ flash_flush_page(fl, s).st =
              IF w.ok THEN [s EXCEPT !.page = << >>, !.flash_write_pos = @ + Len(p)]
              ELSE [s EXCEPT !.page = p]
    BY <1>1, <1>2, <1>3 DEF flash_flush_page, Padded
  <1>11. CASE w.ok
    <2>1. n = Len(p) /\ off + Len(p) \in 0..FlashSize
      BY <1>5, <1>6, <1>7, <1>8, <1>11
    <2>2. PICK s1 : s1 = [s EXCEPT !.page = << >>, !.flash_write_pos = @ + Len(p)]
      OBVIOUS
    <2>3. /\ s1 \in Statics /\ s1.page = << >> /\ s1.flash_write_pos = off + Len(p)
          /\ s1.received_size = s.received_size /\ s1.expected_size = s.expected_size
      <3>1. << >> \in Seq(0..FF)
        OBVIOUS
      <3> QED
        BY <1>2, <2>1, <2>2, <3>1 DEF Statics
    <2>4. ASSUME NEW i \in 1..kept PROVE w.flash[i] = KeptByte(fl, s, i)
      <3>1. i \in 1..FlashSize /\ i <= off + n
        BY <1>2, <1>5, <1>6, <2>1
      <3>2. CASE i <= off
        BY <1>2, <1>7, <3>1, <3>2 DEF KeptByte
      <3>3. CASE ~(i <= off)
        <4>1. i - off \in 1..Len(s.page)
          BY <1>2, <1>5, <1>6, <3>3
        <4>2. QED
          <5>1. w.flash[i] = p[i - off]
            BY <1>5, <1>6, <1>7, <1>8, <3>1, <3>3
          <5>2. p[i - off] = s.page[i - off]
            BY <1>5, <4>1
          <5> QED
            BY <1>2, <3>3, <5>1, <5>2 DEF KeptByte
      <3> QED
        BY <3>2, <3>3
    <2>5. kept <= off + Len(p) /\ (Len(s.page) % 2 = 0 => off + Len(p) = kept)
      <3>1. Len(s.page) % 2 = 0 => Len(p) = Len(s.page)
        BY <1>5
      <3>2. kept = off + Len(s.page)
        BY <1>2
      <3>3. kept <= off + Len(p)
        BY <1>5, <1>6, <3>2
      <3> QED
        BY <3>1, <3>2, <3>3, Zenon
    <2>6. Len(s1.page) <= PageSize
      BY <2>3, Sizing
    <2> QED
      BY <1>7, <1>9, <1>10, <1>11, <2>2, <2>3, <2>4, <2>5, <2>6 DEF IsFlushed
  <1>12. CASE ~w.ok
    <2>1. n \in 0..(Len(p) - 1) /\ n % 2 = 0 /\ ~HalfwordErased(fl, off + n)
      BY <1>7, <1>8, <1>12
    <2>2. PICK s1 : s1 = [s EXCEPT !.page = p]
      OBVIOUS
    <2>3. /\ s1 \in Statics /\ s1.page = p /\ s1.flash_write_pos = off
          /\ s1.received_size = s.received_size /\ s1.expected_size = s.expected_size
      BY <1>2, <1>5, <2>2 DEF Statics
    <2>4. ~HalfwordErased(w.flash, off + n)
      <3>1. DOMAIN fl = 1..FlashSize /\ DOMAIN w.flash = 1..FlashSize
        BY <1>7, FlashIsSeq
      <3>2. \A i \in 1..FlashSize : i > off + n => w.flash[i] = fl[i]
        BY <1>7
      <3>3. off + n \in Nat
        BY <1>6, <2>1, <1>5
      <3> QED
        BY <1>6, <2>1, <3>1, <3>2, <3>3 DEF HalfwordErased, At
    <2>5. PageStuck(w.flash, s1)
      BY <2>1, <2>3, <2>4 DEF PageStuck
    <2>6. Len(s1.page) <= PageSize
      BY <1>5, <2>3
    <2> QED
      BY <1>7, <1>9, <1>10, <1>12, <2>2, <2>3, <2>5, <2>6 DEF IsFlushed
  <1> QED
    BY <1>7, <1>11, <1>12

(* Adding bytes to the page adds them behind what is kept.                  *)
LEMMA FilledFacts ==
    ASSUME NEW fl \in Flash, NEW s \in Statics, NEW d \in Seq(0..FF),
           NEW m \in Nat, m = s.flash_write_pos + Len(s.page)
    PROVE  /\ Filled(s, d) \in Statics
           /\ Len(Filled(s, d).page) = Len(s.page) + Len(d)
           /\ Filled(s, d).flash_write_pos = s.flash_write_pos
           /\ Filled(s, d).received_size = s.received_size
           /\ Filled(s, d).expected_size = s.expected_size
           /\ \A i \in 1..m : KeptByte(fl, Filled(s, d), i) = KeptByte(fl, s, i)
           /\ \A j \in 1..Len(d) : KeptByte(fl, Filled(s, d), m + j) = d[j]
  <1>1. PICK q : q = s.page \o d
    OBVIOUS
  <1>2. PICK L : L = Len(s.page)
    OBVIOUS
  <1>3. PICK off : off = s.flash_write_pos
    OBVIOUS
  <1>4. /\ s.page \in Seq(0..FF) /\ L \in Nat /\ Len(d) \in Nat
        /\ off \in Nat /\ m = off + L
    BY <1>2, <1>3, LenProperties, Sizing DEF Statics
  <1>5. /\ q \in Seq(0..FF) /\ Len(q) = L + Len(d)
        /\ \A i \in 1..(L + Len(d)) : q[i] = IF i <= L THEN s.page[i] ELSE d[i - L]
    BY <1>1, <1>2, <1>4, ConcatProperties
  <1>6. PICK f : f = Filled(s, d)
    OBVIOUS
  <1>7. /\ f \in Statics /\ f.page = q /\ f.flash_write_pos = off
        /\ f.received_size = s.received_size /\ f.expected_size = s.expected_size
    BY <1>1, <1>3, <1>5, <1>6 DEF Filled, Statics
  <1>8. ASSUME NEW i \in 1..m PROVE KeptByte(fl, f, i) = KeptByte(fl, s, i)
    <2>1. CASE i <= off
      BY <1>3, <1>7, <2>1 DEF KeptByte
    <2>2. CASE ~(i <= off)
      <3>1. i - off \in 1..(L + Len(d)) /\ i - off <= L
        BY <1>4, <2>2
      <3>2. q[i - off] = s.page[i - off]
        BY <1>5, <3>1
      <3> QED
        BY <1>3, <1>7, <2>2, <3>2 DEF KeptByte
    <2> QED
      BY <2>1, <2>2
  <1>9. ASSUME NEW j \in 1..Len(d) PROVE KeptByte(fl, f, m + j) = d[j]
    <2>1. /\ ~(m + j <= off) /\ m + j - off = L + j
          /\ L + j \in 1..(L + Len(d)) /\ ~(L + j <= L) /\ L + j - L = j
      BY <1>4
    <2>2. q[L + j] = d[j]
      BY <1>4, <1>5, <2>1
    <2> QED
      BY <1>4, <1>7, <2>1, <2>2 DEF KeptByte
  <1> QED
    BY <1>2, <1>3, <1>5, <1>6, <1>7, <1>8, <1>9

(* on_data adds the chunk to what is kept, or ends with a page that cannot  *)
(* be written (zmodem_tabby_rx_rz.c:106-134).                               *)
IsAdded(r, fl, s, data) ==
    LET m == s.flash_write_pos + Len(s.page)
    IN  /\ r.flash \in Flash /\ r.st \in Statics
        /\ Len(r.st.page) <= PageSize
        /\ r.st.expected_size = s.expected_size
        /\ ~r.ok => PageStuck(r.flash, r.st)
        /\ r.ok =>
             /\ Len(r.st.page) < PageSize
             /\ r.st.received_size = s.received_size + Len(data)
             /\ r.st.flash_write_pos + Len(r.st.page) = m + Len(data)
             /\ \A i \in 1..m : KeptByte(r.flash, r.st, i) = KeptByte(fl, s, i)
             /\ \A j \in 1..Len(data) : KeptByte(r.flash, r.st, m + j) = data[j]

LEMMA OnDataFacts ==
    ASSUME NEW fl \in Flash, NEW s \in Statics, Len(s.page) < PageSize,
           NEW data \in Seq(0..FF), Len(data) <= write_buf_size
    PROVE  IsAdded(on_data(fl, s, data), fl, s, data)
  <1>m. PICK m : m = s.flash_write_pos + Len(s.page)
    OBVIOUS
  <1>0. PICK off : off = s.flash_write_pos
    OBVIOUS
  <1>1. PICK L : L = Len(s.page)
    OBVIOUS
  <1>2. PICK N : N = Len(data)
    OBVIOUS
  <1>3. PICK space : space = PageSize - L
    OBVIOUS
  <1>4. PICK take : take = IF N < space THEN N ELSE space
    OBVIOUS
  <1>5. PICK c : c = Counted(s, data)
    OBVIOUS
  <1>6. PICK d : d = SubSeq(data, 1, take)
    OBVIOUS
  <1>7. PICK full : full = Filled(c, d)
    OBVIOUS
  <1>8. /\ L \in Nat /\ N \in Nat /\ PageSize \in Nat /\ L < PageSize /\ N <= PageSize
        /\ off \in Nat /\ m = off + L /\ m \in Nat
    <2>1. s.page \in Seq(0..FF) /\ s.flash_write_pos \in 0..FlashSize
      BY DEF Statics
    <2>2. Len(s.page) \in Nat /\ Len(data) \in Nat
      BY <2>1, LenProperties
    <2>4. off \in Nat /\ PageSize \in Nat
      BY <1>0, <2>1, Sizing
    <2>5. N <= PageSize
      BY <1>2, <2>2, Sizing
    <2> QED
      BY <1>m, <1>0, <1>1, <1>2, <2>2, <2>4, <2>5
  <1>b. \A j \in 1..N : data[j] \in 0..FF
    BY <1>2, ElementOfSeq
  <1>9. take \in Nat /\ take <= N /\ take <= space /\ space \in 1..PageSize
        /\ (take < space => take = N)
    BY <1>3, <1>4, <1>8
  <1>10. /\ c \in Statics /\ c.page = s.page /\ c.received_size = s.received_size + N
         /\ c.flash_write_pos = off /\ c.expected_size = s.expected_size
    <2>1. s.received_size + N \in Nat
      BY <1>8 DEF Statics
    <2> QED
      BY <1>0, <1>2, <1>5, <2>1 DEF Counted, Statics
  <1>11. d \in Seq(0..FF) /\ Len(d) = take /\ \A j \in 1..take : d[j] = data[j]
    <2>1. \A j \in 1..take : data[j] \in 0..FF
      BY <1>8, <1>9, <1>b
    <2> QED
      BY <1>6, <1>9, <2>1, SubSeqProperties
  <1>12. /\ full \in Statics /\ Len(full.page) = L + take
         /\ full.flash_write_pos = off
         /\ full.received_size = s.received_size + N
         /\ full.expected_size = s.expected_size
         /\ \A i \in 1..m : KeptByte(fl, full, i) = KeptByte(fl, s, i)
         /\ \A j \in 1..take : KeptByte(fl, full, m + j) = data[j]
    <2>1. \A i : KeptByte(fl, c, i) = KeptByte(fl, s, i)
      BY <1>0, <1>10 DEF KeptByte
    <2>2. m = c.flash_write_pos + Len(c.page)
      BY <1>1, <1>8, <1>10
    <2>3. /\ Filled(c, d) \in Statics
          /\ Len(Filled(c, d).page) = Len(c.page) + Len(d)
          /\ Filled(c, d).flash_write_pos = c.flash_write_pos
          /\ Filled(c, d).received_size = c.received_size
          /\ Filled(c, d).expected_size = c.expected_size
          /\ \A i \in 1..m : KeptByte(fl, Filled(c, d), i) = KeptByte(fl, c, i)
          /\ \A j \in 1..Len(d) : KeptByte(fl, Filled(c, d), m + j) = d[j]
      BY <1>8, <1>10, <1>11, <2>2, FilledFacts
    <2>4. Len(full.page) = L + take
      BY <1>1, <1>7, <1>10, <1>11, <2>3
    <2>5. \A i \in 1..m : KeptByte(fl, full, i) = KeptByte(fl, s, i)
      BY <1>7, <2>1, <2>3
    <2>6. \A j \in 1..take : KeptByte(fl, full, m + j) = data[j]
      BY <1>7, <1>11, <2>3
    <2> QED
      BY <1>7, <1>10, <2>3, <2>4, <2>5, <2>6
  <1>13. CASE take < space
    <2>1. on_data(fl, s, data) = [flash |-> fl, ok |-> TRUE, st |-> full]
      BY <1>1, <1>2, <1>3, <1>4, <1>5, <1>6, <1>7, <1>13 DEF on_data
    <2>2. L + take < PageSize /\ take = N
          /\ off + (L + take) = m + N
      BY <1>3, <1>8, <1>9, <1>13
    <2>3. PICK r : r = on_data(fl, s, data)
      OBVIOUS
    <2>4. r.flash = fl /\ r.ok /\ r.st = full
      BY <2>1, <2>3
    <2>5. Len(full.page) < PageSize /\ full.flash_write_pos + Len(full.page) = m + N
      BY <1>12, <2>2
    <2>6. Len(full.page) <= PageSize
      BY <1>8, <1>9, <1>12, <2>2
    <2> QED
      BY <1>m, <1>2, <1>12, <2>2, <2>3, <2>4, <2>5, <2>6 DEF IsAdded
  <1>14. CASE ~(take < space)
    <2>1. take = space /\ L + take = PageSize
      BY <1>3, <1>8, <1>9, <1>14
    <2>2. PICK r : r = flash_flush_page(fl, full)
      OBVIOUS
    <2>3. Len(full.page) = PageSize /\ Len(full.page) % 2 = 0
      BY <1>12, <2>1, EvenPages
    <2>4. /\ r.flash \in Flash /\ r.st \in Statics
          /\ Len(r.st.page) <= PageSize
          /\ r.st.received_size = s.received_size + N
          /\ r.st.expected_size = s.expected_size
          /\ ~r.ok => PageStuck(r.flash, r.st)
          /\ r.ok => /\ r.st.page = << >>
                     /\ r.st.flash_write_pos = off + PageSize
                     /\ \A i \in 1..(off + PageSize) :
                          r.flash[i] = KeptByte(fl, full, i)
      <3>1. full \in Statics /\ Len(full.page) <= PageSize
        BY <1>8, <1>12, <2>3
      <3>2. /\ r.flash \in Flash /\ r.st \in Statics
            /\ Len(r.st.page) <= PageSize
            /\ r.st.received_size = full.received_size
            /\ r.st.expected_size = full.expected_size
            /\ ~r.ok => PageStuck(r.flash, r.st)
            /\ r.ok => /\ r.st.page = << >>
                       /\ Len(full.page) % 2 = 0 =>
                            r.st.flash_write_pos = full.flash_write_pos + Len(full.page)
                       /\ \A i \in 1..(full.flash_write_pos + Len(full.page)) :
                            r.flash[i] = KeptByte(fl, full, i)
        <4>1. PICK kept : kept = full.flash_write_pos + Len(full.page)
          OBVIOUS
        <4>2. /\ r.flash \in Flash /\ r.st \in Statics
              /\ Len(r.st.page) <= PageSize
              /\ r.st.received_size = full.received_size
              /\ r.st.expected_size = full.expected_size
              /\ r.ok <=> ~PageStuck(fl, full)
              /\ ~r.ok => PageStuck(r.flash, r.st)
              /\ r.ok => /\ r.st.page = << >>
                         /\ kept <= r.st.flash_write_pos
                         /\ Len(full.page) % 2 = 0 => r.st.flash_write_pos = kept
                         /\ \A i \in 1..kept : r.flash[i] = KeptByte(fl, full, i)
          <5>1. IsFlushed(r, fl, full)
            BY <2>2, <3>1, FlushFacts
          <5> QED
            BY <4>1, <5>1 DEF IsFlushed
        <4> QED
          BY <4>1, <4>2, Zenon
      <3>3. full.flash_write_pos = off /\ Len(full.page) = PageSize
        BY <1>12, <2>3
      <3> QED
        BY <1>12, <2>3, <3>2, <3>3, Zenon
    <2>5. CASE ~r.ok
      <3>1. on_data(fl, s, data) = r
        BY <1>1, <1>2, <1>3, <1>4, <1>5, <1>6, <1>7, <1>14, <2>2, <2>5 DEF on_data
      <3> QED
        BY <2>4, <2>5, <3>1 DEF IsAdded
    <2>6. CASE r.ok
      <3>1. PICK e : e = SubSeq(data, take + 1, N)
        OBVIOUS
      <3>2. PICK s1 : s1 = Filled(r.st, e)
        OBVIOUS
      <3>3. PICK q : q = [r EXCEPT !.st = s1]
        OBVIOUS
      <3>4. on_data(fl, s, data) = q
        BY <1>1, <1>2, <1>3, <1>4, <1>5, <1>6, <1>7, <1>14, <2>2, <2>6, <3>1, <3>2, <3>3
           DEF on_data
      <3>5. q.flash = r.flash /\ q.st = s1 /\ q.ok = r.ok
        BY <2>2, <3>3 DEF flash_flush_page
      <3>6. e \in Seq(0..FF) /\ Len(e) = N - take /\ \A j \in 1..(N - take) : e[j] = data[take + j]
        <4>1. \A j \in (take + 1)..N : data[j] \in 0..FF
          BY <1>8, <1>9, <1>b
        <4>2. /\ e \in Seq(0..FF)
              /\ Len(e) = IF take + 1 <= N THEN N - (take + 1) + 1 ELSE 0
              /\ \A j \in 1..(N - (take + 1) + 1) : e[j] = data[take + 1 + j - 1]
          BY <1>8, <1>9, <3>1, <4>1, SubSeqProperties
        <4>3. take + 1 <= N => N - (take + 1) + 1 = N - take
          BY <1>8, <1>9
        <4>4. ~(take + 1 <= N) => 0 = N - take
          BY <1>8, <1>9
        <4>5. N - (take + 1) + 1 = N - take /\ \A j \in Nat : take + 1 + j - 1 = take + j
          BY <1>8, <1>9
        <4>6. \A j \in 1..(N - take) : j \in Nat
          BY <1>8, <1>9
        <4> QED
          BY <4>2, <4>3, <4>4, <4>5, <4>6
      <3>7. PICK n : n = m + take
        OBVIOUS
      <3>8. /\ n = off + PageSize /\ n \in Nat
            /\ r.st.flash_write_pos = n /\ Len(r.st.page) = 0
        <4>1. n = off + PageSize /\ n \in Nat
          BY <1>8, <1>9, <2>1, <3>7
        <4>2. r.st.flash_write_pos = off + PageSize /\ r.st.page = << >>
          BY <2>4, <2>6
        <4>3. Len(<< >>) = 0
          OBVIOUS
        <4> QED
          BY <4>1, <4>2, <4>3
      <3>9. /\ s1 \in Statics /\ Len(s1.page) = N - take
            /\ s1.flash_write_pos = n
            /\ s1.received_size = s.received_size + N
            /\ s1.expected_size = s.expected_size
            /\ \A i \in 1..n : KeptByte(r.flash, s1, i) = KeptByte(r.flash, r.st, i)
            /\ \A j \in 1..(N - take) : KeptByte(r.flash, s1, n + j) = data[take + j]
        <4>1. n = r.st.flash_write_pos + Len(r.st.page)
          BY <3>8
        <4>2. 0 + (N - take) = N - take
          BY <1>8, <1>9
        <4>3. r.flash \in Flash /\ r.st \in Statics /\ n \in Nat /\ e \in Seq(0..FF)
          BY <2>4, <3>6, <3>8
        <4>4. /\ Filled(r.st, e) \in Statics
              /\ Len(Filled(r.st, e).page) = Len(r.st.page) + Len(e)
              /\ Filled(r.st, e).flash_write_pos = r.st.flash_write_pos
              /\ Filled(r.st, e).received_size = r.st.received_size
              /\ Filled(r.st, e).expected_size = r.st.expected_size
              /\ \A i \in 1..n : KeptByte(r.flash, Filled(r.st, e), i)
                                  = KeptByte(r.flash, r.st, i)
              /\ \A j \in 1..Len(e) : KeptByte(r.flash, Filled(r.st, e), n + j) = e[j]
          BY <4>1, <4>3, FilledFacts
        <4>5. Len(s1.page) = N - take
          BY <3>2, <3>6, <3>8, <4>2, <4>4
        <4>6. \A j \in 1..(N - take) : KeptByte(r.flash, s1, n + j) = data[take + j]
          BY <3>2, <3>6, <4>4
        <4> QED
          BY <2>4, <3>2, <3>8, <4>4, <4>5, <4>6
      <3>10. \A i \in 1..n : KeptByte(r.flash, s1, i) = KeptByte(fl, full, i)
        BY <2>4, <2>6, <3>8, <3>9 DEF KeptByte
      <3>11. \A i \in 1..m : KeptByte(r.flash, s1, i) = KeptByte(fl, s, i)
        <4>1. \A i \in 1..m : i \in 1..n
          BY <1>8, <1>9, <3>7, <3>8
        <4> QED
          BY <1>12, <3>10, <4>1
      <3>12. ASSUME NEW j \in 1..N PROVE KeptByte(r.flash, s1, m + j) = data[j]
        <4>1. CASE j <= take
          <5>1. j \in 1..take /\ m + j \in 1..n
            <6>1. m \in Nat /\ N \in Nat /\ take \in Nat /\ n = m + take /\ j \in 1..N
              BY <1>8, <1>9, <3>7
            <6> QED
              BY <4>1, <6>1
          <5> QED
            BY <1>12, <3>10, <5>1
        <4>2. CASE ~(j <= take)
          <5>1. j - take \in 1..(N - take) /\ n + (j - take) = m + j /\ take + (j - take) = j
            BY <1>8, <1>9, <3>7, <4>2
          <5>2. KeptByte(r.flash, s1, n + (j - take)) = data[take + (j - take)]
            BY <3>9, <5>1
          <5> QED
            BY <5>1, <5>2
        <4> QED
          BY <4>1, <4>2
      <3>13. /\ Len(s1.page) < PageSize /\ Len(s1.page) <= PageSize
             /\ s1.flash_write_pos + Len(s1.page) = m + N
        <4>1. N - take < PageSize /\ N - take <= PageSize
          BY <1>8, <1>9, <2>1
        <4>2. n + (N - take) = m + N
          <5>1. m \in Nat /\ N \in Nat /\ take \in Nat /\ n = m + take
            BY <1>8, <1>9, <3>7
          <5> QED
            BY <5>1
        <4>3. Len(s1.page) = N - take /\ s1.flash_write_pos = n
          BY <3>9
        <4> QED
          BY <4>1, <4>2, <4>3
      <3>14. \A j \in 1..N : KeptByte(r.flash, s1, m + j) = data[j]
        BY <3>12
      <3> QED
        BY <1>m, <1>2, <2>4, <2>6, <3>4, <3>5, <3>9, <3>11, <3>13, <3>14 DEF IsAdded
    <2> QED
      BY <2>5, <2>6
  <1> QED
    BY <1>13, <1>14

(* A prefix of a sequence, byte by byte.                                    *)
LEMMA PrefixFacts ==
    ASSUME NEW T, NEW s \in Seq(T), NEW n \in 0..Len(s)
    PROVE  /\ SubSeq(s, 1, n) \in Seq(T) /\ Len(SubSeq(s, 1, n)) = n
           /\ \A i \in 1..n : SubSeq(s, 1, n)[i] = s[i]
  <1>1. Len(s) \in Nat /\ n \in Nat /\ \A i \in 1..Len(s) : s[i] \in T
    BY LenProperties, ElementOfSeq
  <1>2. \A i \in 1..n : s[i] \in T
    BY <1>1
  <1>3. /\ SubSeq(s, 1, n) \in Seq(T)
        /\ Len(SubSeq(s, 1, n)) = IF 1 <= n THEN n - 1 + 1 ELSE 0
        /\ \A i \in 1..(n - 1 + 1) : SubSeq(s, 1, n)[i] = s[1 + i - 1]
    BY <1>1, <1>2, SubSeqProperties
  <1>4. /\ (IF 1 <= n THEN n - 1 + 1 ELSE 0) = n /\ n - 1 + 1 = n
        /\ \A i \in 1..n : 1 + i - 1 = i
    BY <1>1
  <1> QED
    BY <1>3, <1>4

-----------------------------------------------------------------------------
(* What is kept and what was read.                                          *)

(* The bytes read are those kept and those in the scratch buffer.           *)
Streamed(fl, s, scr, tk) ==
    LET m == s.flash_write_pos + Len(s.page)
    IN  /\ Len(tk) = m + Len(scr)
        /\ \A i \in 1..m : KeptByte(fl, s, i) = tk[i]
        /\ \A j \in 1..Len(scr) : tk[m + j] = scr[j]

LEMMA StreamedIsConcat ==
    ASSUME NEW fl \in Flash, NEW s \in Statics,
           NEW scr \in Seq(0..FF), NEW tk \in Seq(0..FF)
    PROVE  SubSeq(fl, 1, s.flash_write_pos) \o s.page \o scr = tk
           <=> Streamed(fl, s, scr, tk)
  <1>0. PICK off : off = s.flash_write_pos
    OBVIOUS
  <1>1. PICK L : L = Len(s.page)
    OBVIOUS
  <1>2. PICK m : m = off + L
    OBVIOUS
  <1>3. PICK N : N = Len(scr)
    OBVIOUS
  <1>4. PICK x : x = SubSeq(fl, 1, off)
    OBVIOUS
  <1>5. PICK y : y = x \o s.page
    OBVIOUS
  <1>6. PICK z : z = y \o scr
    OBVIOUS
  <1>7. off \in 0..FlashSize /\ off \in Nat /\ L \in Nat /\ N \in Nat /\ m \in Nat
        /\ s.page \in Seq(0..FF) /\ Len(tk) \in Nat
    BY <1>0, <1>1, <1>2, <1>3, LenProperties, Sizing DEF Statics
  <1>8. x \in Seq(0..FF) /\ Len(x) = off /\ \A i \in 1..off : x[i] = fl[i]
    <2>1. fl \in Seq(0..FF) /\ off \in 0..Len(fl)
      BY <1>7, FlashIsSeq
    <2> QED
      BY <1>4, <2>1, PrefixFacts
  <1>9. y \in Seq(0..FF) /\ Len(y) = m /\ \A i \in 1..m : y[i] = KeptByte(fl, s, i)
    <2>1. /\ y \in Seq(0..FF) /\ Len(y) = off + L
          /\ \A i \in 1..(off + L) : y[i] = IF i <= off THEN x[i] ELSE s.page[i - off]
      BY <1>1, <1>5, <1>7, <1>8, ConcatProperties
    <2>2. ASSUME NEW i \in 1..m PROVE y[i] = KeptByte(fl, s, i)
      <3>1. i \in Nat /\ 1 <= i /\ (i <= off => i \in 1..off)
        BY <1>7
      <3> QED
        BY <1>0, <1>2, <1>8, <2>1, <3>1 DEF KeptByte
    <2> QED
      BY <1>2, <2>1, <2>2
  <1>10. /\ z \in Seq(0..FF) /\ Len(z) = m + N
         /\ \A i \in 1..m : z[i] = KeptByte(fl, s, i)
         /\ \A j \in 1..N : z[m + j] = scr[j]
    <2>1. /\ z \in Seq(0..FF) /\ Len(z) = m + N
          /\ \A i \in 1..(m + N) : z[i] = IF i <= m THEN y[i] ELSE scr[i - m]
      BY <1>3, <1>6, <1>9, ConcatProperties
    <2>2. \A i \in 1..m : i \in 1..(m + N) /\ i <= m
      BY <1>7
    <2>3. \A j \in 1..N : m + j \in 1..(m + N) /\ ~(m + j <= m) /\ m + j - m = j
      BY <1>7
    <2> QED
      BY <1>9, <2>1, <2>2, <2>3
  <1>11. Streamed(fl, s, scr, tk)
         <=> /\ Len(tk) = m + N
             /\ \A i \in 1..m : KeptByte(fl, s, i) = tk[i]
             /\ \A j \in 1..N : tk[m + j] = scr[j]
    BY <1>0, <1>1, <1>2, <1>3 DEF Streamed
  <1>12. ASSUME z = tk PROVE Streamed(fl, s, scr, tk)
    <2>1. Len(tk) = m + N
      BY <1>10, <1>12
    <2>2. \A i \in 1..m : KeptByte(fl, s, i) = tk[i]
      BY <1>10, <1>12
    <2>3. \A j \in 1..N : tk[m + j] = scr[j]
      BY <1>10, <1>12
    <2> QED
      BY <1>11, <2>1, <2>2, <2>3, Zenon
  <1>13. ASSUME Streamed(fl, s, scr, tk) PROVE z = tk
    <2>a. Len(tk) = m + N
      BY <1>11, <1>13, Zenon
    <2>b. \A i \in 1..m : KeptByte(fl, s, i) = tk[i]
      BY <1>11, <1>13, Zenon
    <2>c. \A j \in 1..N : tk[m + j] = scr[j]
      BY <1>11, <1>13, Zenon
    <2>1. ASSUME NEW i \in 1..Len(z) PROVE z[i] = tk[i]
      <3>1. CASE i \in 1..m
        BY <1>10, <2>b, <3>1
      <3>2. CASE ~(i \in 1..m)
        <4>1. i - m \in 1..N /\ m + (i - m) = i
          BY <1>7, <1>10, <3>2
        <4>2. z[m + (i - m)] = scr[i - m] /\ tk[m + (i - m)] = scr[i - m]
          BY <1>10, <2>c, <4>1
        <4> QED
          BY <4>1, <4>2
      <3> QED
        BY <3>1, <3>2
    <2>2. Len(z) = Len(tk)
      BY <1>10, <2>a
    <2> QED
      BY <1>10, <2>1, <2>2, SeqEqual
  <1> QED
    BY <1>0, <1>4, <1>5, <1>6, <1>12, <1>13

(* A byte that is read joins the scratch buffer.                            *)
LEMMA StreamedByte ==
    ASSUME NEW fl \in Flash, NEW s \in Statics, NEW scr \in Seq(0..FF),
           NEW tk \in Seq(0..FF), NEW b \in 0..FF, Streamed(fl, s, scr, tk)
    PROVE  Streamed(fl, s, Append(scr, b), Append(tk, b))
  <1>1. PICK m : m = s.flash_write_pos + Len(s.page)
    OBVIOUS
  <1>2. PICK N : N = Len(scr)
    OBVIOUS
  <1>3. m \in Nat /\ N \in Nat
    <2>1. s.flash_write_pos \in Nat /\ s.page \in Seq(0..FF)
      BY Sizing DEF Statics
    <2> QED
      BY <1>1, <1>2, <2>1, LenProperties
  <1>4. /\ Len(tk) = m + N
        /\ \A i \in 1..m : KeptByte(fl, s, i) = tk[i]
        /\ \A j \in 1..N : tk[m + j] = scr[j]
    BY <1>1, <1>2 DEF Streamed
  <1>5. PICK q : q = Append(scr, b)
    OBVIOUS
  <1>6. PICK u : u = Append(tk, b)
    OBVIOUS
  <1>7. Len(q) = N + 1 /\ q[N + 1] = b /\ \A j \in 1..N : q[j] = scr[j]
    BY <1>2, <1>5, AppendProperties
  <1>8. Len(u) = m + N + 1 /\ u[m + N + 1] = b /\ \A i \in 1..(m + N) : u[i] = tk[i]
    BY <1>4, <1>6, AppendProperties
  <1>9. /\ m + N + 1 = m + (N + 1)
        /\ \A i \in 1..m : i \in 1..(m + N)
        /\ \A j \in 1..N : m + j \in 1..(m + N)
        /\ \A j \in 1..(N + 1) : j \in 1..N \/ j = N + 1
    BY <1>3
  <1>10. Len(u) = m + Len(q)
    BY <1>7, <1>8, <1>9
  <1>11. \A i \in 1..m : KeptByte(fl, s, i) = u[i]
    BY <1>4, <1>8, <1>9
  <1>12. \A j \in 1..(N + 1) : u[m + j] = q[j]
    BY <1>4, <1>7, <1>8, <1>9
  <1> QED
    BY <1>1, <1>5, <1>6, <1>7, <1>10, <1>11, <1>12 DEF Streamed

(* What is streamed and counted is accounted for.                           *)
LEMMA StreamedIsAccounted ==
    ASSUME NEW fl \in Flash, NEW s \in Statics, NEW scr \in Seq(0..FF),
           NEW tk \in Seq(0..FF), Streamed(fl, s, scr, tk),
           s.received_size = s.flash_write_pos + Len(s.page)
    PROVE  Accounted(fl, s, tk)
  <1>1. PICK m : m = s.flash_write_pos + Len(s.page)
    OBVIOUS
  <1>2. m \in Nat /\ Len(scr) \in Nat /\ s.received_size = m
    <2>1. s.flash_write_pos \in Nat /\ s.page \in Seq(0..FF)
      BY Sizing DEF Statics
    <2> QED
      BY <1>1, <2>1, LenProperties
  <1>3. Len(tk) = m + Len(scr) /\ \A i \in 1..m : KeptByte(fl, s, i) = tk[i]
    BY <1>1 DEF Streamed
  <1>4. m <= Len(tk)
    BY <1>2, <1>3
  <1> QED
    BY <1>1, <1>2, <1>3, <1>4 DEF Accounted

(* A chunk that was added is out of the scratch buffer.                     *)
LEMMA AddedIsStreamed ==
    ASSUME NEW fl \in Flash, NEW s \in Statics, NEW data \in Seq(0..FF),
           NEW tk \in Seq(0..FF), Streamed(fl, s, data, tk),
           NEW r, IsAdded(r, fl, s, data), r.ok
    PROVE  Streamed(r.flash, r.st, << >>, tk)
  <1>1. PICK m : m = s.flash_write_pos + Len(s.page)
    OBVIOUS
  <1>2. PICK N : N = Len(data)
    OBVIOUS
  <1>3. PICK m1 : m1 = r.st.flash_write_pos + Len(r.st.page)
    OBVIOUS
  <1>4. m \in Nat /\ N \in Nat
    <2>1. s.flash_write_pos \in Nat /\ s.page \in Seq(0..FF)
      BY Sizing DEF Statics
    <2> QED
      BY <1>1, <1>2, <2>1, LenProperties
  <1>5. /\ Len(tk) = m + N
        /\ \A i \in 1..m : KeptByte(fl, s, i) = tk[i]
        /\ \A j \in 1..N : tk[m + j] = data[j]
    BY <1>1, <1>2 DEF Streamed
  <1>6. /\ m1 = m + N
        /\ \A i \in 1..m : KeptByte(r.flash, r.st, i) = KeptByte(fl, s, i)
        /\ \A j \in 1..N : KeptByte(r.flash, r.st, m + j) = data[j]
    BY <1>1, <1>2, <1>3 DEF IsAdded
  <1>7. ASSUME NEW i \in 1..m1 PROVE KeptByte(r.flash, r.st, i) = tk[i]
    <2>1. CASE i \in 1..m
      BY <1>5, <1>6, <2>1
    <2>2. CASE ~(i \in 1..m)
      <3>1. i - m \in 1..N /\ m + (i - m) = i
        <4>1. i \in 1..(m + N)
          BY <1>6
        <4> QED
          BY <1>4, <2>2, <4>1
      <3>2. KeptByte(r.flash, r.st, m + (i - m)) = data[i - m] /\ tk[m + (i - m)] = data[i - m]
        BY <1>5, <1>6, <3>1
      <3> QED
        BY <3>1, <3>2
    <2> QED
      BY <2>1, <2>2
  <1>8. Len(<< >>) = 0 /\ m1 + 0 = m1 /\ 1..0 = {}
    BY <1>4, <1>6
  <1> QED
    BY <1>3, <1>5, <1>6, <1>7, <1>8 DEF Streamed

-----------------------------------------------------------------------------
(* The device: what every step of rz leaves behind.                         *)

Context == [filename : BOOLEAN, bytes_received : Nat]

DeviceTypes ==
    /\ pc \in {"idle", "pick", "sinit", "info", "hdr", "data", "booted"}
    /\ ctx \in Context /\ Len(scratch) < write_buf_size
    /\ st \in Statics /\ Len(st.page) <= PageSize /\ flash \in Flash
    /\ super_mode \in 0..2 /\ file_size \in Nat

DeviceInv ==
    /\ DeviceTypes /\ BuffersInv
    /\ NothingLostOnTheWay /\ StaticsInv /\ BootsWhatWasAnnounced

SenderInv ==
    /\ line \in Seq(Tokens) /\ replies \in Seq(Headers)
    /\ snd \in {"start", "sinit", "offered", "data", "ack", "eof", "fin"}
    /\ size \in Sizes /\ pos \in 0..size
    /\ inframe \in BOOLEAN /\ some \in BOOLEAN
    /\ calls \in 0..MaxCalls /\ faults \in 0..MaxFaults

LEMMA IInvParts == IInv <=> SenderInv /\ DeviceInv
  BY DEF IInv, TypeOK, SenderInv, DeviceInv, DeviceTypes, Statics, Flash, Context

(* The end of a transfer: a page that is written holds what was counted, so *)
(* that rz boots the file that was announced or nothing                     *)
(* (zmodem_tabby_rx_rz.c:136-160).                                          *)
LEMMA OnEndStep ==
    ASSUME NEW fl \in Flash, NEW s \in Statics, Len(s.page) <= PageSize,
           taken' \in Seq(0..FF), Accounted(fl, s, taken'),
           super_mode \in 0..2, file_size \in Nat, ctx' \in Context,
           on_end(fl, s)
    PROVE  DeviceInv'
  <1>1. PICK r : r = flash_flush_page(fl, s)
    OBVIOUS
  <1>2. PICK pass \in BOOLEAN :
          /\ flash' = r.flash /\ st' = r.st /\ scratch' = << >>
          /\ IF r.ok /\ Complete(s) /\ pass
             THEN /\ pc' = "booted" /\ super_mode' = 0
                  /\ file_size' = s.received_size
             ELSE /\ pc' = "idle" /\ super_mode' = 1 /\ file_size' = file_size
    BY <1>1 DEF on_end
  <1>3. IsFlushed(r, fl, s)
    BY <1>1, FlushFacts
  <1>4. PICK n : n = s.received_size
    OBVIOUS
  <1>5. n \in Nat
    BY <1>4 DEF Statics
  <1>6. PICK tk \in Seq(0..FF) : tk = taken'
    OBVIOUS
  <1>7. PICK q : q = r.st
    OBVIOUS
  <1>8. /\ r.flash \in Flash /\ q \in Statics /\ Len(q.page) <= PageSize
        /\ q.received_size = n /\ q.expected_size = s.expected_size
    BY <1>3, <1>4, <1>7 DEF IsFlushed
  <1>9. r.ok => /\ n <= q.flash_write_pos /\ n <= Len(tk) /\ q.page = << >>
                /\ \A i \in 1..n : r.flash[i] = tk[i]
    <2>1. SUFFICES ASSUME r.ok
                   PROVE  /\ n <= q.flash_write_pos /\ n <= Len(tk) /\ q.page = << >>
                          /\ \A i \in 1..n : r.flash[i] = tk[i]
      OBVIOUS
    <2>2. PICK kept : kept = s.flash_write_pos + Len(s.page)
      OBVIOUS
    <2>3. /\ ~PageStuck(fl, s) /\ kept <= q.flash_write_pos /\ q.page = << >>
          /\ \A i \in 1..kept : r.flash[i] = KeptByte(fl, s, i)
      BY <1>3, <1>7, <2>1, <2>2 DEF IsFlushed
    <2>4. n <= kept /\ n <= Len(tk) /\ \A i \in 1..n : KeptByte(fl, s, i) = tk[i]
      BY <1>4, <1>6, <2>2, <2>3 DEF Accounted
    <2>5. kept \in Nat /\ q.flash_write_pos \in Nat
      <3>1. s.flash_write_pos \in Nat /\ s.page \in Seq(0..FF)
        BY Sizing DEF Statics
      <3>2. q.flash_write_pos \in Nat
        BY <1>8, Sizing DEF Statics
      <3> QED
        BY <2>2, <3>1, <3>2, LenProperties
    <2>6. n <= q.flash_write_pos
      BY <1>5, <2>3, <2>4, <2>5
    <2>7. \A i \in 1..n : i \in 1..kept
      BY <1>5, <2>4, <2>5
    <2>8. \A i \in 1..n : r.flash[i] = tk[i]
      BY <2>3, <2>4, <2>7
    <2> QED
      BY <2>3, <2>4, <2>6, <2>8
  <1>10. Accounted(r.flash, q, tk)
    <2>1. CASE r.ok
      <3>1. q.flash_write_pos \in Nat /\ Len(q.page) = 0
        <4>1. q.flash_write_pos \in Nat
          BY <1>8, Sizing DEF Statics
        <4>2. Len(<< >>) = 0
          OBVIOUS
        <4> QED
          BY <1>9, <2>1, <4>1, <4>2
      <3>2. n <= q.flash_write_pos + Len(q.page)
        BY <1>5, <1>9, <2>1, <3>1
      <3>3. \A i \in 1..n : i <= q.flash_write_pos
        BY <1>5, <1>9, <2>1, <3>1
      <3>4. \A i \in 1..n : KeptByte(r.flash, q, i) = tk[i]
        BY <1>9, <2>1, <3>3 DEF KeptByte
      <3> QED
        BY <1>8, <1>9, <2>1, <3>2, <3>4 DEF Accounted
    <2>2. CASE ~r.ok
      BY <1>3, <1>7, <2>2 DEF IsFlushed, Accounted
    <2> QED
      BY <2>1, <2>2
  <1>11. /\ flash' = r.flash /\ st' = q /\ scratch' = << >> /\ taken' = tk
         /\ pc' \in {"idle", "booted"} /\ super_mode' \in 0..2 /\ file_size' \in Nat
    <2>1. CASE r.ok /\ Complete(s) /\ pass
      BY <1>2, <1>4, <1>5, <1>6, <1>7, <2>1
    <2>2. CASE ~(r.ok /\ Complete(s) /\ pass)
      BY <1>2, <1>6, <1>7, <2>2
    <2> QED
      BY <2>1, <2>2
  <1>12. DeviceTypes'
    <2>1. Len(scratch') = 0 /\ 0 < write_buf_size
      <3>1. Len(<< >>) = 0
        OBVIOUS
      <3> QED
        BY <1>11, <3>1, Sizing
    <2> QED
      BY <1>8, <1>11, <2>1 DEF DeviceTypes
  <1>13. BuffersInv'
    <2>1. << >> \in Seq(IF pc' = "info" THEN Sizes \cup {0} ELSE 0..FF)
      OBVIOUS
    <2> QED
      BY <1>11, <2>1 DEF BuffersInv
  <1>14. NothingLostOnTheWay'
    BY <1>11 DEF NothingLostOnTheWay
  <1>15. StaticsInv'
    BY <1>10, <1>11 DEF StaticsInv
  <1>16. BootsWhatWasAnnounced'
    <2>1. SUFFICES ASSUME pc' = "booted"
                   PROVE  /\ file_size' = st'.expected_size
                          /\ file_size' <= Len(taken')
                          /\ SubSeq(flash', 1, file_size') = SubSeq(taken', 1, file_size')
      BY DEF BootsWhatWasAnnounced
    <2>2. r.ok /\ Complete(s) /\ file_size' = n
      BY <1>2, <1>4, <2>1
    <2>3. n = s.expected_size
      BY <1>4, <2>2 DEF Complete
    <2>4. r.flash \in Seq(0..FF) /\ n \in 0..Len(r.flash) /\ n \in 0..Len(tk)
      <3>1. /\ r.flash \in Seq(0..FF) /\ Len(r.flash) = FlashSize
            /\ q.flash_write_pos \in 0..FlashSize /\ FlashSize \in Nat
        BY <1>8, FlashIsSeq, Sizing DEF Statics
      <3>2. n <= q.flash_write_pos /\ n <= Len(tk) /\ Len(tk) \in Nat
        BY <1>9, <2>2, LenProperties
      <3> QED
        BY <1>5, <3>1, <3>2
    <2>5. PICK x : x = SubSeq(r.flash, 1, n)
      OBVIOUS
    <2>6. PICK y : y = SubSeq(tk, 1, n)
      OBVIOUS
    <2>7. x \in Seq(0..FF) /\ Len(x) = n /\ \A i \in 1..n : x[i] = r.flash[i]
      BY <2>4, <2>5, PrefixFacts
    <2>8. y \in Seq(0..FF) /\ Len(y) = n /\ \A i \in 1..n : y[i] = tk[i]
      BY <2>4, <2>6, PrefixFacts
    <2>9. \A i \in 1..Len(x) : x[i] = y[i]
      BY <1>9, <2>2, <2>7, <2>8
    <2>10. x = y
      BY <2>7, <2>8, <2>9, SeqEqual
    <2> QED
      BY <1>8, <1>9, <1>11, <2>2, <2>3, <2>5, <2>6, <2>10
  <1> QED
    BY <1>12, <1>13, <1>14, <1>15, <1>16 DEF DeviceInv

(* The delivery of a chunk: the next byte is waited for, or the page cannot *)
(* be written (zmodem_tabby_rx_min.c data_chunk_cb).                        *)
LEMMA DeliverStep ==
    ASSUME flash \in Flash, st \in Statics, Len(st.page) < PageSize,
           ctx \in Context, super_mode \in 0..2, file_size \in Nat,
           NEW data \in Seq(0..FF), Len(data) <= write_buf_size,
           taken' \in Seq(0..FF), Streamed(flash, st, data, taken'),
           st.received_size = ctx.bytes_received,
           st.received_size = st.flash_write_pos + Len(st.page),
           NEW next \in {"data", "hdr"}, Deliver(data, next)
    PROVE  DeviceInv'
  <1>1. PICK r : r = on_data(flash, st, data)
    OBVIOUS
  <1>2. IF r.ok
        THEN /\ flash' = r.flash /\ st' = r.st /\ scratch' = << >>
             /\ ctx' = [ctx EXCEPT !.bytes_received = @ + Len(data)]
             /\ pc' = next /\ super_mode' = super_mode /\ file_size' = file_size
        ELSE on_end(r.flash, r.st) /\ ctx' = ctx
    BY <1>1 DEF Deliver
  <1>3. IsAdded(r, flash, st, data)
    BY <1>1, OnDataFacts
  <1>4. PICK tk \in Seq(0..FF) : tk = taken'
    OBVIOUS
  <1>5. PICK q : q = r.st
    OBVIOUS
  <1>6. CASE ~r.ok
    <2>1. /\ r.flash \in Flash /\ q \in Statics /\ Len(q.page) <= PageSize
          /\ Accounted(r.flash, q, tk)
      BY <1>3, <1>5, <1>6 DEF IsAdded, Accounted
    <2>2. on_end(r.flash, q) /\ ctx' \in Context
      BY <1>2, <1>5, <1>6
    <2> QED
      BY <1>4, <2>1, <2>2, OnEndStep
  <1>7. CASE r.ok
    <2>1. Len(data) \in Nat /\ Len(<< >>) = 0 /\ << >> \in Seq(0..FF)
      BY LenProperties
    <2>2. /\ r.flash \in Flash /\ q \in Statics /\ Len(q.page) <= PageSize
          /\ Len(q.page) < PageSize
          /\ q.received_size = st.received_size + Len(data)
          /\ q.flash_write_pos + Len(q.page)
               = st.flash_write_pos + Len(st.page) + Len(data)
      BY <1>3, <1>5, <1>7 DEF IsAdded
    <2>3. Streamed(r.flash, q, << >>, tk)
      BY <1>3, <1>4, <1>5, <1>7, AddedIsStreamed
    <2>4. q.received_size = q.flash_write_pos + Len(q.page)
      BY <2>2
    <2>5. Accounted(r.flash, q, tk)
      BY <2>1, <2>2, <2>3, <2>4, StreamedIsAccounted
    <2>6. SubSeq(r.flash, 1, q.flash_write_pos) \o q.page \o << >> = tk
      BY <2>1, <2>2, <2>3, StreamedIsConcat
    <2>7. ctx' \in Context /\ ctx'.bytes_received = st.received_size + Len(data)
      <3>1. PICK n : n = Len(data)
        OBVIOUS
      <3>2. PICK c \in Context : c = ctx
        OBVIOUS
      <3>3. ctx' = [c EXCEPT !.bytes_received = @ + n] /\ n \in Nat
        BY <1>2, <1>7, <2>1, <3>1, <3>2
      <3>4. c.bytes_received \in Nat
        BY DEF Context
      <3>5. ctx' \in Context /\ ctx'.bytes_received = c.bytes_received + n
        <4>1. PICK k \in Nat : k = c.bytes_received + n
          BY <3>3, <3>4
        <4>2. PICK d : d = [c EXCEPT !.bytes_received = k]
          OBVIOUS
        <4>3. d \in Context /\ d.bytes_received = k
          BY <4>1, <4>2 DEF Context
        <4>4. ctx' = d
          BY <3>3, <4>1, <4>2
        <4> QED
          BY <4>1, <4>3, <4>4
      <3> QED
        BY <3>1, <3>2, <3>5
    <2>8. /\ flash' = r.flash /\ st' = q /\ scratch' = << >> /\ taken' = tk
          /\ pc' \in {"data", "hdr"} /\ super_mode' = super_mode /\ file_size' = file_size
      BY <1>2, <1>4, <1>5, <1>7
    <2>9. DeviceTypes'
      <3>1. Len(scratch') = 0 /\ 0 < write_buf_size
        BY <2>1, <2>8, Sizing
      <3> QED
        BY <2>2, <2>7, <2>8, <3>1 DEF DeviceTypes
    <2>10. BuffersInv'
      <3>1. << >> \in Seq(IF pc' = "info" THEN Sizes \cup {0} ELSE 0..FF)
        OBVIOUS
      <3> QED
        BY <2>2, <2>8, <3>1 DEF BuffersInv
    <2>11. NothingLostOnTheWay'
      BY <2>2, <2>4, <2>6, <2>7, <2>8 DEF NothingLostOnTheWay
    <2>12. StaticsInv'
      BY <2>5, <2>8 DEF StaticsInv
    <2>13. BootsWhatWasAnnounced'
      BY <2>8 DEF BootsWhatWasAnnounced
    <2> QED
      BY <2>9, <2>10, <2>11, <2>12, <2>13 DEF DeviceInv
  <1> QED
    BY <1>6, <1>7

-----------------------------------------------------------------------------
(* The line and the sender.                                                 *)

LEMMA TokenFacts ==
    /\ \A type \in Headers : Hdr(type) \in Tokens
    /\ \A e \in Ends : End(e) \in Tokens
    /\ \A b \in 0..FF : Byte(b) \in Tokens
    /\ \A n \in Sizes \cup {0} : Info(n) \in Tokens
    /\ NoName \in Tokens /\ Noise \in Tokens
    /\ \A tok \in Tokens : tok.t = "byte" => tok.v \in 0..FF
    /\ \A tok \in Tokens : tok.t = "info" => tok.v \in Sizes \cup {0}
  BY DEF Tokens, Hdr, End, Byte, Info, NoName, Noise

LEMMA DamagedFacts ==
    ASSUME NEW tok \in Tokens
    PROVE  Damaged(tok) \subseteq Tokens
  <1>1. CASE tok.t = "header"
    BY <1>1, TokenFacts DEF Damaged
  <1>2. CASE tok.t = "info"
    <2>1. Damaged(tok) = {NoName} \cup {Info(n) : n \in Sizes \ {tok.v}}
      BY <1>2 DEF Damaged
    <2> QED
      BY <2>1, TokenFacts
  <1>3. CASE tok.t # "header" /\ tok.t # "info"
    <2>1. Damaged(tok) = {Byte(Junk)}
      BY <1>3 DEF Damaged
    <2> QED
      BY <2>1, TokenFacts, Sizing
  <1> QED
    BY <1>1, <1>2, <1>3

LEMMA SendFacts ==
    ASSUME line \in Seq(Tokens), faults \in 0..MaxFaults,
           NEW toks \in Seq(Tokens), Send(toks)
    PROVE  line' \in Seq(Tokens) /\ faults' \in 0..MaxFaults
  <1>1. CASE line' = line \o toks /\ UNCHANGED faults
    BY <1>1
  <1>2. ASSUME faults < MaxFaults, faults' = faults + 1,
               NEW arrived \in Faulty(toks), line' = line \o arrived
        PROVE  line' \in Seq(Tokens) /\ faults' \in 0..MaxFaults
    <2>1. faults' \in 0..MaxFaults
      BY <1>2, Sizing
    <2>2. arrived \in Seq(Tokens)
      <3>1. DOMAIN toks = 1..Len(toks)
        BY LenProperties
      <3>2. ASSUME NEW i \in 1..Len(toks) PROVE RemoveAt(toks, i) \in Seq(Tokens)
        BY RemoveFacts
      <3>3. ASSUME NEW i \in 1..Len(toks), NEW d \in Damaged(toks[i])
            PROVE  ReplaceAt(toks, i, d) \in Seq(Tokens)
        <4>1. toks[i] \in Tokens
          BY ElementOfSeq
        <4>2. d \in Tokens
          BY <4>1, DamagedFacts
        <4> QED
          BY <4>2 DEF ReplaceAt
      <3> QED
        BY <1>2, <3>1, <3>2, <3>3 DEF Faulty
    <2> QED
      BY <1>2, <2>1, <2>2
  <1> QED
    BY <1>1, <1>2 DEF Send

(* A step that leaves the device alone keeps what is known about it.        *)
LEMMA DeviceStays ==
    ASSUME DeviceInv, UNCHANGED device
    PROVE  DeviceInv'
  BY DEF DeviceInv, device, DeviceTypes, BuffersInv, NothingLostOnTheWay,
         StaticsInv, BootsWhatWasAnnounced

LEMMA SenderStays ==
    ASSUME SenderInv, UNCHANGED sender,
           line' \in Seq(Tokens), replies' \in Seq(Headers),
           calls' \in 0..MaxCalls, faults' \in 0..MaxFaults
    PROVE  SenderInv'
  BY DEF SenderInv, sender

LEMMA Hearing ==
    ASSUME replies \in Seq(Headers), NEW type, Hears(type)
    PROVE  replies' \in Seq(Headers)
  BY HeadTailProperties DEF Hears

LEMMA Answering ==
    ASSUME replies \in Seq(Headers), NEW type \in Headers, Reply(type)
    PROVE  replies' \in Seq(Headers)
  BY AppendProperties DEF Reply

LEMMA Reading ==
    ASSUME line \in Seq(Tokens), line # << >>, line' = Tail(line)
    PROVE  line' \in Seq(Tokens) /\ Head(line) \in Tokens
  BY HeadTailProperties

(* The sender's steps: what it puts on the line is a token.                 *)
LEMMA SenderStep ==
    ASSUME SenderInv, Sender \/ Cancel
    PROVE  SenderInv' /\ UNCHANGED device
  <1> USE DEF SenderInv
  <1>1. CASE SendInit
    <2>1. <<Hdr("ZSINIT"), End("ZCRCW")>> \in Seq(Tokens)
      BY TokenFacts DEF Headers, Ends
    <2> QED
      BY <1>1, <2>1, SendFacts, Hearing DEF SendInit
  <1>2. CASE Offer
    <2>1. <<Hdr("ZFILE"), Info(size), End("ZCRCW")>> \in Seq(Tokens)
      BY TokenFacts DEF Headers, Ends
    <2> QED
      BY <1>2, <2>1, SendFacts, Hearing DEF Offer
  <1>3. CASE Accepted
    BY <1>3, Hearing DEF Accepted
  <1>4. CASE SendFrame
    <2>1. <<Hdr("ZDATA")>> \in Seq(Tokens)
      BY TokenFacts DEF Headers
    <2> QED
      BY <1>4, <2>1, SendFacts DEF SendFrame
  <1>5. CASE SendByte
    <2>1. pos + 1 \in 1..size /\ pos + 1 \in 0..size
      BY <1>5, Sizing DEF SendByte
    <2>2. File(size)[pos + 1] \in 0..FF
      BY <2>1, ZmodemAssumption
    <2>3. <<Byte(File(size)[pos + 1])>> \in Seq(Tokens)
      BY <2>2, TokenFacts
    <2> QED
      BY <1>5, <2>1, <2>3, SendFacts DEF SendByte
  <1>6. ASSUME NEW e \in Ends, SendEnd(e)
        PROVE  SenderInv' /\ UNCHANGED device
    <2>1. <<End(e)>> \in Seq(Tokens)
      BY TokenFacts
    <2>2. inframe' \in BOOLEAN /\ snd' \in {"ack", "data"}
      BY <1>6 DEF SendEnd
    <2> QED
      BY <1>6, <2>1, <2>2, SendFacts DEF SendEnd
  <1>7. CASE Acknowledged
    BY <1>7, Hearing DEF Acknowledged
  <1>8. CASE SendEof
    <2>1. <<Hdr("ZEOF")>> \in Seq(Tokens)
      BY TokenFacts DEF Headers
    <2> QED
      BY <1>8, <2>1, SendFacts DEF SendEof
  <1>9. CASE SendFin
    <2>1. <<Hdr("ZFIN")>> \in Seq(Tokens)
      BY TokenFacts DEF Headers
    <2> QED
      BY <1>9, <2>1, SendFacts, Hearing DEF SendFin
  <1>10. CASE Finished
    <2>1. 0 \in 0..size'
      BY <1>10, Sizing DEF Finished, NewSession
    <2> QED
      BY <1>10, <2>1, Hearing DEF Finished, NewSession
  <1>11. CASE Ignored
    BY <1>11, Hearing DEF Ignored, sender
  <1>12. CASE Cancel
    <2>1. 0 \in 0..size'
      BY <1>12, Sizing DEF Cancel, NewSession
    <2>2. faults' \in 0..MaxFaults
      <3>1. faults \in Nat /\ MaxFaults \in Nat
        BY Sizing
      <3>2. faults' <= MaxFaults /\ (faults' = faults \/ faults' = faults + 1)
        BY <1>12 DEF Cancel
      <3> QED
        BY <3>1, <3>2
    <2>3. replies' \in Seq(Headers) /\ UNCHANGED <<line, device, calls>>
      BY <1>12 DEF Cancel
    <2>4. /\ snd' = "start" /\ size' \in Sizes /\ pos' = 0
          /\ inframe' = FALSE /\ some' = FALSE
      BY <1>12 DEF Cancel, NewSession
    <2> QED
      BY <2>1, <2>2, <2>3, <2>4
  <1> QED
    BY <1>1, <1>2, <1>3, <1>4, <1>5, <1>6, <1>7, <1>8, <1>9, <1>10, <1>11, <1>12
       DEF Sender

-----------------------------------------------------------------------------
(* The steps of the receiver.                                               *)

(* In front of the data only pc, the context and the scratch buffer move.   *)
LEMMA DeviceWaits ==
    ASSUME DeviceInv, UNCHANGED <<st, flash, taken>>,
           pc' \in {"pick", "sinit", "info"},
           Len(scratch') < write_buf_size,
           scratch' \in Seq(IF pc' = "info" THEN Sizes \cup {0} ELSE 0..FF),
           ctx' \in Context, ctx'.bytes_received = 0,
           super_mode' \in 0..2, file_size' \in Nat
    PROVE  DeviceInv'
  <1>1. DeviceTypes'
    BY DEF DeviceInv, DeviceTypes
  <1>2. BuffersInv'
    BY DEF DeviceInv, BuffersInv
  <1>3. NothingLostOnTheWay' /\ BootsWhatWasAnnounced'
    BY DEF NothingLostOnTheWay, BootsWhatWasAnnounced
  <1>4. StaticsInv'
    BY DEF DeviceInv, StaticsInv
  <1> QED
    BY <1>1, <1>2, <1>3, <1>4 DEF DeviceInv

LEMMA EmptyScratch ==
    /\ Len(<< >>) < write_buf_size
    /\ \A T : << >> \in Seq(T)
  <1>1. Len(<< >>) = 0
    OBVIOUS
  <1> QED
    BY <1>1, Sizing

LEMMA SkipStep ==
    ASSUME SenderInv, DeviceInv, Skip \/ Skipped
    PROVE  SenderInv' /\ DeviceInv'
  <1>1. /\ line # << >> /\ line' = Tail(line)
        /\ UNCHANGED <<replies, sender, device, calls, faults>>
    BY DEF Skip, Skipped
  <1>2. line' \in Seq(Tokens)
    BY <1>1, Reading DEF SenderInv
  <1>3. SenderInv'
    BY <1>1, <1>2, SenderStays DEF SenderInv
  <1> QED
    BY <1>1, <1>3, DeviceStays

LEMMA RzStep ==
    ASSUME SenderInv, DeviceInv, rz
    PROVE  SenderInv' /\ DeviceInv'
  <1>1. calls' \in 0..MaxCalls
    BY Sizing DEF rz, SenderInv
  <1>2. replies' \in Seq(Headers)
    BY Answering DEF rz, SenderInv, Headers
  <1>3. SenderInv'
    BY <1>1, <1>2, SenderStays DEF rz, SenderInv
  <1>4. ctx' \in Context /\ ctx'.bytes_received = 0
    BY DEF rz, Context
  <1>5. DeviceInv'
    BY <1>4, EmptyScratch, DeviceWaits DEF rz, DeviceInv, DeviceTypes
  <1> QED
    BY <1>3, <1>5

LEMMA InitStep ==
    ASSUME SenderInv, DeviceInv, ReadInit \/ DiscardInit
    PROVE  SenderInv' /\ DeviceInv'
  <1>1. /\ line # << >> /\ line' = Tail(line)
        /\ pc \in {"pick", "sinit"} /\ pc' \in {"pick", "sinit"}
        /\ UNCHANGED <<sender, ctx, scratch, st, flash, super_mode, file_size,
                       taken, calls, faults>>
        /\ Reply("ZACK") \/ UNCHANGED replies
    BY DEF ReadInit, DiscardInit, Takes
  <1>2. line' \in Seq(Tokens) /\ replies' \in Seq(Headers)
    BY <1>1, Reading, Answering DEF SenderInv, Headers
  <1>3. SenderInv'
    BY <1>1, <1>2, SenderStays DEF SenderInv
  <1>4. /\ ctx \in Context /\ ctx.bytes_received = 0
        /\ Len(scratch) < write_buf_size /\ scratch \in Seq(0..FF)
        /\ super_mode \in 0..2 /\ file_size \in Nat
    BY <1>1 DEF DeviceInv, DeviceTypes, BuffersInv
  <1>5. DeviceInv'
    BY <1>1, <1>4, DeviceWaits
  <1> QED
    BY <1>3, <1>5

LEMMA FileStep ==
    ASSUME SenderInv, DeviceInv, ReadFile
    PROVE  SenderInv' /\ DeviceInv'
  <1>1. line' \in Seq(Tokens)
    BY Reading DEF ReadFile, Takes, SenderInv
  <1>2. SenderInv'
    BY <1>1, SenderStays DEF ReadFile, SenderInv
  <1>3. /\ ctx \in Context /\ ctx.bytes_received = 0
        /\ super_mode \in 0..2 /\ file_size \in Nat
    BY DEF ReadFile, DeviceInv, DeviceTypes, BuffersInv
  <1>4. DeviceInv'
    BY <1>3, EmptyScratch, DeviceWaits DEF ReadFile
  <1> QED
    BY <1>2, <1>4

LEMMA InfoStep ==
    ASSUME SenderInv, DeviceInv, ReadInfo
    PROVE  SenderInv' /\ DeviceInv'
  <1>1. line' \in Seq(Tokens) /\ Head(line) \in Tokens
    BY Reading DEF ReadInfo, SenderInv
  <1>2. SenderInv'
    BY <1>1, SenderStays DEF ReadInfo, SenderInv
  <1>3. /\ ctx \in Context /\ ctx.bytes_received = 0
        /\ Len(scratch) < write_buf_size /\ scratch \in Seq(Sizes \cup {0})
        /\ super_mode \in 0..2 /\ file_size \in Nat
    BY DEF ReadInfo, DeviceInv, DeviceTypes, BuffersInv
  <1>4. /\ Len(scratch') < write_buf_size
        /\ scratch' \in Seq(Sizes \cup {0})
    <2>1. CASE Head(line).t = "info"
      <3>1. scratch' = <<Head(line).v>> /\ Head(line).v \in Sizes \cup {0}
        BY <1>1, <2>1, TokenFacts DEF ReadInfo
      <3>2. Len(scratch') = 1
        BY <3>1
      <3> QED
        BY <3>1, <3>2, Sizing
    <2>2. CASE Head(line).t # "info"
      BY <1>3, <2>2 DEF ReadInfo
    <2> QED
      BY <2>1, <2>2
  <1>5. /\ pc' = "info" /\ UNCHANGED <<st, flash, taken, ctx, super_mode, file_size>>
    BY DEF ReadInfo
  <1>6. DeviceInv'
    BY <1>3, <1>4, <1>5, DeviceWaits
  <1> QED
    BY <1>2, <1>6

LEMMA EraseFacts ==
    ASSUME NEW fl \in Flash, NEW k
    PROVE  onchip_flash_erase(fl, k) \in Flash
  BY Sizing, FlashIsSeq DEF onchip_flash_erase, Flash

(* A file that has just begun: nothing is counted and nothing is kept.      *)
LEMMA BegunFacts ==
    ASSUME NEW fl \in Flash, NEW n \in Nat
    PROVE  /\ Begun(n) \in Statics /\ Begun(n).received_size = 0
           /\ Len(Begun(n).page) = 0 /\ Begun(n).flash_write_pos = 0
           /\ Streamed(fl, Begun(n), << >>, << >>)
           /\ Accounted(fl, Begun(n), << >>)
  <1>1. Len(<< >>) = 0 /\ << >> \in Seq(0..FF) /\ 1..0 = {} /\ 0 \in 0..FlashSize
    BY Sizing
  <1>2. /\ Begun(n) \in Statics /\ Begun(n).received_size = 0
        /\ Begun(n).page = << >> /\ Begun(n).flash_write_pos = 0
    BY <1>1 DEF Begun, Statics
  <1>3. Len(Begun(n).page) = 0
    BY <1>1, <1>2
  <1> QED
    BY <1>1, <1>2, <1>3 DEF Streamed, Accounted

LEMMA EndInfoStep ==
    ASSUME SenderInv, DeviceInv, EndInfo
    PROVE  SenderInv' /\ DeviceInv'
  <1>1. /\ pc = "info" /\ line # << >> /\ line' = Tail(line)
        /\ UNCHANGED <<sender, calls>>
    BY DEF EndInfo
  <1>2. line' \in Seq(Tokens)
    BY <1>1, Reading DEF SenderInv
  <1>3. /\ ctx \in Context /\ ctx.bytes_received = 0
        /\ flash \in Flash /\ st \in Statics /\ Len(st.page) <= PageSize
        /\ super_mode \in 0..2 /\ file_size \in Nat
        /\ scratch \in Seq(Sizes \cup {0}) /\ taken \in Seq(0..FF)
        /\ Accounted(flash, st, taken)
    BY <1>1 DEF DeviceInv, DeviceTypes, BuffersInv, StaticsInv
  <1>4. CASE scratch = << >>
    <2>1. on_end(flash, st) /\ UNCHANGED <<replies, ctx, taken, faults>>
      BY <1>4 DEF EndInfo
    <2>2. SenderInv'
      BY <1>1, <1>2, <2>1, SenderStays DEF SenderInv
    <2>3. taken' \in Seq(0..FF) /\ Accounted(flash, st, taken') /\ ctx' \in Context
      BY <1>3, <2>1
    <2>4. DeviceInv'
      BY <1>3, <2>1, <2>3, OnEndStep
    <2> QED
      BY <2>2, <2>4
  <1>5. CASE scratch # << >>
    <2>1. PICK n : n = scratch[1]
      OBVIOUS
    <2>2. PICK k \in 0..Sectors(n) :
            LET fl == onchip_flash_erase(flash, k)
            IN  /\ faults' = IF k < Sectors(n) THEN faults + 1 ELSE faults
                /\ faults' <= MaxFaults
                /\ taken' = << >> /\ Reply("ZRPOS")
                /\ IF n = 0
                   THEN on_end(fl, Begun(n)) /\ UNCHANGED ctx
                   ELSE /\ flash' = fl /\ st' = Begun(n)
                        /\ ctx' = [ctx EXCEPT !.filename = TRUE]
                        /\ pc' = "hdr" /\ scratch' = << >>
                        /\ UNCHANGED <<super_mode, file_size>>
      BY <1>5, <2>1 DEF EndInfo
    <2>3. n \in Nat
      <3>1. 1 \in 1..Len(scratch)
        BY <1>3, <1>5, EmptySeq, LenProperties
      <3>2. n \in Sizes \cup {0}
        BY <1>3, <2>1, <3>1, ElementOfSeq
      <3> QED
        BY <3>2, Sizing
    <2>4. PICK fl \in Flash : fl = onchip_flash_erase(flash, k)
      BY <1>3, EraseFacts
    <2>5. PICK s \in Statics : s = Begun(n)
      BY <1>3, <2>3, BegunFacts
    <2>6. /\ s.received_size = 0 /\ Len(s.page) = 0 /\ s.flash_write_pos = 0
          /\ Streamed(fl, s, << >>, << >>) /\ Accounted(fl, s, << >>)
      BY <2>3, <2>5, BegunFacts
    <2>7. faults' \in 0..MaxFaults
      <3>1. faults \in Nat /\ MaxFaults \in Nat
        BY Sizing DEF SenderInv
      <3>2. faults' <= MaxFaults /\ (faults' = faults \/ faults' = faults + 1)
        BY <2>2
      <3> QED
        BY <3>1, <3>2
    <2>8. SenderInv'
      <3>1. replies' \in Seq(Headers)
        BY <2>2, Answering DEF SenderInv, Headers
      <3> QED
        BY <1>1, <1>2, <2>7, <3>1, SenderStays DEF SenderInv
    <2>9. taken' = << >> /\ taken' \in Seq(0..FF) /\ Accounted(fl, s, taken')
      BY <2>2, <2>6
    <2>10. Len(s.page) <= PageSize /\ Len(s.page) < PageSize
      BY <2>6, Sizing
    <2>11. CASE n = 0
      <3>1. on_end(fl, s) /\ ctx' \in Context
        BY <1>3, <2>2, <2>4, <2>5, <2>11
      <3>2. DeviceInv'
        BY <1>3, <2>9, <2>10, <3>1, OnEndStep
      <3> QED
        BY <2>8, <3>2
    <2>12. CASE n # 0
      <3>1. /\ flash' = fl /\ st' = s /\ pc' = "hdr" /\ scratch' = << >>
            /\ ctx' = [ctx EXCEPT !.filename = TRUE]
            /\ UNCHANGED <<super_mode, file_size>>
        BY <2>2, <2>4, <2>5, <2>12
      <3>2. ctx' \in Context /\ ctx'.bytes_received = 0
        BY <1>3, <3>1 DEF Context
      <3>3. DeviceTypes'
        BY <1>3, <2>10, <3>1, <3>2, EmptyScratch DEF DeviceTypes
      <3>4. BuffersInv'
        BY <2>9, <2>10, <3>1, <3>2, EmptyScratch DEF BuffersInv
      <3>5. NothingLostOnTheWay'
        <4>1. PICK e \in Seq(0..FF) : e = << >>
          BY EmptyScratch
        <4>2. SubSeq(fl, 1, s.flash_write_pos) \o s.page \o e = e
          BY <2>6, <4>1, StreamedIsConcat
        <4> QED
          BY <2>6, <2>9, <3>1, <3>2, <4>1, <4>2 DEF NothingLostOnTheWay
      <3>6. StaticsInv'
        BY <2>9, <3>1 DEF StaticsInv
      <3>7. BootsWhatWasAnnounced'
        BY <3>1 DEF BootsWhatWasAnnounced
      <3>8. DeviceInv'
        BY <3>3, <3>4, <3>5, <3>6, <3>7 DEF DeviceInv
      <3> QED
        BY <2>8, <3>8
    <2> QED
      BY <2>11, <2>12
  <1> QED
    BY <1>4, <1>5

LEMMA DataStep ==
    ASSUME SenderInv, DeviceInv, ReadData
    PROVE  SenderInv' /\ DeviceInv'
  <1>1. line' \in Seq(Tokens)
    BY Reading DEF ReadData, Takes, SenderInv
  <1>2. SenderInv'
    BY <1>1, SenderStays DEF ReadData, SenderInv
  <1>3. /\ pc = "hdr" /\ pc' = "data" /\ scratch = << >> /\ scratch' = scratch
        /\ UNCHANGED <<ctx, st, flash, super_mode, file_size, taken>>
    BY DEF ReadData, DeviceInv, BuffersInv
  <1>4. DeviceTypes'
    BY <1>3 DEF DeviceInv, DeviceTypes
  <1>5. BuffersInv'
    BY <1>3 DEF DeviceInv, BuffersInv
  <1>6. NothingLostOnTheWay'
    BY <1>3 DEF DeviceInv, NothingLostOnTheWay
  <1>7. StaticsInv' /\ BootsWhatWasAnnounced'
    BY <1>3 DEF DeviceInv, StaticsInv, BootsWhatWasAnnounced
  <1> QED
    BY <1>2, <1>4, <1>5, <1>6, <1>7 DEF DeviceInv

(* What holds while a frame is read.                                        *)
LEMMA InData ==
    ASSUME DeviceInv, pc = "data"
    PROVE  /\ ctx \in Context /\ flash \in Flash /\ st \in Statics
           /\ Len(st.page) < PageSize /\ Len(scratch) < write_buf_size
           /\ super_mode \in 0..2 /\ file_size \in Nat
           /\ scratch \in Seq(0..FF) /\ taken \in Seq(0..FF)
           /\ Streamed(flash, st, scratch, taken)
           /\ st.received_size = ctx.bytes_received
           /\ st.received_size = st.flash_write_pos + Len(st.page)
  <1>1. /\ ctx \in Context /\ flash \in Flash /\ st \in Statics
        /\ Len(st.page) < PageSize /\ Len(scratch) < write_buf_size
        /\ super_mode \in 0..2 /\ file_size \in Nat
        /\ scratch \in Seq(0..FF) /\ taken \in Seq(0..FF)
    BY DEF DeviceInv, DeviceTypes, BuffersInv
  <1>2. /\ SubSeq(flash, 1, st.flash_write_pos) \o st.page \o scratch = taken
        /\ st.received_size = ctx.bytes_received
        /\ st.received_size = st.flash_write_pos + Len(st.page)
    BY DEF DeviceInv, NothingLostOnTheWay
  <1>3. flash \in Flash /\ st \in Statics /\ scratch \in Seq(0..FF) /\ taken \in Seq(0..FF)
    BY <1>1
  <1>4. SubSeq(flash, 1, st.flash_write_pos) \o st.page \o scratch = taken
    BY <1>2
  <1>5. \A s \in Statics, scr, tk \in Seq(0..FF) :
          SubSeq(flash, 1, s.flash_write_pos) \o s.page \o scr = tk <=> Streamed(flash, s, scr, tk)
    BY ONLY <1>3, StreamedIsConcat
  <1>6. \A scr, tk \in Seq(0..FF) :
          SubSeq(flash, 1, st.flash_write_pos) \o st.page \o scr = tk <=> Streamed(flash, st, scr, tk)
    BY ONLY <1>3, <1>5
  <1>7. Streamed(flash, st, scratch, taken)
    BY ONLY <1>3, <1>4, <1>6
  <1> QED
    BY <1>1, <1>2, <1>7

LEMMA ByteStep ==
    ASSUME SenderInv, DeviceInv, ReadByte
    PROVE  SenderInv' /\ DeviceInv'
  <1>1. line' \in Seq(Tokens) /\ Head(line) \in Tokens
    BY Reading DEF ReadByte, SenderInv
  <1>2. SenderInv'
    BY <1>1, SenderStays DEF ReadByte, SenderInv
  <1>3. pc = "data"
    BY DEF ReadByte
  <1>4. PICK b : b = IF Head(line).t = "byte" THEN Head(line).v ELSE Junk
    OBVIOUS
  <1>5. b \in 0..FF
    BY <1>1, <1>4, TokenFacts, Sizing
  <1>6. PICK buf : buf = Append(scratch, b)
    OBVIOUS
  <1>7. PICK tk : tk = Append(taken, b)
    OBVIOUS
  <1>8. /\ taken' = tk
        /\ IF Len(buf) = write_buf_size
           THEN Deliver(buf, "data")
           ELSE /\ scratch' = buf
                /\ UNCHANGED <<pc, ctx, st, flash, super_mode, file_size>>
    BY <1>4, <1>6, <1>7 DEF ReadByte
  <1>9. /\ ctx \in Context /\ flash \in Flash /\ st \in Statics
        /\ Len(st.page) < PageSize /\ Len(scratch) < write_buf_size
        /\ super_mode \in 0..2 /\ file_size \in Nat
        /\ scratch \in Seq(0..FF) /\ taken \in Seq(0..FF)
        /\ Streamed(flash, st, scratch, taken)
        /\ st.received_size = ctx.bytes_received
        /\ st.received_size = st.flash_write_pos + Len(st.page)
    BY <1>3, InData
  <1>10. buf \in Seq(0..FF) /\ tk \in Seq(0..FF) /\ Len(buf) = Len(scratch) + 1
    BY <1>5, <1>6, <1>7, <1>9, AppendProperties
  <1>11. Streamed(flash, st, buf, tk)
    BY <1>5, <1>6, <1>7, <1>9, StreamedByte
  <1>12. CASE Len(buf) = write_buf_size
    <2>1. Deliver(buf, "data") /\ Len(buf) <= write_buf_size
      BY <1>8, <1>12, Sizing
    <2>2. taken' \in Seq(0..FF) /\ Streamed(flash, st, buf, taken')
      BY <1>8, <1>10, <1>11
    <2>3. DeviceInv'
      BY <1>9, <1>10, <2>1, <2>2, DeliverStep
    <2> QED
      BY <1>2, <2>3
  <1>13. CASE Len(buf) # write_buf_size
    <2>1. /\ scratch' = buf /\ taken' = tk
          /\ UNCHANGED <<pc, ctx, st, flash, super_mode, file_size>>
      BY <1>8, <1>13
    <2>2. Len(buf) < write_buf_size
      <3>1. Len(scratch) \in Nat /\ write_buf_size \in Nat
        BY <1>9, LenProperties, Sizing
      <3> QED
        BY <1>9, <1>10, <1>13, <3>1
    <2>3. DeviceTypes'
      BY <2>1, <2>2 DEF DeviceInv, DeviceTypes
    <2>4. BuffersInv'
      BY <1>3, <1>9, <1>10, <2>1 DEF BuffersInv
    <2>5. NothingLostOnTheWay'
      <3>1. SubSeq(flash, 1, st.flash_write_pos) \o st.page \o buf = tk
        BY <1>9, <1>10, <1>11, StreamedIsConcat
      <3> QED
        BY <1>9, <2>1, <3>1 DEF NothingLostOnTheWay
    <2>6. StaticsInv'
      <3>1. Accounted(flash, st, tk)
        BY <1>9, <1>10, <1>11, StreamedIsAccounted
      <3> QED
        BY <2>1, <3>1 DEF StaticsInv
    <2>7. BootsWhatWasAnnounced'
      BY <1>3, <2>1 DEF BootsWhatWasAnnounced
    <2>8. DeviceInv'
      BY <2>3, <2>4, <2>5, <2>6, <2>7 DEF DeviceInv
    <2> QED
      BY <1>2, <2>8
  <1> QED
    BY <1>12, <1>13

LEMMA EndStep ==
    ASSUME SenderInv, DeviceInv, NEW e \in Ends, ReadEnd(e)
    PROVE  SenderInv' /\ DeviceInv'
  <1>1. line' \in Seq(Tokens)
    BY Reading DEF ReadEnd, Takes, SenderInv
  <1>2. replies' \in Seq(Headers)
    BY Answering DEF ReadEnd, SenderInv, Headers
  <1>3. SenderInv'
    BY <1>1, <1>2, SenderStays DEF ReadEnd, SenderInv
  <1>4. pc = "data" /\ taken' = taken
    BY DEF ReadEnd
  <1>5. PICK next \in {"data", "hdr"} : next = IF e \in Continues THEN "data" ELSE "hdr"
    OBVIOUS
  <1>6. PICK data : data = scratch
    OBVIOUS
  <1>7. Deliver(data, next)
    BY <1>5, <1>6 DEF ReadEnd
  <1>8. /\ data \in Seq(0..FF) /\ Len(data) <= write_buf_size
        /\ taken' \in Seq(0..FF) /\ Streamed(flash, st, data, taken')
    <2>1. /\ scratch \in Seq(0..FF) /\ Len(scratch) < write_buf_size
          /\ taken \in Seq(0..FF) /\ Streamed(flash, st, scratch, taken)
      BY <1>4, InData
    <2>2. Len(scratch) <= write_buf_size
      BY <2>1, LenProperties, Sizing
    <2> QED
      BY <1>4, <1>6, <2>1, <2>2
  <1>9. DeviceInv'
    BY <1>4, <1>7, <1>8, InData, DeliverStep
  <1> QED
    BY <1>3, <1>9

LEMMA EofStep ==
    ASSUME SenderInv, DeviceInv, ReadEof
    PROVE  SenderInv' /\ DeviceInv'
  <1>1. line' \in Seq(Tokens) /\ replies' \in Seq(Headers)
    BY Reading, Answering DEF ReadEof, Takes, SenderInv, Headers
  <1>2. SenderInv'
    BY <1>1, SenderStays DEF ReadEof, SenderInv
  <1> QED
    BY <1>2, DeviceStays DEF ReadEof

(* The steps that end a transfer with what the statics hold.                *)
LEMMA Ending ==
    ASSUME DeviceInv, on_end(flash, st), UNCHANGED <<ctx, taken>>
    PROVE  DeviceInv'
  <1>1. /\ flash \in Flash /\ st \in Statics /\ Len(st.page) <= PageSize
        /\ super_mode \in 0..2 /\ file_size \in Nat /\ ctx' \in Context
        /\ taken' \in Seq(0..FF) /\ Accounted(flash, st, taken')
    BY DEF DeviceInv, DeviceTypes, BuffersInv, StaticsInv
  <1> QED
    BY <1>1, OnEndStep

LEMMA FinStep ==
    ASSUME SenderInv, DeviceInv, ReadFin
    PROVE  SenderInv' /\ DeviceInv'
  <1>1. line' \in Seq(Tokens) /\ replies' \in Seq(Headers)
    BY Reading, Answering DEF ReadFin, Takes, SenderInv, Headers
  <1>2. SenderInv'
    BY <1>1, SenderStays DEF ReadFin, SenderInv
  <1> QED
    BY <1>2, Ending DEF ReadFin

LEMMA TimeoutStep ==
    ASSUME SenderInv, DeviceInv, Timeout
    PROVE  SenderInv' /\ DeviceInv'
  <1>1. faults' \in 0..MaxFaults
    BY Sizing DEF Timeout, SenderInv
  <1>2. replies' \in Seq(Headers)
    BY Answering DEF Timeout, SenderInv, Headers
  <1>3. SenderInv'
    BY <1>1, <1>2, SenderStays DEF Timeout, SenderInv
  <1>4. CASE pc = "sinit"
    <2>1. /\ pc' = "pick"
          /\ UNCHANGED <<scratch, st, flash, super_mode, file_size, ctx, taken>>
      BY <1>4 DEF Timeout
    <2>2. /\ ctx \in Context /\ ctx.bytes_received = 0
          /\ Len(scratch) < write_buf_size /\ scratch \in Seq(0..FF)
          /\ super_mode \in 0..2 /\ file_size \in Nat
      BY <1>4 DEF DeviceInv, DeviceTypes, BuffersInv
    <2> QED
      BY <1>3, <2>1, <2>2, DeviceWaits
  <1>5. CASE pc # "sinit"
    BY <1>3, <1>5, Ending DEF Timeout
  <1> QED
    BY <1>4, <1>5

-----------------------------------------------------------------------------
LEMMA InitInv == Init => IInv
  <1> SUFFICES ASSUME Init PROVE SenderInv /\ DeviceInv
    BY IInvParts
  <1>1. SenderInv
    <2>1. size \in Sizes /\ pos \in 0..size
      BY Sizing DEF Init
    <2>2. calls \in 0..MaxCalls /\ faults \in 0..MaxFaults
      BY Sizing DEF Init
    <2> QED
      BY <2>1, <2>2, EmptyScratch DEF Init, SenderInv
  <1>2. flash \in Flash
    BY Sizing DEF Init, Flash
  <1>3. /\ st \in Statics /\ Len(st.page) <= PageSize /\ Accounted(flash, st, << >>)
    <2>1. 0 \in Nat
      OBVIOUS
    <2> QED
      BY <1>2, <2>1, BegunFacts, Sizing DEF Init
  <1>4. DeviceTypes
    BY <1>2, <1>3, EmptyScratch DEF Init, DeviceTypes, Context
  <1>5. BuffersInv
    BY EmptyScratch DEF Init, BuffersInv
  <1>6. NothingLostOnTheWay /\ StaticsInv /\ BootsWhatWasAnnounced
    BY <1>3 DEF Init, NothingLostOnTheWay, StaticsInv, BootsWhatWasAnnounced
  <1> QED
    BY <1>1, <1>4, <1>5, <1>6 DEF DeviceInv

LEMMA StepInv == IInv /\ [Next]_vars => IInv'
  <1> SUFFICES ASSUME SenderInv, DeviceInv, [Next]_vars
               PROVE  SenderInv' /\ DeviceInv'
    <2>1. IInv' <=> SenderInv' /\ DeviceInv'
      BY DEF IInv, TypeOK, SenderInv, DeviceInv, DeviceTypes, Statics, Flash, Context
    <2> QED
      BY <2>1, IInvParts
  <1>1. CASE Sender \/ Cancel
    BY <1>1, SenderStep, DeviceStays
  <1>2. CASE Receiver
    BY <1>2, SkipStep, InitStep, FileStep, InfoStep, EndInfoStep, DataStep,
       ByteStep, EndStep, EofStep, FinStep DEF Receiver
  <1>3. CASE Timeout
    BY <1>3, TimeoutStep
  <1>4. CASE rz
    BY <1>4, RzStep
  <1>5. CASE UNCHANGED vars
    <2>1. UNCHANGED device /\ UNCHANGED <<line, replies, sender, calls, faults>>
      BY <1>5 DEF vars, device
    <2>2. SenderInv'
      BY <2>1, SenderStays DEF SenderInv
    <2> QED
      BY <2>1, <2>2, DeviceStays
  <1> QED
    BY <1>1, <1>2, <1>3, <1>4, <1>5 DEF Next

LEMMA Invariance == Spec => []IInv
  BY InitInv, StepInv, PTL DEF Spec

(* Every token, buffer, counter and place of the receiver and of the sender *)
(* is of its type: no page grows beyond a page, no chunk beyond the scratch *)
(* buffer, and the write position stays in the flash.                       *)
THEOREM TypeCorrect == Spec => []TypeOK
  <1>1. IInv => TypeOK
    BY DEF IInv
  <1> QED
    BY <1>1, Invariance, PTL

(* Between ZFILE and the end of the transfer the flash, the page and the    *)
(* scratch buffer hold together what was read from the line, for every file *)
(* and every way it is cut into subpackets and pages.                       *)
THEOREM NothingLost == Spec => []NothingLostOnTheWay
  <1>1. IInv => NothingLostOnTheWay
    BY DEF IInv
  <1> QED
    BY <1>1, Invariance, PTL

(* Whatever failed on the way, when rz boots the flash begins with as many  *)
(* bytes of the last file that was begun as were announced, and their       *)
(* number is the size that is recorded.                                     *)
THEOREM BootsTheFile == Spec => []BootsWhatWasAnnounced
  <1>1. IInv => BootsWhatWasAnnounced
    BY DEF IInv
  <1> QED
    BY <1>1, Invariance, PTL
=============================================================================
