------------------------------ MODULE KvDbProofs ------------------------------
(***************************************************************************)
(* Proofs about the key-value store: addresses and the ring; the types;    *)
(* the layout of the records; which are valid; the map; what is            *)
(* programmed; and the refinement of KvStore.  Each part has a lemma for   *)
(* a step, and one that brings them together.                              *)
(***************************************************************************)
EXTENDS KvDbInv, FiniteSetTheorems, WellFoundedInduction, TLAPS

-----------------------------------------------------------------------------
(* Addresses and the ring.                                                 *)

LEMMA Sizes ==
    /\ sec_size \in Nat /\ SecNum \in Nat /\ SecNum > 1 /\ sec_size > 3
    /\ \A n \in KvLen : n \in Nat /\ n > 2 /\ Room(SECTOR_HDR_DATA_SIZE, n)
    /\ \A v \in Value : Len[v] \in KvLen
BY KvAssumption DEF SECTOR_HDR_DATA_SIZE, KV_HDR_DATA_SIZE, KvLen, Room

LEMMA DivMod ==
    ASSUME NEW s \in Nat, NEW o \in 0..(sec_size - 1)
    PROVE  (s * sec_size + o) \div sec_size = s /\ (s * sec_size + o) % sec_size = o
BY Sizes, SMT

LEMMA AddrOfFacts ==
    ASSUME NEW s \in Sector, NEW o \in 1..(sec_size - KV_HDR_DATA_SIZE)
    PROVE  /\ AddrOf(s, o) \in Addr
           /\ SecOf(AddrOf(s, o)) = s /\ OffOf(AddrOf(s, o)) = o
<1>1. AddrOf(s, o) \in Addr
    BY DEF Addr
<1>2. s \in Nat /\ o \in 0..(sec_size - 1)
    BY Sizes DEF Sector, KV_HDR_DATA_SIZE
<1>3. QED BY <1>1, <1>2, DivMod DEF AddrOf, SecOf, OffOf

LEMMA AddrFacts ==
    ASSUME NEW a \in Addr
    PROVE  /\ SecOf(a) \in Sector /\ OffOf(a) \in 1..(sec_size - KV_HDR_DATA_SIZE)
           /\ a = AddrOf(SecOf(a), OffOf(a))
           /\ a \in Nat /\ a # FAILED_ADDR /\ a # 0
<1>1. PICK s \in Sector, o \in 1..(sec_size - KV_HDR_DATA_SIZE) : a = AddrOf(s, o)
    BY DEF Addr
<1>2. SecOf(a) = s /\ OffOf(a) = o
    BY <1>1, AddrOfFacts
<1>3. a \in Nat /\ a >= o
    <2>1. s \in Nat /\ o \in Nat /\ sec_size \in Nat
        BY Sizes DEF Sector, KV_HDR_DATA_SIZE
    <2>2. s * sec_size \in Nat
        BY <2>1
    <2>3. QED BY <1>1, <2>1, <2>2 DEF AddrOf
<1>4. QED BY <1>1, <1>2, <1>3 DEF FAILED_ADDR

LEMMA AddrPlus ==
    ASSUME NEW a \in Addr, NEW n \in Nat, Room(OffOf(a), n)
    PROVE  /\ a + n \in Addr
           /\ SecOf(a + n) = SecOf(a) /\ OffOf(a + n) = OffOf(a) + n
<1>1. PICK s \in Sector, o \in 1..(sec_size - KV_HDR_DATA_SIZE) : a = AddrOf(s, o)
    BY DEF Addr
<1>2. SecOf(a) = s /\ OffOf(a) = o
    BY <1>1, AddrOfFacts
<1>3. o + n \in 1..(sec_size - KV_HDR_DATA_SIZE)
    BY <1>2, Sizes DEF Room, KV_HDR_DATA_SIZE
<1>4. a + n = AddrOf(s, o + n)
    <2>1. s * sec_size \in Nat /\ o \in Nat
        BY Sizes DEF Sector, KV_HDR_DATA_SIZE
    <2>2. QED BY <1>1, <2>1 DEF AddrOf
<1>5. QED BY <1>2, <1>3, <1>4, AddrOfFacts

LEMMA FirstOff == SECTOR_HDR_DATA_SIZE \in 1..(sec_size - KV_HDR_DATA_SIZE)
BY Sizes DEF SECTOR_HDR_DATA_SIZE, KV_HDR_DATA_SIZE

LEMMA NextSec ==
    ASSUME NEW s \in Sector
    PROVE  /\ get_next_sec(s) \in Sector
           /\ get_next_sec(s) = IF s + 1 = SecNum THEN 0 ELSE s + 1
BY Sizes DEF get_next_sec, Sector

LEMMA NthFacts ==
    ASSUME NEW n \in 0..(SecNum - 1), oldest_addr \in Sector
    PROVE  /\ Nth(n) = IF oldest_addr + n < SecNum THEN oldest_addr + n
                       ELSE oldest_addr + n - SecNum
           /\ Nth(n) \in Sector /\ Dist(oldest_addr, Nth(n)) = n
<1>1. SecNum \in Nat /\ SecNum > 1 /\ oldest_addr \in Nat /\ oldest_addr < SecNum /\ n \in Nat /\ n < SecNum
    BY Sizes DEF Sector
<1>2. \A x \in Nat : x < SecNum => x % SecNum = x
    BY <1>1
<1>3. \A x \in Nat : x < SecNum => (x + SecNum) % SecNum = x
    BY <1>1, SMT
<1>4. Nth(n) = IF oldest_addr + n < SecNum THEN oldest_addr + n
               ELSE oldest_addr + n - SecNum
    <2>1. CASE oldest_addr + n < SecNum
        BY <1>1, <1>2, <2>1 DEF Nth
    <2>2. CASE ~(oldest_addr + n < SecNum)
        <3>1. PICK x \in Nat : x = oldest_addr + n - SecNum
            BY <1>1, <2>2
        <3>2. x < SecNum /\ oldest_addr + n = x + SecNum
            BY <1>1, <3>1
        <3>3. QED BY <1>1, <1>2, <1>3, <2>2, <3>1, <3>2 DEF Nth
    <2>3. QED BY <2>1, <2>2
<1>5. QED BY <1>1, <1>4 DEF Dist, Sector

LEMMA DistFacts ==
    ASSUME NEW a \in Sector, NEW s \in Sector
    PROVE  /\ Dist(a, s) \in 0..(SecNum - 1)
           /\ \A t \in Sector : Dist(a, s) = Dist(a, t) => s = t
           /\ Dist(a, s) = 0 <=> s = a
           /\ Dist(a, s) < SecNum - 1 => Dist(a, get_next_sec(s)) = Dist(a, s) + 1
           /\ Dist(a, s) > 0 => Dist(get_next_sec(a), s) = Dist(a, s) - 1
           /\ Dist(get_next_sec(a), a) = SecNum - 1
BY Sizes, NextSec DEF Dist, Sector

LEMMA NthDist ==
    ASSUME NEW s \in Sector, oldest_addr \in Sector
    PROVE  Nth(Dist(oldest_addr, s)) = s
<1>1. Dist(oldest_addr, s) \in 0..(SecNum - 1)
    BY DistFacts
<1>2. Dist(oldest_addr, Nth(Dist(oldest_addr, s))) = Dist(oldest_addr, s)
      /\ Nth(Dist(oldest_addr, s)) \in Sector
    BY <1>1, NthFacts
<1>3. QED BY <1>2, DistFacts

-----------------------------------------------------------------------------
(* What the writes to the flash change.                                    *)

IsStored(r, sec, s, mark) ==
    /\ IsFlash(r)
    /\ \A t \in Sector :
         /\ r[t].kv = sec[t].kv /\ r[t].dirty = sec[t].dirty
         /\ r[t].store = IF t = s THEN mark ELSE sec[t].store
         /\ t # s => r[t] = sec[t]

LEMMA StoredFacts ==
    ASSUME NEW sec, IsFlash(sec), NEW s \in Sector, NEW mark \in StoreMark
    PROVE  IsStored(Stored(sec, s, mark), sec, s, mark)
<1> DEFINE r == Stored(sec, s, mark)
<1>1. sec = [t \in Sector |-> sec[t]]
    BY DEF IsFlash
<1>2. \A t \in Sector : r[t] = IF t = s THEN [sec[t] EXCEPT !.store = mark] ELSE sec[t]
    BY <1>1 DEF Stored
<1>3. r = [t \in Sector |-> r[t]]
    BY <1>1 DEF Stored
<1> HIDE DEF r
<1>4. ASSUME NEW t \in Sector
      PROVE  /\ IsSector(r[t]) /\ r[t].kv = sec[t].kv /\ r[t].dirty = sec[t].dirty
             /\ r[t].store = IF t = s THEN mark ELSE sec[t].store
    <2>1. IsSector(sec[t])
        BY DEF IsFlash
    <2>2. r[t] = IF t = s THEN [sec[t] EXCEPT !.store = mark] ELSE sec[t]
        BY <1>2
    <2>3. QED BY <2>1, <2>2 DEF IsSector
<1>5. QED BY <1>2, <1>3, <1>4 DEF IsStored, IsFlash, r

IsDirtied(r, sec, s, mark) ==
    /\ IsFlash(r)
    /\ \A t \in Sector :
         /\ r[t].kv = sec[t].kv /\ r[t].store = sec[t].store
         /\ r[t].dirty = IF t = s THEN mark ELSE sec[t].dirty
         /\ t # s => r[t] = sec[t]

LEMMA DirtiedFacts ==
    ASSUME NEW sec, IsFlash(sec), NEW s \in Sector, NEW mark \in DirtyMark
    PROVE  IsDirtied(Dirtied(sec, s, mark), sec, s, mark)
<1> DEFINE r == Dirtied(sec, s, mark)
<1>1. sec = [t \in Sector |-> sec[t]]
    BY DEF IsFlash
<1>2. \A t \in Sector : r[t] = IF t = s THEN [sec[t] EXCEPT !.dirty = mark] ELSE sec[t]
    BY <1>1 DEF Dirtied
<1>3. r = [t \in Sector |-> r[t]]
    BY <1>1 DEF Dirtied
<1> HIDE DEF r
<1>4. ASSUME NEW t \in Sector
      PROVE  /\ IsSector(r[t]) /\ r[t].kv = sec[t].kv /\ r[t].store = sec[t].store
             /\ r[t].dirty = IF t = s THEN mark ELSE sec[t].dirty
    <2>1. IsSector(sec[t])
        BY DEF IsFlash
    <2>2. r[t] = IF t = s THEN [sec[t] EXCEPT !.dirty = mark] ELSE sec[t]
        BY <1>2
    <2>3. QED BY <2>1, <2>2 DEF IsSector
<1>5. QED BY <1>2, <1>3, <1>4 DEF IsDirtied, IsFlash, r

(* A record is written, or an existing one overwritten.                    *)
IsWritten(r, sec, s, off, rec) ==
    /\ IsFlash(r)
    /\ \A t \in Sector :
         /\ r[t].store = sec[t].store /\ r[t].dirty = sec[t].dirty
         /\ t # s => r[t] = sec[t]
    /\ DOMAIN r[s].kv = DOMAIN sec[s].kv \cup {off}
    /\ \A o \in DOMAIN sec[s].kv \cup {off} :
         r[s].kv[o] = IF o = off THEN rec ELSE sec[s].kv[o]

LEMMA WrittenFacts ==
    ASSUME NEW sec, IsFlash(sec), NEW s \in Sector, NEW off \in 1..sec_size,
           NEW rec \in KvRecord, Room(off, rec.len), NEW kv,
           kv = With(sec[s].kv, off, rec),
           NEW r, r = [sec EXCEPT ![s].kv = kv]
    PROVE  IsWritten(r, sec, s, off, rec)
<1>1. sec = [t \in Sector |-> sec[t]] /\ IsSector(sec[s])
    BY DEF IsFlash
<1>2. \A t \in Sector : r[t] = IF t = s THEN [sec[t] EXCEPT !.kv = kv] ELSE sec[t]
    BY <1>1
<1>3. r = [t \in Sector |-> r[t]]
    BY <1>1
<1>4. /\ DOMAIN kv = DOMAIN sec[s].kv \cup {off}
      /\ kv \in [DOMAIN kv -> KvRecord]
      /\ \A o \in DOMAIN kv : kv[o] = IF o = off THEN rec ELSE sec[s].kv[o]
    BY <1>1 DEF With, IsSector
<1>5. /\ r[s].kv = kv /\ r[s].store = sec[s].store /\ r[s].dirty = sec[s].dirty
      /\ r[s] \in [store : StoreMark, dirty : DirtyMark, kv : {r[s].kv}]
    BY <1>1, <1>2 DEF IsSector
<1>6. \A o \in DOMAIN kv : o \in 1..sec_size /\ Room(o, kv[o].len)
    BY <1>1, <1>4 DEF IsSector
<1>7. \A t \in Sector : IsSector(r[t])
    BY <1>2, <1>4, <1>5, <1>6 DEF IsSector, IsFlash
<1>8. QED BY <1>2, <1>3, <1>4, <1>5, <1>7 DEF IsWritten, IsFlash

LEMMA RecordedFacts ==
    ASSUME NEW sec, IsFlash(sec), NEW a \in Addr,
           NEW rec \in KvRecord, Room(OffOf(a), rec.len)
    PROVE  IsWritten(Recorded(sec, a, rec), sec, SecOf(a), OffOf(a), rec)
<1>1. SecOf(a) \in Sector /\ OffOf(a) \in 1..sec_size
    BY AddrFacts, Sizes DEF KV_HDR_DATA_SIZE
<1>2. Recorded(sec, a, rec) =
        [sec EXCEPT ![SecOf(a)].kv = With(sec[SecOf(a)].kv, OffOf(a), rec)]
    BY <1>1 DEF Recorded, IsFlash
<1>3. QED BY <1>1, <1>2, WrittenFacts

(* The status of a record changes, and nothing if there is no record.      *)
LEMMA WithStatusFacts ==
    ASSUME NEW rec \in KvRecord, NEW status \in Status
    PROVE  /\ WithStatus(rec, status) \in KvRecord
           /\ WithStatus(rec, status).len = rec.len
           /\ WithStatus(rec, status).status = status
           /\ status = "DELETED" =>
                WithStatus(rec, status).key = None /\ WithStatus(rec, status).val = None
           /\ status # "DELETED" =>
                WithStatus(rec, status).key = rec.key /\ WithStatus(rec, status).val = rec.val
BY DEF KvRecord, WithStatus

IsPatched(r, sec, s, off, rec) ==
    /\ IsFlash(r)
    /\ \A t \in Sector :
         /\ r[t].store = sec[t].store /\ r[t].dirty = sec[t].dirty
         /\ t # s => r[t] = sec[t]
         /\ DOMAIN r[t].kv = DOMAIN sec[t].kv
         /\ \A o \in DOMAIN sec[t].kv :
              /\ r[t].kv[o] = IF t = s /\ o = off THEN rec ELSE sec[t].kv[o]
              /\ r[t].kv[o].len = sec[t].kv[o].len

LEMMA PatchedFacts ==
    ASSUME NEW sec, IsFlash(sec), NEW s \in Sector, NEW off, NEW rec,
           off \in DOMAIN sec[s].kv => rec \in KvRecord /\ rec.len = sec[s].kv[off].len,
           NEW r, r = [sec EXCEPT ![s].kv[off] = rec]
    PROVE  IsPatched(r, sec, s, off, rec)
<1> DEFINE kv == [sec[s].kv EXCEPT ![off] = rec]
<1>1. sec = [t \in Sector |-> sec[t]] /\ \A t \in Sector : IsSector(sec[t])
    BY DEF IsFlash
<1>2. r = [sec EXCEPT ![s].kv = kv]
    OBVIOUS
<1>3. /\ DOMAIN kv = DOMAIN sec[s].kv
      /\ \A o \in DOMAIN kv : kv[o] = IF o = off THEN rec ELSE sec[s].kv[o]
    BY <1>1 DEF IsSector
<1> HIDE DEF kv
<1>4. ASSUME NEW o \in DOMAIN kv
      PROVE  kv[o] \in KvRecord /\ kv[o].len = sec[s].kv[o].len
    <2>1. sec[s].kv[o] \in KvRecord
        BY <1>1, <1>3 DEF IsSector
    <2>2. QED BY <1>3, <2>1
<1>5. \A t \in Sector : r[t] = IF t = s THEN [sec[t] EXCEPT !.kv = kv] ELSE sec[t]
    BY <1>1, <1>2
<1>6. r = [t \in Sector |-> r[t]]
    BY <1>1, <1>2
<1>7. /\ r[s].kv = kv /\ r[s].store = sec[s].store /\ r[s].dirty = sec[s].dirty
      /\ r[s] \in [store : StoreMark, dirty : DirtyMark, kv : {r[s].kv}]
    BY <1>1, <1>5 DEF IsSector
<1>8. kv \in [DOMAIN kv -> KvRecord]
    BY <1>4 DEF kv
<1>9. \A o \in DOMAIN kv : o \in 1..sec_size /\ Room(o, kv[o].len)
    BY <1>1, <1>3, <1>4 DEF IsSector
<1>10. \A t \in Sector : IsSector(r[t])
    BY <1>1, <1>5, <1>7, <1>8, <1>9 DEF IsSector
<1>11. ASSUME NEW t \in Sector
       PROVE  /\ r[t].store = sec[t].store /\ r[t].dirty = sec[t].dirty
              /\ t # s => r[t] = sec[t]
              /\ DOMAIN r[t].kv = DOMAIN sec[t].kv
              /\ \A o \in DOMAIN sec[t].kv :
                   /\ r[t].kv[o] = IF t = s /\ o = off THEN rec ELSE sec[t].kv[o]
                   /\ r[t].kv[o].len = sec[t].kv[o].len
    BY <1>3, <1>4, <1>5, <1>7
<1>12. QED BY <1>6, <1>10, <1>11 DEF IsPatched, IsFlash

IsMarked(r, sec, a, status) ==
    IsPatched(r, sec, SecOf(a), OffOf(a), WithStatus(sec[SecOf(a)].kv[OffOf(a)], status))

LEMMA MarkedFacts ==
    ASSUME NEW sec, IsFlash(sec), NEW a \in Addr, NEW status \in Status
    PROVE  IsMarked(Marked(sec, a, status), sec, a, status)
<1> DEFINE s == SecOf(a)
           off == OffOf(a)
<1>1. s \in Sector
    BY AddrFacts
<1>2. ASSUME off \in DOMAIN sec[s].kv
      PROVE  /\ WithStatus(sec[s].kv[off], status) \in KvRecord
             /\ WithStatus(sec[s].kv[off], status).len = sec[s].kv[off].len
    <2>1. sec[s].kv[off] \in KvRecord
        BY <1>1, <1>2 DEF IsFlash, IsSector
    <2>2. QED BY <2>1, WithStatusFacts
<1>3. Marked(sec, a, status) =
        [sec EXCEPT ![s].kv[off] = WithStatus(sec[s].kv[off], status)]
    BY <1>1 DEF Marked, IsFlash
<1>4. QED BY <1>1, <1>2, <1>3, PatchedFacts DEF IsMarked

(* Key and value are written behind a header.                              *)
WithData(rec, k, v) == [rec EXCEPT !.key = k, !.val = v]

LEMMA FilledFacts ==
    ASSUME NEW sec, IsFlash(sec), NEW a \in Addr, NEW k \in Key, NEW v \in Value,
           NEW r, r = [sec EXCEPT ![SecOf(a)].kv[OffOf(a)] =
                         WithData(sec[SecOf(a)].kv[OffOf(a)], k, v)]
    PROVE  IsPatched(r, sec, SecOf(a), OffOf(a), WithData(sec[SecOf(a)].kv[OffOf(a)], k, v))
<1> DEFINE s == SecOf(a)
           off == OffOf(a)
<1>1. s \in Sector
    BY AddrFacts
<1>2. ASSUME off \in DOMAIN sec[s].kv
      PROVE  /\ WithData(sec[s].kv[off], k, v) \in KvRecord
             /\ WithData(sec[s].kv[off], k, v).len = sec[s].kv[off].len
    <2>1. sec[s].kv[off] \in KvRecord
        BY <1>1, <1>2 DEF IsFlash, IsSector
    <2>2. QED BY <2>1 DEF KvRecord, WithData
<1>3. QED BY <1>1, <1>2, PatchedFacts

(* Nothing takes a record away but the erase of its sector.                *)
KeepsLen(r, sec) ==
    \A t \in Sector : \A o \in DOMAIN sec[t].kv :
        o \in DOMAIN r[t].kv /\ r[t].kv[o].len = sec[t].kv[o].len

LEMMA Kept ==
    ASSUME NEW r, NEW sec
    PROVE  /\ KeepsLen(sec, sec)
           /\ \A s, mark : IsStored(r, sec, s, mark) => KeepsLen(r, sec)
           /\ \A s, mark : IsDirtied(r, sec, s, mark) => KeepsLen(r, sec)
           /\ \A s, off, rec : IsPatched(r, sec, s, off, rec) => KeepsLen(r, sec)
           /\ \A a, status : IsMarked(r, sec, a, status) => KeepsLen(r, sec)
BY DEF KeepsLen, IsStored, IsDirtied, IsPatched, IsMarked

LEMMA Formatted ==
    IsSector(Empty) /\ IsSector(Erased)
<1>1. << >> \in [DOMAIN << >> -> KvRecord] /\ DOMAIN << >> = {}
    OBVIOUS
<1>2. QED BY <1>1 DEF IsSector, Empty, Erased, StoreMark, DirtyMark

LEMMA ReplacedFacts ==
    ASSUME NEW sec, IsFlash(sec), NEW s \in Sector, NEW new, IsSector(new)
    PROVE  /\ IsFlash([sec EXCEPT ![s] = new])
           /\ \A t \in Sector : [sec EXCEPT ![s] = new][t] = IF t = s THEN new ELSE sec[t]
BY DEF IsFlash

-----------------------------------------------------------------------------
(* What find_kv passes.                                                    *)

LEMMA LeastExists ==
    ASSUME NEW S, S \subseteq Nat, S # {}
    PROVE  \E x \in S : \A y \in S : x <= y
<1> DEFINE R == {p \in Nat \X Nat : p[1] < p[2]}
<1>1. IsWellFoundedOn(R, Nat)
    BY NatLessThanWellFounded DEF OpToRel
<1>2. \A x, y \in Nat : y < x => <<y, x>> \in R
    OBVIOUS
<1> HIDE DEF R
<1>3. PICK x \in S : \A y \in S : ~(<<y, x>> \in R)
    BY <1>1, WFMin
<1>4. ASSUME NEW y \in S PROVE x <= y
    <2>1. x \in Nat /\ y \in Nat
        OBVIOUS
    <2>2. ~(y < x)
        BY <1>2, <1>3, <2>1
    <2>3. QED BY <2>1, <2>2
<1>5. QED BY <1>4

LEMMA MinIsLeast ==
    ASSUME NEW S, S \subseteq Nat, S # {}
    PROVE  Min(S) \in S /\ \A y \in S : Min(S) <= y
BY LeastExists DEF Min

LEMMA MaxIsGreatest ==
    ASSUME NEW B \in Nat, NEW S, S \subseteq 0..B, S # {}
    PROVE  Max(S) \in S /\ \A y \in S : y <= Max(S)
<1> DEFINE T == {B - x : x \in S}
<1>1. T \subseteq Nat /\ T # {}
    <2>1. \A x \in S : B - x \in Nat
        OBVIOUS
    <2>2. QED BY <2>1
<1>2. PICK t \in T : \A u \in T : t <= u
    BY <1>1, LeastExists
<1>3. PICK x \in S : t = B - x
    OBVIOUS
<1>4. \A y \in S : B - x <= B - y
    BY <1>2, <1>3
<1>5. \A y \in S : x >= y
    BY <1>4
<1>6. QED BY <1>3, <1>5 DEF Max

LEMMA SectorFacts ==
    ASSUME NEW sec, IsFlash(sec), NEW s \in Sector, NEW o \in DOMAIN sec[s].kv
    PROVE  /\ sec[s].kv[o] \in KvRecord /\ sec[s].kv[o].len \in KvLen
           /\ sec[s].kv[o].len \in Nat /\ sec[s].kv[o].len > 2
           /\ o \in 1..(sec_size - KV_HDR_DATA_SIZE) /\ Room(o, sec[s].kv[o].len)
<1>1. /\ sec[s].kv[o] \in KvRecord /\ o \in 1..sec_size /\ Room(o, sec[s].kv[o].len)
    BY DEF IsFlash, IsSector
<1>2. sec[s].kv[o].len \in KvLen
    BY <1>1 DEF KvRecord
<1>3. PICK n \in Nat : n = sec[s].kv[o].len /\ n > 2
    BY <1>2, Sizes
<1>4. o \in 1..(sec_size - KV_HDR_DATA_SIZE)
    BY <1>1, <1>3, Sizes DEF Room, KV_HDR_DATA_SIZE
<1>5. QED BY <1>1, <1>2, <1>3, <1>4

LEMMA WalkDomain ==
    ASSUME NEW sec, NEW s
    PROVE  Walk(sec, s) \subseteq DOMAIN sec[s].kv
BY DEF Walk

LEMMA EndType ==
    ASSUME NEW sec, IsFlash(sec), NEW s \in Sector
    PROVE  End(sec, s) \in Nat /\ End(sec, s) >= 1
<1>1. CASE Walk(sec, s) = {}
    BY <1>1 DEF End, SECTOR_HDR_DATA_SIZE
<1>2. CASE Walk(sec, s) # {}
    <2>1. Walk(sec, s) \subseteq 0..sec_size
        BY WalkDomain, SectorFacts, Sizes DEF KV_HDR_DATA_SIZE
    <2>2. PICK o \in Walk(sec, s) : o = Max(Walk(sec, s))
        BY <1>2, <2>1, Sizes, MaxIsGreatest
    <2>3. o \in Nat /\ o >= 1 /\ sec[s].kv[o].len \in Nat
        BY WalkDomain, SectorFacts, Sizes DEF KV_HDR_DATA_SIZE
    <2>4. QED BY <1>2, <2>2, <2>3 DEF End
<1>3. QED BY <1>1, <1>2

(* A place is a sector, counted from the oldest, and an offset.            *)
IsPlace(p, n, o) ==
    /\ n \in 0..(SecNum - 1) /\ Reached(n) /\ o \in Walk(sector, Nth(n))
    /\ p = n * sec_size + o /\ p \in Nat
    /\ AtPlace(p) = AddrOf(Nth(n), o) /\ AtPlace(p) \in Addr
    /\ SecOf(AtPlace(p)) = Nth(n) /\ OffOf(AtPlace(p)) = o
    /\ o \in DOMAIN sector[Nth(n)].kv

LEMMA PlaceFacts ==
    ASSUME IsFlash(sector), oldest_addr \in Sector,
           NEW n \in 0..(SecNum - 1), Reached(n), NEW o \in Walk(sector, Nth(n))
    PROVE  n * sec_size + o \in Places /\ IsPlace(n * sec_size + o, n, o)
<1> DEFINE p == n * sec_size + o
<1>1. p \in Places
    BY DEF Places
<1>2. Nth(n) \in Sector /\ o \in DOMAIN sector[Nth(n)].kv
    BY NthFacts, WalkDomain
<1>3. o \in 1..(sec_size - KV_HDR_DATA_SIZE)
    BY <1>2, SectorFacts
<1>4. n \in Nat /\ o \in 0..(sec_size - 1)
    BY <1>3, Sizes DEF KV_HDR_DATA_SIZE
<1>5. p \div sec_size = n /\ p % sec_size = o
    BY <1>4, DivMod
<1>6. p \in Nat
    <2>1. n * sec_size \in Nat
        BY <1>4, Sizes
    <2>2. QED BY <1>4, <2>1
<1> HIDE DEF p
<1>7. AtPlace(p) = AddrOf(Nth(n), o)
    BY <1>5 DEF AtPlace
<1>8. QED BY <1>1, <1>2, <1>3, <1>6, <1>7, AddrOfFacts DEF IsPlace, p

LEMMA PlacesFacts ==
    ASSUME IsFlash(sector), oldest_addr \in Sector, NEW p \in Places
    PROVE  \E n \in 0..(SecNum - 1) : \E o \in Walk(sector, Nth(n)) : IsPlace(p, n, o)
<1>1. PICK n \in 0..(SecNum - 1) :
         Reached(n) /\ \E o \in Walk(sector, Nth(n)) : p = n * sec_size + o
    BY DEF Places
<1>2. PICK o \in Walk(sector, Nth(n)) : p = n * sec_size + o
    BY <1>1
<1>3. QED BY <1>1, <1>2, PlaceFacts

LEMMA FindType ==
    ASSUME IsFlash(sector), oldest_addr \in Sector, NEW k \in Key,
           cache \in [Key -> Addr \cup {FAILED_ADDR}]
    PROVE  Find(k) \in Addr \cup {FAILED_ADDR}
<1> DEFINE places == {p \in Places : /\ KvAt(AtPlace(p)).key = k
                                     /\ KvAt(AtPlace(p)).status \in Live}
<1>1. CASE places = {}
    BY <1>1 DEF Find, Scanned
<1>2. CASE places # {}
    <2>1. \A p \in Places : p \in Nat /\ AtPlace(p) \in Addr
        BY PlacesFacts DEF IsPlace
    <2>2. places \subseteq Nat
        BY <2>1
    <2>3. Min(places) \in places
        BY <1>2, <2>2, MinIsLeast
    <2>4. AtPlace(Min(places)) \in Addr
        BY <2>1, <2>3
    <2>5. QED BY <1>2, <2>4 DEF Find, Scanned
<1>3. QED BY <1>1, <1>2

-----------------------------------------------------------------------------
(* Types.                                                                  *)

LEMMA SetType ==
    ASSUME TypeInv, NEW k \in Key, NEW v \in Value \cup {None}, kv_set(k, v)
    PROVE  TypeInv'
<1>1. IsFlash(sector')
    BY DEF kv_set, TypeInv, RamType, OpType, GcType, SetPc, GcPc, Writing, Moving, NoCtx, FAILED_ADDR
<1>2. RamType'
    BY DEF kv_set, TypeInv, RamType, OpType, GcType, SetPc, GcPc, Writing, Moving, NoCtx, FAILED_ADDR
<1>3. OpType'
    BY DEF kv_set, TypeInv, RamType, OpType, GcType, SetPc, GcPc, Writing, Moving, NoCtx, FAILED_ADDR
<1>4. GcType'
    BY DEF kv_set, TypeInv, RamType, OpType, GcType, SetPc, GcPc, Writing, Moving, NoCtx, FAILED_ADDR, From
<1>5. QED BY <1>1, <1>2, <1>3, <1>4 DEF TypeInv

LEMMA GcSkipType ==
    ASSUME TypeInv, GcSkip
    PROVE  TypeInv'
<1>1. IsFlash(sector')
    BY SectorFacts DEF GcSkip, TypeInv, RamType, OpType, GcType, SetPc, GcPc, Writing, Moving, AtEnd, From
<1>2. RamType'
    BY SectorFacts DEF GcSkip, TypeInv, RamType, OpType, GcType, SetPc, GcPc, Writing, Moving, AtEnd, From
<1>3. OpType'
    BY SectorFacts DEF GcSkip, TypeInv, RamType, OpType, GcType, SetPc, GcPc, Writing, Moving, AtEnd, From
<1>4. GcType'
    BY SectorFacts DEF GcSkip, TypeInv, RamType, OpType, GcType, SetPc, GcPc, Writing, Moving, AtEnd, From, From
<1>5. QED BY <1>1, <1>2, <1>3, <1>4 DEF TypeInv

LEMMA ResetType ==
    ASSUME TypeInv, Reset
    PROVE  TypeInv'
<1>1. IsFlash(sector')
    BY DEF Reset, TypeInv, RamType, OpType, GcType, SetPc, GcPc, Writing, Moving, NoOp, NoCtx, NoGc, FAILED_ADDR, DirtyMark
<1>2. RamType'
    BY DEF Reset, TypeInv, RamType, OpType, GcType, SetPc, GcPc, Writing, Moving, NoOp, NoCtx, NoGc, FAILED_ADDR, DirtyMark
<1>3. OpType'
    BY DEF Reset, TypeInv, RamType, OpType, GcType, SetPc, GcPc, Writing, Moving, NoOp, NoCtx, NoGc, FAILED_ADDR, DirtyMark
<1>4. GcType'
    BY DEF Reset, TypeInv, RamType, OpType, GcType, SetPc, GcPc, Writing, Moving, NoOp, NoCtx, NoGc, FAILED_ADDR, DirtyMark, From
<1>5. QED BY <1>1, <1>2, <1>3, <1>4 DEF TypeInv

LEMMA WriteFailsType ==
    ASSUME TypeInv, WriteFails
    PROVE  TypeInv'
<1>1. IsFlash(sector')
    BY DEF WriteFails, TypeInv
<1>2. RamType'
    <2>1. /\ oldest_addr' \in Sector /\ empty_kv' \in Addr /\ faults' \in Nat
          /\ cache' \in [Key -> Addr \cup {FAILED_ADDR}]
          /\ gc' \in [off : Nat, next : Addr \cup {0}, dirty : DirtyMark]
        BY DEF WriteFails, TypeInv, RamType
    <2>2. pc' = "idle" /\ retry' \in 0..2
        BY DEF WriteFails, Returns, NoOp
    <2>5. reply' \in BOOLEAN
        BY DEF WriteFails, Returns
    <2>3. ctx' \in [old : Addr \cup {FAILED_ADDR}, new : Addr \cup {FAILED_ADDR}]
        BY DEF WriteFails, Returns, NoOp, NoCtx
    <2>4. QED BY <2>1, <2>2, <2>3, <2>5 DEF RamType
<1>3. OpType'
    BY DEF WriteFails, Returns, NoOp, TypeInv, OpType, SetPc, GcPc, Writing, Moving
<1>4. GcType'
    BY DEF WriteFails, Returns, SetPc, GcPc, Writing, Moving, GcType
<1>5. QED BY <1>1, <1>2, <1>3, <1>4 DEF TypeInv

LEMMA AllocType ==
    ASSUME TypeInv, alloc_kv
    PROVE  TypeInv'

<1> DEFINE cur == SecOf(empty_kv)
<1>a. /\ cur \in Sector /\ empty_kv \in Addr /\ op.val \in Value /\ op \in [key : Key, val : Value \cup {None}]
      /\ Room(SECTOR_HDR_DATA_SIZE, Len[op.val]) /\ op.val # None /\ back = "idle"
    BY AddrFacts, Sizes, KvAssumption DEF alloc_kv, TypeInv, RamType, OpType, SetPc, GcPc
<1>b. /\ AddrOf(cur, SECTOR_HDR_DATA_SIZE) \in Addr
      /\ OffOf(AddrOf(cur, SECTOR_HDR_DATA_SIZE)) = SECTOR_HDR_DATA_SIZE
    BY <1>a, AddrOfFacts, FirstOff
<1>1. IsFlash(sector')
    <2>1. sector' \in {sector, Stored(sector, cur, "FULL"), Stored(sector, cur, "USING")}
        BY DEF alloc_kv
    <2>2. QED BY <1>a, <2>1, StoredFacts DEF TypeInv, IsStored, StoreMark
<1>2. RamType'
    <2>1. /\ oldest_addr' \in Sector /\ empty_kv' \in Addr /\ faults' \in Nat
          /\ cache' \in [Key -> Addr \cup {FAILED_ADDR}]
          /\ gc' \in [off : Nat, next : Addr \cup {0}, dirty : DirtyMark]
        BY DEF alloc_kv, TypeInv, RamType
    <2>2. pc' \in {"idle", "gc", "alloc_next", "find"} /\ retry' \in 0..2
        BY DEF alloc_kv, Returns, NoOp, TypeInv, RamType
    <2>5. reply' \in BOOLEAN
        BY DEF alloc_kv, Returns, TypeInv, RamType
    <2>3. ctx' \in [old : Addr \cup {FAILED_ADDR}, new : Addr \cup {FAILED_ADDR}]
        BY <1>a, <1>b DEF alloc_kv, Returns, NoOp, NoCtx, TypeInv, RamType
    <2>4. QED BY <2>1, <2>2, <2>3, <2>5 DEF RamType, SetPc, GcPc
<1>3. OpType'
    <2>1. CASE pc' = "idle"
        BY <2>1, <1>a DEF alloc_kv, Returns, NoOp, OpType, SetPc, GcPc, Writing
    <2>2. CASE pc' = "gc"
        BY <2>2, <1>a DEF alloc_kv, Returns, OpType, SetPc, GcPc, Writing
    <2>3. CASE pc' = "alloc_next"
        BY <2>3, <1>a DEF alloc_kv, Returns, OpType, SetPc, GcPc, Writing
    <2>4. CASE pc' = "find"
        <3>1. /\ ctx'.new \in Addr /\ Room(OffOf(ctx'.new), Len[op.val])
              /\ op' = op /\ back' = back
            BY <2>4, <1>a, <1>b, AddrFacts DEF alloc_kv, Returns, Fits, Room, TypeInv, RamType
        <3>2. ctx'.new # FAILED_ADDR
            BY <3>1, AddrFacts
        <3>3. QED BY <2>4, <3>1, <3>2, <1>a DEF OpType, SetPc, GcPc, Writing
    <2>5. QED BY <2>1, <2>2, <2>3, <2>4 DEF alloc_kv, Returns
<1>4. GcType'
    <2>1. pc' \in {"idle", "gc", "alloc_next", "find"}
        BY DEF alloc_kv, Returns
    <2>2. QED BY <2>1 DEF GcType, GcPc, Moving
<1>5. QED BY <1>1, <1>2, <1>3, <1>4 DEF TypeInv

LEMMA AllocNextType ==
    ASSUME TypeInv, alloc_kv_next
    PROVE  TypeInv'

<1> DEFINE cur == get_next_sec(SecOf(empty_kv))
<1>a. cur \in Sector /\ IsFlash(sector)
    BY AddrFacts, NextSec DEF TypeInv, RamType
<1>b. /\ ctx'.new = AddrOf(cur, SECTOR_HDR_DATA_SIZE) /\ ctx'.new \in Addr
      /\ OffOf(ctx'.new) = SECTOR_HDR_DATA_SIZE /\ ctx'.old = ctx.old
      /\ ctx'.new # FAILED_ADDR
    BY <1>a, AddrOfFacts, AddrFacts, FirstOff DEF alloc_kv_next, TypeInv, RamType
<1>1. IsFlash(sector')
    BY <1>a, StoredFacts DEF alloc_kv_next, IsStored, StoreMark
<1>2. RamType'
    BY <1>a, <1>b DEF alloc_kv_next, TypeInv, RamType, SetPc
<1>3. OpType'
    <2>1. op.val \in Value /\ Room(SECTOR_HDR_DATA_SIZE, Len[op.val]) /\ op.val # None
        BY Sizes, KvAssumption DEF alloc_kv_next, TypeInv, OpType, SetPc
    <2>2. QED BY <2>1, <1>b DEF alloc_kv_next, TypeInv, OpType, SetPc, GcPc, Writing
<1>4. GcType'
    BY DEF alloc_kv_next, GcType, GcPc, Moving
<1>5. QED BY <1>1, <1>2, <1>3, <1>4 DEF TypeInv

LEMMA FindOldType ==
    ASSUME TypeInv, FindOld
    PROVE  TypeInv'

<1>a. Find(op.key) \in Addr \cup {FAILED_ADDR} /\ op.key \in Key
    BY FindType DEF FindOld, TypeInv, RamType, OpType, SetPc
<1>1. IsFlash(sector')
    <2>1. \/ sector' = sector
          \/ /\ Find(op.key) \in Addr
             /\ \/ sector' = Marked(sector, Find(op.key), "DELETED")
                \/ sector' = Marked(sector, Find(op.key), "PRE_DELETE")
        BY <1>a DEF FindOld, PreDeleted
    <2>2. QED BY <2>1, MarkedFacts DEF TypeInv, IsMarked, IsPatched, Status
<1>2. RamType'
    <2>1. /\ oldest_addr' \in Sector /\ empty_kv' \in Addr /\ faults' \in Nat
          /\ gc' \in [off : Nat, next : Addr \cup {0}, dirty : DirtyMark]
        BY DEF FindOld, TypeInv, RamType
    <2>2. cache' \in [Key -> Addr \cup {FAILED_ADDR}]
        BY <1>a DEF FindOld, Cached, TypeInv, RamType
    <2>3. pc' \in {"idle", "header"} /\ retry' \in 0..2
        BY DEF FindOld, Returns, NoOp, TypeInv, RamType
    <2>4. reply' \in BOOLEAN
        BY DEF FindOld, Returns, NoOp, TypeInv, RamType
    <2>5. ctx' \in [old : Addr \cup {FAILED_ADDR}, new : Addr \cup {FAILED_ADDR}]
        BY <1>a DEF FindOld, Returns, NoOp, NoCtx, TypeInv, RamType
    <2>6. QED BY <2>1, <2>2, <2>3, <2>4, <2>5 DEF RamType, SetPc
<1>3. OpType'
    <2>1. CASE op.val = None
        BY <2>1 DEF FindOld, Returns, NoOp, TypeInv, OpType, SetPc, GcPc, Writing
    <2>2. CASE op.val # None
        <3>1. ctx'.new = ctx.new /\ pc' = "header" /\ op' = op /\ back' = back /\ pc = "find"
            BY <2>2 DEF FindOld, TypeInv, RamType
        <3>2. QED BY <2>2, <3>1 DEF TypeInv, OpType, SetPc, GcPc, Writing
    <2>3. QED BY <2>1, <2>2
<1>4. GcType'
    <2>1. pc' \in {"idle", "header"}
        BY DEF FindOld, Returns
    <2>2. QED BY <2>1 DEF GcType, GcPc, Moving
<1>5. QED BY <1>1, <1>2, <1>3, <1>4 DEF TypeInv

LEMMA WriteHeaderType ==
    ASSUME TypeInv, WriteHeader
    PROVE  TypeInv'

<1> DEFINE rec == [key |-> None, val |-> None, len |-> Len[op.val], status |-> "PRE_WRITE"]
<1>a. ctx.new \in Addr /\ Room(OffOf(ctx.new), Len[op.val]) /\ op.val \in Value
    BY DEF WriteHeader, TypeInv, OpType, SetPc
<1>b. rec \in KvRecord /\ rec.len = Len[op.val] /\ Len[op.val] \in Nat
    BY <1>a, Sizes DEF KvRecord, Status
<1>c. empty_kv' \in Addr
    BY <1>a, <1>b, AddrPlus DEF WriteHeader, RecordEnd
<1>1. IsFlash(sector')
    BY <1>a, <1>b, RecordedFacts DEF WriteHeader, IsWritten, TypeInv
<1>2. RamType'
    BY <1>c DEF WriteHeader, TypeInv, RamType, SetPc, volatile
<1>3. OpType'
    BY <1>a DEF WriteHeader, TypeInv, OpType, SetPc, GcPc, Writing, volatile
<1>4. GcType'
    BY DEF WriteHeader, GcType, GcPc, Moving
<1>5. QED BY <1>1, <1>2, <1>3, <1>4 DEF TypeInv

LEMMA MarkDirtyType ==
    ASSUME TypeInv, MarkDirty
    PROVE  TypeInv'

<1>a. SecOf(ctx.new) \in Sector
    BY AddrFacts DEF MarkDirty, TypeInv, OpType, Writing
<1>1. IsFlash(sector')
    BY <1>a, DirtiedFacts DEF MarkDirty, IsDirtied, DirtyMark, TypeInv
<1>2. RamType'
    BY DEF MarkDirty, TypeInv, RamType, SetPc, volatile
<1>3. OpType'
    BY DEF MarkDirty, TypeInv, OpType, SetPc, GcPc, Writing, volatile
<1>4. GcType'
    BY DEF MarkDirty, GcType, GcPc, Moving
<1>5. QED BY <1>1, <1>2, <1>3, <1>4 DEF TypeInv

LEMMA WriteDataType ==
    ASSUME TypeInv, WriteData
    PROVE  TypeInv'

<1>a. ctx.new \in Addr /\ op.key \in Key /\ op.val \in Value
    BY DEF WriteData, TypeInv, OpType, Writing, SetPc
<1>1. IsFlash(sector')
    <2>1. sector' = [sector EXCEPT ![SecOf(ctx.new)].kv[OffOf(ctx.new)] =
                       WithData(sector[SecOf(ctx.new)].kv[OffOf(ctx.new)], op.key, op.val)]
        <3>1. SecOf(ctx.new) \in Sector /\ sector = [s \in Sector |-> sector[s]]
            BY <1>a, AddrFacts DEF TypeInv, IsFlash
        <3>2. QED BY <3>1 DEF WriteData, WithData
    <2>2. QED BY <1>a, <2>1, FilledFacts DEF TypeInv, IsPatched
<1>2. RamType'
    BY DEF WriteData, TypeInv, RamType, SetPc, volatile
<1>3. OpType'
    BY DEF WriteData, TypeInv, OpType, SetPc, GcPc, Writing, volatile
<1>4. GcType'
    BY DEF WriteData, GcType, GcPc, Moving
<1>5. QED BY <1>1, <1>2, <1>3, <1>4 DEF TypeInv

LEMMA CommitType ==
    ASSUME TypeInv, Commit
    PROVE  TypeInv'

<1>a. ctx.new \in Addr
    BY DEF Commit, TypeInv, RamType, OpType, Writing
<1>1. IsFlash(sector')
    BY <1>a, MarkedFacts DEF Commit, TypeInv, IsMarked, IsPatched, Status
<1>2. RamType'
    <2>1. /\ oldest_addr' \in Sector /\ empty_kv' \in Addr /\ faults' \in Nat
          /\ gc' \in [off : Nat, next : Addr \cup {0}, dirty : DirtyMark]
        BY DEF Commit, TypeInv, RamType
    <2>2. cache' \in [Key -> Addr \cup {FAILED_ADDR}]
        BY DEF Commit, Cached, TypeInv, RamType
    <2>3. pc' \in {"idle", "delete_old"} /\ retry' \in 0..2
        BY DEF Commit, Returns, NoOp, TypeInv, RamType
    <2>4. reply' \in BOOLEAN
        BY DEF Commit, Returns, TypeInv, RamType
    <2>5. ctx' \in [old : Addr \cup {FAILED_ADDR}, new : Addr \cup {FAILED_ADDR}]
        BY DEF Commit, Returns, NoOp, NoCtx, TypeInv, RamType
    <2>6. QED BY <2>1, <2>2, <2>3, <2>4, <2>5 DEF RamType, SetPc
<1>3. OpType'
    <2>1. CASE pc' = "idle"
        BY <2>1 DEF Commit, Returns, NoOp, TypeInv, OpType, SetPc, GcPc, Writing
    <2>2. CASE pc' = "delete_old"
        <3>1. op' = op /\ back' = back /\ ctx' = ctx /\ ctx.old # FAILED_ADDR
            BY <2>2 DEF Commit, Returns
        <3>2. ctx.old \in Addr
            BY <3>1 DEF TypeInv, RamType
        <3>3. QED BY <1>a, <2>2, <3>1, <3>2 DEF Commit, TypeInv, OpType, SetPc, GcPc, Writing
    <2>3. QED BY <2>1, <2>2 DEF Commit, Returns
<1>4. GcType'
    BY DEF Commit, Returns, GcType, GcPc, Moving
<1>5. QED BY <1>1, <1>2, <1>3, <1>4 DEF TypeInv

LEMMA DeleteOldType ==
    ASSUME TypeInv, DeleteOld
    PROVE  TypeInv'

<1>a. ctx.new \in Addr /\ ctx.old \in Addr
    BY DEF DeleteOld, TypeInv, RamType, OpType, Writing
<1>1. IsFlash(sector')
    BY <1>a, MarkedFacts DEF DeleteOld, TypeInv, IsMarked, IsPatched, Status
<1>2. RamType'
    <2>1. /\ oldest_addr' \in Sector /\ empty_kv' \in Addr /\ faults' \in Nat
          /\ gc' \in [off : Nat, next : Addr \cup {0}, dirty : DirtyMark]
        BY DEF DeleteOld, TypeInv, RamType
    <2>2. cache' \in [Key -> Addr \cup {FAILED_ADDR}]
        BY <1>a DEF DeleteOld, Cached, TypeInv, RamType
    <2>3. pc' = "idle" /\ retry' \in 0..2
        BY DEF DeleteOld, Returns, NoOp, TypeInv, RamType
    <2>4. reply' \in BOOLEAN
        BY DEF DeleteOld, Returns, TypeInv, RamType
    <2>5. ctx' \in [old : Addr \cup {FAILED_ADDR}, new : Addr \cup {FAILED_ADDR}]
        BY DEF DeleteOld, Returns, NoOp, NoCtx, TypeInv, RamType
    <2>6. QED BY <2>1, <2>2, <2>3, <2>4, <2>5 DEF RamType, SetPc
<1>3. OpType'
    BY DEF DeleteOld, Returns, NoOp, TypeInv, OpType, SetPc, GcPc, Writing
<1>4. GcType'
    BY DEF DeleteOld, Returns, GcType, GcPc, Moving
<1>5. QED BY <1>1, <1>2, <1>3, <1>4 DEF TypeInv

LEMMA GetType ==
    ASSUME TypeInv, NEW k \in Key, kv_get(k)
    PROVE  TypeInv'

<1> DEFINE bad == Find(k) # FAILED_ADDR /\ ~Whole(KvAt(Find(k)))
<1>a. Find(k) \in Addr \cup {FAILED_ADDR}
    BY FindType DEF TypeInv, RamType
<1>1. IsFlash(sector')
    <2>1. sector' = IF bad THEN Marked(sector, Find(k), "DELETED") ELSE sector
        BY DEF kv_get
    <2>2. QED BY <1>a, <2>1, MarkedFacts DEF TypeInv, IsMarked, IsPatched, Status
<1>2. RamType'
    <2>1. cache' \in [Key -> Addr \cup {FAILED_ADDR}]
        BY <1>a DEF kv_get, TypeInv, RamType
    <2>2. QED BY <2>1 DEF kv_get, TypeInv, RamType
<1>3. OpType'
    BY DEF kv_get, TypeInv, OpType, SetPc, GcPc, Writing
<1>4. GcType'
    BY DEF kv_get, GcType, GcPc, Moving
<1>5. QED BY <1>1, <1>2, <1>3, <1>4 DEF TypeInv

LEMMA GcBeginType ==
    ASSUME TypeInv, GcBegin
    PROVE  TypeInv'

<1>a. oldest_addr \in Sector /\ empty_kv \in Addr /\ sector[oldest_addr].dirty \in DirtyMark
    BY DEF TypeInv, RamType, IsFlash, IsSector
<1>1. IsFlash(sector')
    <2>1. sector' \in {sector, Dirtied(sector, oldest_addr, "GC")}
        BY DEF GcBegin
    <2>2. QED BY <1>a, <2>1, DirtiedFacts DEF TypeInv, IsDirtied, DirtyMark
<1>2. RamType'
    BY <1>a DEF GcBegin, TypeInv, RamType, GcPc, SECTOR_HDR_DATA_SIZE
<1>3. OpType'
    BY DEF GcBegin, TypeInv, OpType, SetPc, GcPc, Writing
<1>4. GcType'
    BY <1>a DEF GcBegin, GcType, GcPc, Moving
<1>5. QED BY <1>1, <1>2, <1>3, <1>4 DEF TypeInv

LEMMA FromKept ==
    ASSUME oldest_addr \in Sector, oldest_addr' = oldest_addr, KeepsLen(sector', sector),
           gc.off \in DOMAIN From.kv
    PROVE  /\ gc.off \in DOMAIN From'.kv
           /\ From'.kv[gc.off].len = From.kv[gc.off].len
BY DEF KeepsLen, From

LEMMA MovedLen ==
    ASSUME TypeInv, gc.off \in DOMAIN From.kv
    PROVE  /\ From.kv[gc.off] \in KvRecord /\ From.kv[gc.off].len \in Nat
           /\ gc.off \in 1..(sec_size - KV_HDR_DATA_SIZE) /\ Room(gc.off, From.kv[gc.off].len)
           /\ Room(SECTOR_HDR_DATA_SIZE, From.kv[gc.off].len)
           /\ Moved \in Addr /\ SecOf(Moved) = oldest_addr /\ OffOf(Moved) = gc.off
<1>1. oldest_addr \in Sector /\ IsFlash(sector)
    BY DEF TypeInv, RamType
<1>2. QED BY <1>1, SectorFacts, Sizes, AddrOfFacts DEF From, Moved

LEMMA GcPrepareType ==
    ASSUME TypeInv, GcPrepare
    PROVE  TypeInv'

<1>a. /\ oldest_addr \in Sector /\ gc.next \in Addr /\ SecOf(gc.next) \in Sector
      /\ gc.off \in DOMAIN From.kv /\ IsFlash(sector)
    BY AddrFacts DEF GcPrepare, TypeInv, RamType, GcType, GcPc, AtEnd
<1>b. /\ Moved \in Addr /\ From.kv[gc.off].len \in Nat
      /\ OffOf(gc.next) \in 1..(sec_size - KV_HDR_DATA_SIZE)
    BY <1>a, MovedLen, AddrFacts
<1>c. IsFlash(sector') /\ KeepsLen(sector', sector)
    <2>1. sector' \in {sector, Stored(sector, SecOf(gc.next), "FULL"), Marked(sector, Moved, "PRE_DELETE")}
        BY DEF GcPrepare, PreDeleted
    <2>2. CASE sector' = sector
        BY <1>a, <2>2, Kept
    <2>3. CASE sector' = Stored(sector, SecOf(gc.next), "FULL")
        <3>1. IsStored(sector', sector, SecOf(gc.next), "FULL")
            BY <1>a, <2>3, StoredFacts DEF StoreMark
        <3>2. IsFlash(sector')
            BY <3>1 DEF IsStored
        <3>3. KeepsLen(sector', sector)
            BY <3>1, Kept
        <3>4. QED BY <3>2, <3>3
    <2>4. CASE sector' = Marked(sector, Moved, "PRE_DELETE")
        <3>1. IsMarked(sector', sector, Moved, "PRE_DELETE")
            BY <1>a, <1>b, <2>4, MarkedFacts DEF Status
        <3>2. IsFlash(sector')
            BY <3>1 DEF IsMarked, IsPatched
        <3>3. KeepsLen(sector', sector)
            BY <3>1, Kept
        <3>4. QED BY <3>2, <3>3
    <2>5. QED BY <2>1, <2>2, <2>3, <2>4
<1>1. IsFlash(sector')
    BY <1>c
<1>2. RamType'
    BY DEF GcPrepare, TypeInv, RamType, GcPc, volatile
<1>3. OpType'
    BY DEF GcPrepare, TypeInv, OpType, SetPc, GcPc, Writing, volatile
<1>4. GcType'
    <2>1. gc.off \in DOMAIN From'.kv /\ From'.kv[gc.off].len = From.kv[gc.off].len
        BY <1>a, <1>c, FromKept DEF GcPrepare
    <2>2. pc' = "gc_header" => Room(OffOf(gc.next), From.kv[gc.off].len)
        BY <1>b, Sizes DEF GcPrepare, Room, KV_HDR_DATA_SIZE
    <2>3. pc' \in {"gc_next", "gc_header"} /\ gc' = gc
        BY DEF GcPrepare, volatile
    <2>4. QED BY <1>a, <2>1, <2>2, <2>3 DEF GcType, GcPc, Moving
<1>5. QED BY <1>1, <1>2, <1>3, <1>4 DEF TypeInv

LEMMA GcNextSectorType ==
    ASSUME TypeInv, GcNextSector
    PROVE  TypeInv'

<1> DEFINE to == get_next_sec(SecOf(gc.next))
<1>a. /\ oldest_addr \in Sector /\ gc.next \in Addr /\ to \in Sector
      /\ gc.off \in DOMAIN From.kv /\ IsFlash(sector) /\ sector[to].dirty \in DirtyMark
    BY AddrFacts, NextSec DEF GcNextSector, TypeInv, RamType, GcType, GcPc, IsFlash, IsSector
<1>b. /\ gc'.next = AddrOf(to, SECTOR_HDR_DATA_SIZE) /\ gc'.next \in Addr
      /\ OffOf(gc'.next) = SECTOR_HDR_DATA_SIZE /\ gc'.off = gc.off
      /\ gc' \in [off : Nat, next : Addr \cup {0}, dirty : DirtyMark]
    BY <1>a, AddrOfFacts, FirstOff DEF GcNextSector, TypeInv, RamType
<1>c. IsFlash(sector') /\ KeepsLen(sector', sector)
    <2>1. sector' \in {sector, Stored(sector, to, "USING")}
        BY DEF GcNextSector
    <2>2. CASE sector' = sector
        BY <1>a, <2>2, Kept
    <2>3. CASE sector' = Stored(sector, to, "USING")
        <3>1. IsStored(sector', sector, to, "USING")
            BY <1>a, <2>3, StoredFacts DEF StoreMark
        <3>2. IsFlash(sector')
            BY <3>1 DEF IsStored
        <3>3. KeepsLen(sector', sector)
            BY <3>1, Kept
        <3>4. QED BY <3>2, <3>3
    <2>4. QED BY <2>1, <2>2, <2>3
<1>1. IsFlash(sector')
    BY <1>c
<1>2. RamType'
    BY <1>b DEF GcNextSector, TypeInv, RamType, GcPc
<1>3. OpType'
    BY DEF GcNextSector, TypeInv, OpType, SetPc, GcPc, Writing
<1>4. GcType'
    <2>1. gc.off \in DOMAIN From'.kv
        BY <1>a, <1>c, FromKept DEF GcNextSector
    <2>2. pc' = "gc_pre_delete"
        BY DEF GcNextSector
    <2>3. QED BY <1>b, <2>1, <2>2 DEF GcType, GcPc, Moving
<1>5. QED BY <1>1, <1>2, <1>3, <1>4 DEF TypeInv

LEMMA GcPreDeleteType ==
    ASSUME TypeInv, GcPreDelete
    PROVE  TypeInv'

<1>a. /\ oldest_addr \in Sector /\ gc.next \in Addr /\ IsFlash(sector)
      /\ gc.off \in DOMAIN From.kv /\ OffOf(gc.next) = SECTOR_HDR_DATA_SIZE
    BY DEF GcPreDelete, TypeInv, RamType, GcType, GcPc
<1>b. Moved \in Addr /\ Room(SECTOR_HDR_DATA_SIZE, From.kv[gc.off].len)
    BY <1>a, MovedLen
<1>c. IsFlash(sector') /\ KeepsLen(sector', sector)
    <2>1. IsMarked(sector', sector, Moved, "PRE_DELETE")
        BY <1>a, <1>b, MarkedFacts DEF GcPreDelete, PreDeleted, Status
    <2>2. IsFlash(sector')
        BY <2>1 DEF IsMarked, IsPatched
    <2>3. KeepsLen(sector', sector)
        BY <2>1, Kept
    <2>4. QED BY <2>2, <2>3
<1>1. IsFlash(sector')
    BY <1>c
<1>2. RamType'
    BY DEF GcPreDelete, TypeInv, RamType, GcPc, volatile
<1>3. OpType'
    BY DEF GcPreDelete, TypeInv, OpType, SetPc, GcPc, Writing, volatile
<1>4. GcType'
    <2>1. gc.off \in DOMAIN From'.kv /\ From'.kv[gc.off].len = From.kv[gc.off].len
        BY <1>a, <1>c, FromKept DEF GcPreDelete
    <2>2. pc' = "gc_header" /\ gc' = gc
        BY DEF GcPreDelete, volatile
    <2>3. QED BY <1>a, <1>b, <2>1, <2>2 DEF GcType, GcPc, Moving
<1>5. QED BY <1>1, <1>2, <1>3, <1>4 DEF TypeInv

LEMMA GcWriteType ==
    ASSUME TypeInv, GcWrite
    PROVE  TypeInv'

<1> DEFINE rec == [From.kv[gc.off] EXCEPT !.status = "PRE_WRITE"]
<1>a. /\ oldest_addr \in Sector /\ gc.next \in Addr /\ IsFlash(sector)
      /\ gc.off \in DOMAIN From.kv /\ Room(OffOf(gc.next), From.kv[gc.off].len)
    BY DEF GcWrite, TypeInv, RamType, GcType, GcPc
<1>b. rec \in KvRecord /\ rec.len = From.kv[gc.off].len
    BY <1>a, MovedLen DEF KvRecord, Status
<1>c. IsWritten(sector', sector, SecOf(gc.next), OffOf(gc.next), rec)
    BY <1>a, <1>b, RecordedFacts DEF GcWrite
<1> HIDE DEF rec
<1>1. IsFlash(sector')
    BY <1>c DEF IsWritten
<1>2. RamType'
    BY DEF GcWrite, TypeInv, RamType, GcPc, volatile
<1>3. OpType'
    BY DEF GcWrite, TypeInv, OpType, SetPc, GcPc, Writing, volatile
<1>4. GcType'
    <2>1. gc.off \in DOMAIN From'.kv /\ From'.kv[gc.off].len = From.kv[gc.off].len
        <3>1. CASE SecOf(gc.next) = oldest_addr
            BY <1>a, <1>b, <1>c, <3>1 DEF IsWritten, From, GcWrite
        <3>2. CASE SecOf(gc.next) # oldest_addr
            BY <1>a, <1>b, <1>c, <3>2 DEF IsWritten, From, GcWrite
        <3>3. QED BY <3>1, <3>2
    <2>2. pc' = "gc_commit" /\ gc' = gc
        BY DEF GcWrite, volatile
    <2>3. QED BY <1>a, <2>1, <2>2 DEF GcType, GcPc, Moving
<1>5. QED BY <1>1, <1>2, <1>3, <1>4 DEF TypeInv

LEMMA GcCommitType ==
    ASSUME TypeInv, GcCommit
    PROVE  TypeInv'

<1>a. /\ oldest_addr \in Sector /\ gc.next \in Addr /\ IsFlash(sector)
      /\ gc.off \in DOMAIN From.kv /\ Room(OffOf(gc.next), From.kv[gc.off].len)
    BY DEF GcCommit, TypeInv, RamType, GcType, GcPc, Moving
<1>b. IsFlash(sector') /\ KeepsLen(sector', sector)
    <2>1. IsMarked(sector', sector, gc.next, "WRITE")
        BY <1>a, MarkedFacts DEF GcCommit, Status
    <2>2. IsFlash(sector')
        BY <2>1 DEF IsMarked, IsPatched
    <2>3. KeepsLen(sector', sector)
        BY <2>1, Kept
    <2>4. QED BY <2>2, <2>3
<1>1. IsFlash(sector')
    BY <1>b
<1>2. RamType'
    BY DEF GcCommit, TypeInv, RamType, GcPc, volatile
<1>3. OpType'
    BY DEF GcCommit, TypeInv, OpType, SetPc, GcPc, Writing, volatile
<1>4. GcType'
    <2>1. gc.off \in DOMAIN From'.kv /\ From'.kv[gc.off].len = From.kv[gc.off].len
        BY <1>a, <1>b, FromKept DEF GcCommit
    <2>2. pc' = "gc_delete" /\ gc' = gc
        BY DEF GcCommit, volatile
    <2>3. QED BY <1>a, <2>1, <2>2 DEF GcType, GcPc, Moving
<1>5. QED BY <1>1, <1>2, <1>3, <1>4 DEF TypeInv

LEMMA GcDeleteType ==
    ASSUME TypeInv, GcDelete
    PROVE  TypeInv'

<1>a. /\ oldest_addr \in Sector /\ gc.next \in Addr /\ IsFlash(sector)
      /\ gc.off \in DOMAIN From.kv /\ Room(OffOf(gc.next), From.kv[gc.off].len)
    BY DEF GcDelete, TypeInv, RamType, GcType, GcPc, Moving
<1>b. Moved \in Addr
    BY <1>a, MovedLen
<1>c. IsFlash(sector') /\ KeepsLen(sector', sector)
    <2>1. IsMarked(sector', sector, Moved, "DELETED")
        BY <1>a, <1>b, MarkedFacts DEF GcDelete, Status
    <2>2. IsFlash(sector')
        BY <2>1 DEF IsMarked, IsPatched
    <2>3. KeepsLen(sector', sector)
        BY <2>1, Kept
    <2>4. QED BY <2>2, <2>3
<1>1. IsFlash(sector')
    BY <1>c
<1>2. RamType'
    <2>1. cache' \in [Key -> Addr \cup {FAILED_ADDR}]
        BY <1>a DEF GcDelete, Cached, TypeInv, RamType
    <2>2. QED BY <2>1 DEF GcDelete, TypeInv, RamType, GcPc
<1>3. OpType'
    BY DEF GcDelete, TypeInv, OpType, SetPc, GcPc, Writing
<1>4. GcType'
    <2>1. gc.off \in DOMAIN From'.kv /\ From'.kv[gc.off].len = From.kv[gc.off].len
        BY <1>a, <1>c, FromKept DEF GcDelete
    <2>2. pc' = "gc_dirty" /\ gc' = gc
        BY DEF GcDelete
    <2>3. QED BY <1>a, <2>1, <2>2 DEF GcType, GcPc, Moving
<1>5. QED BY <1>1, <1>2, <1>3, <1>4 DEF TypeInv

LEMMA GcDirtyType ==
    ASSUME TypeInv, GcDirty
    PROVE  TypeInv'

<1>a. /\ oldest_addr \in Sector /\ gc.next \in Addr /\ IsFlash(sector)
      /\ gc.off \in DOMAIN From.kv /\ Room(OffOf(gc.next), From.kv[gc.off].len)
      /\ SecOf(gc.next) \in Sector
    BY AddrFacts DEF GcDirty, TypeInv, RamType, GcType, GcPc, Moving
<1>b. From.kv[gc.off].len \in Nat
    BY <1>a, MovedLen
<1>c. gc.next + From.kv[gc.off].len \in Addr /\ gc.off + From.kv[gc.off].len \in Nat
    BY <1>a, <1>b, AddrPlus DEF TypeInv, RamType
<1>1. IsFlash(sector')
    <2>1. sector' \in {sector, Dirtied(sector, SecOf(gc.next), "TRUE")}
        BY DEF GcDirty
    <2>2. IsDirtied(Dirtied(sector, SecOf(gc.next), "TRUE"), sector, SecOf(gc.next), "TRUE")
        BY <1>a, DirtiedFacts DEF DirtyMark
    <2>3. QED BY <1>a, <2>1, <2>2 DEF IsDirtied
<1>2. RamType'
    BY <1>c DEF GcDirty, TypeInv, RamType, GcPc
<1>3. OpType'
    BY DEF GcDirty, TypeInv, OpType, SetPc, GcPc, Writing
<1>4. GcType'
    BY <1>c DEF GcDirty, GcType, GcPc, Moving, TypeInv, RamType
<1>5. QED BY <1>1, <1>2, <1>3, <1>4 DEF TypeInv

LEMMA GcEraseType ==
    ASSUME TypeInv, GcErase
    PROVE  TypeInv'

<1>a. oldest_addr \in Sector /\ gc.next \in Addr /\ IsFlash(sector)
    BY DEF GcErase, TypeInv, RamType, GcType, GcPc
<1>1. IsFlash(sector')
    BY <1>a, Formatted, ReplacedFacts DEF GcErase
<1>2. RamType'
    BY DEF GcErase, TypeInv, RamType, GcPc, volatile
<1>3. OpType'
    BY DEF GcErase, TypeInv, OpType, SetPc, GcPc, Writing, volatile
<1>4. GcType'
    BY <1>a DEF GcErase, GcType, GcPc, Moving, volatile
<1>5. QED BY <1>1, <1>2, <1>3, <1>4 DEF TypeInv

LEMMA GcFormatType ==
    ASSUME TypeInv, GcFormat
    PROVE  TypeInv'

<1>a. oldest_addr \in Sector /\ gc.next \in Addr /\ IsFlash(sector) /\ get_next_sec(oldest_addr) \in Sector
      /\ back \in {"alloc", "check"}
    BY NextSec DEF GcFormat, TypeInv, RamType, OpType, GcType, GcPc
<1>1. IsFlash(sector')
    BY <1>a, Formatted, ReplacedFacts DEF GcFormat
<1>2. RamType'
    BY <1>a DEF GcFormat, TypeInv, RamType, NoGc, DirtyMark, SetPc
<1>3. OpType'
    BY <1>a DEF GcFormat, TypeInv, OpType, SetPc, GcPc, Writing
<1>4. GcType'
    BY <1>a DEF GcFormat, GcType, GcPc, Moving
<1>5. QED BY <1>1, <1>2, <1>3, <1>4 DEF TypeInv

LEMMA ScanType ==
    ASSUME NEW sec, IsFlash(sec)
    PROVE  /\ Scan(sec).oldest \in Sector \cup {FAILED_ADDR}
           /\ Scan(sec).empty \in Addr \cup {FAILED_ADDR}
<1>1. ASSUME NEW S, S \subseteq Sector, S # {}
      PROVE  Max(S) \in S
    <2>1. SecNum - 1 \in Nat /\ S \subseteq 0..(SecNum - 1)
        BY <1>1, Sizes DEF Sector
    <2>2. QED BY <1>1, <2>1, MaxIsGreatest
<1>2. ASSUME NEW s \in Sector, End(sec, s) < sec_size - KV_HDR_DATA_SIZE
      PROVE  AddrOf(s, End(sec, s)) \in Addr
    <2>1. End(sec, s) \in 1..(sec_size - KV_HDR_DATA_SIZE)
        BY <1>2, EndType, Sizes DEF KV_HDR_DATA_SIZE
    <2>2. QED BY <2>1, AddrOfFacts
<1> DEFINE headed == {s \in Sector : sec[s].store # "UNUSED"}
           begins == {s \in headed :
                        /\ sec[s].store \in {"USING", "FULL"}
                        /\ \A t \in headed : \/ t >= s \/ sec[t].store = "EMPTY"
                                             \/ \E u \in headed : t < u /\ u < s}
           in_gc  == {s \in headed : sec[s].dirty = "GC"}
           filling == {s \in headed : /\ sec[s].store = "USING" /\ sec[s].dirty = "TRUE"
                                      /\ End(sec, s) < sec_size - KV_HDR_DATA_SIZE}
           runs == begins \cup in_gc
<1>3. /\ Scan(sec).oldest = IF runs = {} THEN FAILED_ADDR ELSE Max(runs)
      /\ Scan(sec).empty = IF filling = {} THEN FAILED_ADDR
                           ELSE AddrOf(Max(filling), End(sec, Max(filling)))
    BY DEF Scan
<1>4. runs \subseteq Sector /\ filling \subseteq Sector
    OBVIOUS
<1>5. Scan(sec).oldest \in Sector \cup {FAILED_ADDR}
    <2> HIDE DEF runs
    <2> QED BY <1>1, <1>3, <1>4
<1>6. Scan(sec).empty \in Addr \cup {FAILED_ADDR}
    <2>1. CASE filling = {}
        BY <1>3, <2>1
    <2>2. CASE filling # {}
        <3>1. PICK s \in filling : s = Max(filling)
            BY <1>1, <1>4, <2>2
        <3>2. AddrOf(s, End(sec, s)) \in Addr
            BY <1>2, <3>1
        <3>3. QED BY <1>3, <2>2, <3>1, <3>2
    <2>3. QED BY <2>1, <2>2
<1>7. QED BY <1>5, <1>6

LEMMA StartType ==
    ASSUME TypeInv, flashdb_init
    PROVE  TypeInv'

<1> DEFINE r == Scan(sector)
           first_use  == r.using = 0 /\ r.full = 0
           format_all == ~first_use /\ (r.empty = FAILED_ADDR \/ r.oldest = FAILED_ADDR
                                        \/ r.using # 1)
<1>a. IsFlash(sector) /\ r.oldest \in Sector \cup {FAILED_ADDR} /\ r.empty \in Addr \cup {FAILED_ADDR}
    BY ScanType DEF TypeInv
<1>b. 0 \in Sector /\ SECTOR_HDR_DATA_SIZE \in Addr
    <2>1. 0 \in Sector
        BY Sizes DEF Sector
    <2>2. AddrOf(0, SECTOR_HDR_DATA_SIZE) \in Addr
        BY <2>1, AddrOfFacts, FirstOff
    <2>3. AddrOf(0, SECTOR_HDR_DATA_SIZE) = SECTOR_HDR_DATA_SIZE
        BY Sizes DEF AddrOf, SECTOR_HDR_DATA_SIZE
    <2>4. QED BY <2>1, <2>2, <2>3
<1>c. /\ sector' = IF format_all THEN [s \in Sector |-> Empty] ELSE Headed(sector)
      /\ IF first_use \/ format_all
         THEN empty_kv' = SECTOR_HDR_DATA_SIZE /\ oldest_addr' = 0
         ELSE empty_kv' = r.empty /\ oldest_addr' = r.oldest
      /\ \/ pc' = "gc" /\ back' = "check"
         \/ pc' = "check" /\ back' = back
      /\ pc = "init" /\ UNCHANGED <<cache, op, ctx, retry, gc, reply, faults>>
    BY DEF flashdb_init
<1> HIDE DEF r
<1>1. IsFlash(sector')
    <2>1. sector' = [s \in Sector |-> IF format_all \/ sector[s].store = "UNUSED" THEN Empty ELSE sector[s]]
        BY <1>c DEF Headed
    <2>2. QED BY <1>a, <2>1, Formatted DEF IsFlash
<1>2. RamType'
    <2>1. oldest_addr' \in Sector /\ empty_kv' \in Addr
        BY <1>a, <1>b, <1>c
    <2>2. QED BY <1>c, <2>1 DEF TypeInv, RamType, GcPc
<1>3. OpType'
    BY <1>c DEF TypeInv, OpType, SetPc, GcPc, Writing
<1>4. GcType'
    BY <1>c DEF GcType, GcPc, Moving
<1>5. QED BY <1>1, <1>2, <1>3, <1>4 DEF TypeInv

LEMMA CheckType ==
    ASSUME TypeInv, check_all_kv
    PROVE  TypeInv'

<1>a. IsFlash(sector) /\ oldest_addr \in Sector
    BY DEF TypeInv, RamType
<1>1. IsFlash(sector')
    <2>1. CASE Unfinished = {}
        BY <1>a, <2>1 DEF check_all_kv
    <2>2. CASE Unfinished # {}
        <3>1. \A p \in Places : p \in Nat /\ AtPlace(p) \in Addr
            BY <1>a, PlacesFacts DEF IsPlace
        <3>2. Unfinished \subseteq Places
            BY DEF Unfinished
        <3>3. Unfinished \subseteq Nat
            BY <3>1, <3>2
        <3>4. Min(Unfinished) \in Unfinished
            BY <2>2, <3>3, MinIsLeast
        <3>5. AtPlace(Min(Unfinished)) \in Addr
            BY <3>1, <3>2, <3>4
        <3>6. QED BY <1>a, <2>2, <3>5, MarkedFacts DEF check_all_kv, IsMarked, IsPatched, Status
    <2>3. QED BY <2>1, <2>2
<1>2. RamType'
    BY DEF check_all_kv, TypeInv, RamType, volatile
<1>3. OpType'
    BY DEF check_all_kv, TypeInv, OpType, SetPc, GcPc, Writing, volatile
<1>4. GcType'
    BY DEF check_all_kv, GcType, GcPc, Moving
<1>5. QED BY <1>1, <1>2, <1>3, <1>4 DEF TypeInv

LEMMA TypeInit == Init => TypeInv
<1> SUFFICES ASSUME Init PROVE TypeInv
    OBVIOUS
<1>1. 0 \in Sector /\ SECTOR_HDR_DATA_SIZE \in Addr
    <2>1. 0 \in Sector
        BY Sizes DEF Sector
    <2>2. AddrOf(0, SECTOR_HDR_DATA_SIZE) \in Addr
        BY <2>1, AddrOfFacts, FirstOff
    <2>3. AddrOf(0, SECTOR_HDR_DATA_SIZE) = SECTOR_HDR_DATA_SIZE
        BY Sizes DEF AddrOf, SECTOR_HDR_DATA_SIZE
    <2>4. QED BY <2>1, <2>2, <2>3
<1>2. IsFlash(sector)
    BY Formatted DEF Init, IsFlash
<1>3. RamType
    BY <1>1 DEF Init, RamType, NoCtx, NoGc, DirtyMark
<1>4. OpType
    BY DEF Init, OpType, SetPc, GcPc, Writing
<1>5. GcType
    BY DEF Init, GcType, GcPc, Moving
<1>6. QED BY <1>2, <1>3, <1>4, <1>5 DEF TypeInv

LEMMA TypeStutter == TypeInv /\ UNCHANGED vars => TypeInv'
BY DEF TypeInv, RamType, OpType, GcType, vars, volatile, From

LEMMA TypeStep == TypeInv /\ [Next]_vars => TypeInv'
<1> SUFFICES ASSUME TypeInv, [Next]_vars PROVE TypeInv'
    OBVIOUS
<1>1. CASE \E k \in Key, v \in Value \cup {None} : kv_set(k, v)
    BY <1>1, SetType
<1>2. CASE \E k \in Key : kv_get(k)
    BY <1>2, GetType
<1>3. CASE alloc_kv \/ alloc_kv_next \/ FindOld \/ WriteHeader \/ MarkDirty
    BY <1>3, AllocType, AllocNextType, FindOldType, WriteHeaderType, MarkDirtyType
<1>4. CASE WriteData \/ WriteFails \/ Commit \/ DeleteOld
    BY <1>4, WriteDataType, WriteFailsType, CommitType, DeleteOldType
<1>5. CASE GcBegin \/ GcSkip \/ GcPrepare \/ GcNextSector \/ GcPreDelete \/ GcWrite
    BY <1>5, GcBeginType, GcSkipType, GcPrepareType, GcNextSectorType, GcPreDeleteType,
       GcWriteType
<1>6. CASE GcCommit \/ GcDelete \/ GcDirty \/ GcErase \/ GcFormat
    BY <1>6, GcCommitType, GcDeleteType, GcDirtyType, GcEraseType, GcFormatType
<1>7. CASE Reset \/ flashdb_init \/ check_all_kv
    BY <1>7, ResetType, StartType, CheckType
<1>8. CASE UNCHANGED vars
    BY <1>8, TypeStutter
<1>9. QED BY <1>1, <1>2, <1>3, <1>4, <1>5, <1>6, <1>7, <1>8 DEF Next

LEMMA TypesOfRecords == TypeInv => TypeOK
<1> SUFFICES ASSUME TypeInv PROVE TypeOK
    OBVIOUS
<1>1. oldest_addr \in Sector /\ empty_kv \in 0..max_size
    <2>1. PICK s \in Sector, o \in 1..(sec_size - KV_HDR_DATA_SIZE) : empty_kv = AddrOf(s, o)
        BY DEF TypeInv, RamType, Addr
    <2>2. /\ s \in Nat /\ o \in Nat /\ o <= sec_size /\ s + 1 <= SecNum
          /\ sec_size \in Nat /\ SecNum \in Nat
        BY Sizes DEF Sector, KV_HDR_DATA_SIZE
    <2>3. (s + 1) * sec_size <= SecNum * sec_size
        BY <2>2, SMT
    <2>4. (s + 1) * sec_size = s * sec_size + sec_size /\ s * sec_size \in Nat
          /\ SecNum * sec_size \in Nat
        BY <2>2, SMT
    <2>5. QED BY <2>1, <2>2, <2>3, <2>4 DEF AddrOf, max_size, TypeInv, RamType
<1>2. ASSUME NEW s \in Sector
      PROVE  /\ sector[s].store \in {"UNUSED", "EMPTY", "USING", "FULL"}
             /\ sector[s].dirty \in {"UNUSED", "FALSE", "TRUE", "GC"}
    BY DEF TypeInv, IsFlash, IsSector, StoreMark, DirtyMark
<1>3. ASSUME NEW s \in Sector, NEW o \in DOMAIN sector[s].kv
      PROVE  /\ o >= SECTOR_HDR_DATA_SIZE /\ o + sector[s].kv[o].len <= sec_size
             /\ sector[s].kv[o].status \in Status
    <2>1. PICK rec \in KvRecord : rec = sector[s].kv[o]
        BY SectorFacts DEF TypeInv
    <2>2. o \in Nat /\ o >= 1 /\ Room(o, rec.len) /\ rec.len \in Nat
        BY <2>1, SectorFacts DEF TypeInv
    <2>3. QED BY <2>1, <2>2, Sizes DEF Room, KV_HDR_DATA_SIZE, SECTOR_HDR_DATA_SIZE, KvRecord
<1>4. QED BY <1>1, <1>2, <1>3 DEF TypeOK

(* Whatever is reset or fails: the marks of a sector are marks, a record   *)
(* lies within its sector, and oldest_addr and empty_kv are in the flash.  *)
THEOREM TypeCorrect == Spec => []TypeOK
<1>1. Spec => []TypeInv
    BY TypeInit, TypeStep, PTL DEF Spec
<1>2. QED BY <1>1, TypesOfRecords, PTL

-----------------------------------------------------------------------------
(* The layout: what keeps the records in their places.                     *)

SameKv(kv2, kv) ==
    DOMAIN kv2 = DOMAIN kv /\ \A o \in DOMAIN kv : kv2[o].len = kv[o].len

LEMMA SameKvFacts ==
    ASSUME NEW kv2, NEW kv, SameKv(kv2, kv)
    PROVE  /\ Tiled(kv) => Tiled(kv2)
           /\ \A e : Follow(kv, e) => Follow(kv2, e)
           /\ \A e : FreeAt(kv, e) => FreeAt(kv2, e)
<1>1. ASSUME NEW e, Follow(kv, e) PROVE Follow(kv2, e)
    <2>1. CASE e = SECTOR_HDR_DATA_SIZE
        BY <2>1 DEF Follow
    <2>2. CASE e # SECTOR_HDR_DATA_SIZE
        <3>1. PICK p \in DOMAIN kv : p + kv[p].len = e
            BY <1>1, <2>2 DEF Follow
        <3>2. p \in DOMAIN kv2 /\ kv2[p].len = kv[p].len
            BY <3>1 DEF SameKv
        <3>3. p + kv2[p].len = e
            BY <3>1, <3>2
        <3>4. QED BY <3>2, <3>3 DEF Follow
    <2>3. QED BY <2>1, <2>2
<1>2. ASSUME NEW e, FreeAt(kv, e) PROVE FreeAt(kv2, e)
    <2>1. Follow(kv2, e)
        BY <1>1, <1>2 DEF FreeAt
    <2>2. ASSUME NEW o \in DOMAIN kv2 PROVE o + kv2[o].len <= e
        BY <1>2, <2>2 DEF FreeAt, SameKv
    <2>3. QED BY <2>1, <2>2 DEF FreeAt
<1>3. ASSUME Tiled(kv) PROVE Tiled(kv2)
    <2>1. ASSUME NEW o \in DOMAIN kv2
          PROVE  o \in Ends /\ Follow(kv2, o)
                 /\ \A p \in DOMAIN kv2 : o < p => o + kv2[o].len <= p
        <3>1. o \in DOMAIN kv /\ kv2[o].len = kv[o].len /\ DOMAIN kv2 = DOMAIN kv
            BY <2>1 DEF SameKv
        <3>2. o \in Ends /\ Follow(kv, o) /\ \A p \in DOMAIN kv : o < p => o + kv[o].len <= p
            BY <1>3, <3>1 DEF Tiled
        <3>3. QED BY <1>1, <3>1, <3>2
    <2>2. QED BY <2>1 DEF Tiled
<1>4. QED BY <1>1, <1>2, <1>3

(* A step that leaves the sectors but the one being filled as they are.    *)
SameSector(new, old) ==
    /\ new.store = old.store /\ new.dirty = old.dirty /\ SameKv(new.kv, old.kv)
    /\ old = Empty => new = Empty

LEMMA SameItself == \A s : SameSector(s, s)
BY DEF SameSector, SameKv

LEMMA RingStep ==
    ASSUME NEW c, NEW cur \in Sector, Ring(c, cur), oldest_addr' = oldest_addr,
           pc # "gc_format", pc \in GcPc \cup {"init"} => pc' \in GcPc \cup {"init"},
           Dist(oldest_addr, cur) = c, c \in Nat,
           \A t \in Sector : t # cur => SameSector(sector'[t], sector[t]),
           Tiled(sector'[cur].kv),
           sector'[cur].dirty = "GC" => sector[cur].dirty = "GC"
    PROVE  Ring(c, cur)'
<1> SUFFICES ASSUME NEW s \in Sector
             PROVE  /\ Tiled(sector'[s].kv)
                    /\ Dist(oldest_addr, s) < c =>
                         sector'[s].store = "FULL" /\ sector'[s].dirty \in {"TRUE", "GC"}
                    /\ Dist(oldest_addr, s) = c => s = cur
                    /\ Dist(oldest_addr, s) > c => sector'[s] = Empty
                    /\ sector'[s].dirty = "GC" =>
                         s = oldest_addr /\ pc' \in GcPc \cup {"init"} /\ c > 0
    BY DEF Ring
<1>1. /\ Tiled(sector[s].kv)
      /\ Dist(oldest_addr, s) < c =>
           sector[s].store = "FULL" /\ sector[s].dirty \in {"TRUE", "GC"}
      /\ Dist(oldest_addr, s) = c => s = cur
      /\ Dist(oldest_addr, s) > c => sector[s] = Empty
      /\ sector[s].dirty = "GC" =>
           s = oldest_addr /\ pc \in GcPc \cup {"init"} /\ c > 0
    BY DEF Ring
<1>2. CASE s = cur
    BY <1>1, <1>2
<1>3. CASE s # cur
    <2>1. SameSector(sector'[s], sector[s])
        BY <1>3
    <2>2. Tiled(sector'[s].kv)
        BY <1>1, <2>1, SameKvFacts DEF SameSector
    <2>3. QED BY <1>1, <2>1, <2>2 DEF SameSector
<1>4. QED BY <1>2, <1>3

(* A step that changes no lengths and no marks.                            *)
LEMMA RingSame ==
    ASSUME NEW c, NEW cur \in Sector, Ring(c, cur), oldest_addr' = oldest_addr,
           pc # "gc_format", pc \in GcPc \cup {"init"} => pc' \in GcPc \cup {"init"},
           Dist(oldest_addr, cur) = c, c \in Nat,
           \A t \in Sector : SameSector(sector'[t], sector[t])
    PROVE  Ring(c, cur)'
<1>1. Tiled(sector[cur].kv)
    BY DEF Ring
<1>2. Tiled(sector'[cur].kv) /\ sector'[cur].dirty = sector[cur].dirty
    BY <1>1, SameKvFacts DEF SameSector
<1>3. QED BY <1>2, RingStep

LEMMA PatchedSame ==
    ASSUME NEW r, NEW sec, NEW s \in Sector, NEW off \in DOMAIN sec[s].kv, NEW rec,
           IsPatched(r, sec, s, off, rec)
    PROVE  \A t \in Sector : SameSector(r[t], sec[t])
<1>1. \A t \in Sector : /\ r[t].store = sec[t].store /\ r[t].dirty = sec[t].dirty
                        /\ SameKv(r[t].kv, sec[t].kv)
    BY DEF IsPatched, SameKv
<1>2. ASSUME NEW t \in Sector, sec[t] = Empty PROVE r[t] = Empty
    <2>1. t # s
        BY <1>2 DEF Empty
    <2>2. QED BY <1>2, <2>1 DEF IsPatched
<1>3. QED BY <1>1, <1>2 DEF SameSector

LEMMA EndsFacts == ClearOfTheLimits => Clear(Ends)
BY DEF ClearOfTheLimits, Ends

(* A record may be written where the last one ends.                        *)
LEMMA WrittenTiled ==
    ASSUME ClearOfTheLimits, IsFlash(sector), NEW s \in Sector, NEW e \in Nat,
           Tiled(sector[s].kv), FreeAt(sector[s].kv, e), NEW rec \in KvRecord,
           Room(e, rec.len), NEW r, IsWritten(r, sector, s, e, rec)
    PROVE  /\ Tiled(r[s].kv) /\ FreeAt(r[s].kv, e + rec.len)
           /\ e \notin DOMAIN sector[s].kv /\ e \in Ends
<1> DEFINE kv == sector[s].kv
           kv2 == r[s].kv
<1>1. /\ \A o \in DOMAIN kv : /\ o \in Nat /\ kv[o].len \in KvLen
                              /\ kv[o].len \in Nat /\ kv[o].len > 2
      /\ rec.len \in KvLen /\ rec.len \in Nat /\ rec.len > 2
    BY SectorFacts, Sizes DEF KvRecord, KV_HDR_DATA_SIZE
<1>2. /\ DOMAIN kv2 = DOMAIN kv \cup {e}
      /\ \A o \in DOMAIN kv2 : kv2[o] = IF o = e THEN rec ELSE kv[o]
    BY DEF IsWritten
<1>3. /\ \A o \in DOMAIN kv : o + kv[o].len <= e
      /\ e = SECTOR_HDR_DATA_SIZE \/ \E p \in DOMAIN kv : p + kv[p].len = e
    BY DEF FreeAt, Follow
<1>4. e \notin DOMAIN kv /\ \A o \in DOMAIN kv : o < e
    BY <1>1, <1>3
<1>5. \A o \in DOMAIN kv : /\ o \in Ends /\ Follow(kv, o)
                           /\ \A p \in DOMAIN kv : o < p => o + kv[o].len <= p
    BY DEF Tiled
<1>6. e \in Ends
    <2>1. Clear(Ends)
        BY EndsFacts
    <2>2. CASE e = SECTOR_HDR_DATA_SIZE
        BY <2>1, <2>2 DEF Clear
    <2>3. CASE e # SECTOR_HDR_DATA_SIZE
        <3>1. PICK p \in DOMAIN kv : p + kv[p].len = e
            BY <1>3, <2>3
        <3>2. PICK v \in Value : kv[p].len = Len[v]
            BY <1>1 DEF KvLen
        <3>3. p \in Ends /\ p + Len[v] = e
            BY <1>5, <3>1, <3>2
        <3>4. e < sec_size - KV_HDR_DATA_SIZE
            BY <1>1, Sizes DEF Room, KV_HDR_DATA_SIZE
        <3>5. QED BY <2>1, <3>3, <3>4 DEF Clear
    <2>4. QED BY <2>2, <2>3
<1> HIDE DEF kv, kv2
<1>7. ASSUME NEW o, Follow(kv, o) PROVE Follow(kv2, o)
    <2>1. CASE o = SECTOR_HDR_DATA_SIZE
        BY <2>1 DEF Follow
    <2>2. CASE o # SECTOR_HDR_DATA_SIZE
        <3>1. PICK p \in DOMAIN kv : p + kv[p].len = o
            BY <1>7, <2>2 DEF Follow
        <3>2. p \in DOMAIN kv2 /\ kv2[p] = kv[p]
            BY <1>2, <1>4
        <3>3. QED BY <3>1, <3>2 DEF Follow
    <2>3. QED BY <2>1, <2>2
<1>8. Follow(kv, e)
    BY <1>3 DEF Follow
<1>9. Tiled(kv2)
    <2>1. ASSUME NEW o \in DOMAIN kv2
          PROVE  /\ o \in Ends /\ Follow(kv2, o)
                 /\ \A p \in DOMAIN kv2 : o < p => o + kv2[o].len <= p
        <3>1. CASE o = e
            <4>1. \A p \in DOMAIN kv2 : ~(o < p)
                BY <1>1, <1>2, <1>4, <3>1
            <4>2. QED BY <1>6, <1>7, <1>8, <3>1, <4>1
        <3>2. CASE o # e
            <4>1. o \in DOMAIN kv /\ kv2[o] = kv[o]
                BY <1>2, <3>2
            <4>2. \A p \in DOMAIN kv2 : p \in DOMAIN kv \/ p = e
                BY <1>2
            <4>3. QED BY <1>3, <1>5, <1>7, <4>1, <4>2
        <3>3. QED BY <3>1, <3>2
    <2>2. QED BY <2>1 DEF Tiled
<1>10. FreeAt(kv2, e + rec.len)
    <2>1. e \in DOMAIN kv2 /\ kv2[e] = rec
        BY <1>2
    <2>2. Follow(kv2, e + rec.len)
        BY <2>1 DEF Follow
    <2>3. ASSUME NEW o \in DOMAIN kv2 PROVE o + kv2[o].len <= e + rec.len
        <3>1. CASE o = e
            BY <1>1, <2>1, <3>1
        <3>2. CASE o # e
            <4>1. o \in DOMAIN kv /\ kv2[o] = kv[o]
                BY <1>2, <2>3, <3>2
            <4>2. o + kv[o].len <= e /\ o \in Nat /\ kv[o].len \in Nat
                BY <1>1, <1>3, <4>1
            <4>3. QED BY <1>1, <4>1, <4>2
        <3>3. QED BY <3>1, <3>2
    <2>4. QED BY <2>2, <2>3 DEF FreeAt
<1>11. QED BY <1>4, <1>6, <1>9, <1>10 DEF kv, kv2

LEMMA LiveFacts ==
    ASSUME TypeInv, NEW a \in LiveAddr
    PROVE  /\ a \in Addr /\ SecOf(a) \in Sector /\ OffOf(a) \in DOMAIN sector[SecOf(a)].kv
           /\ KvAt(a) \in KvRecord /\ KvAt(a).status \in Live
<1>1. a \in Addr /\ LiveAt(SecOf(a), OffOf(a))
    BY DEF LiveAddr
<1>2. SecOf(a) \in Sector /\ OffOf(a) \in DOMAIN sector[SecOf(a)].kv
    BY <1>1, AddrFacts DEF LiveAt
<1>3. QED BY <1>1, <1>2, SectorFacts DEF TypeInv, KvAt, LiveAt

(* What a search finds is a valid record of the key.                       *)
LEMMA FindSound ==
    ASSUME TypeInv, LiveInv, NEW k \in Key, Find(k) # FAILED_ADDR
    PROVE  Find(k) \in LiveAddr /\ KvAt(Find(k)).key = k
<1>1. CASE cache[k] # FAILED_ADDR
    BY <1>1 DEF Find, LiveInv
<1>2. CASE cache[k] = FAILED_ADDR
    <2> DEFINE places == {p \in Places : /\ KvAt(AtPlace(p)).key = k
                                         /\ KvAt(AtPlace(p)).status \in Live}
    <2>1. places # {} /\ Find(k) = AtPlace(Min(places))
        BY <1>2 DEF Find, Scanned
    <2>2. IsFlash(sector) /\ oldest_addr \in Sector
        BY DEF TypeInv, RamType
    <2>3. ASSUME NEW p \in Places
          PROVE  /\ p \in Nat /\ AtPlace(p) \in Addr
                 /\ OffOf(AtPlace(p)) \in DOMAIN sector[SecOf(AtPlace(p))].kv
        <3>1. PICK n \in 0..(SecNum - 1) : \E o \in Walk(sector, Nth(n)) : IsPlace(p, n, o)
            BY <2>2, PlacesFacts
        <3>2. PICK o \in Walk(sector, Nth(n)) : IsPlace(p, n, o)
            BY <3>1
        <3>3. QED BY <3>2 DEF IsPlace
    <2>4. places \subseteq Nat
        BY <2>3
    <2>5. PICK p \in places : p = Min(places)
        BY <2>1, <2>4, MinIsLeast
    <2>6. /\ AtPlace(p) \in Addr /\ OffOf(AtPlace(p)) \in DOMAIN sector[SecOf(AtPlace(p))].kv
          /\ KvAt(AtPlace(p)).key = k /\ KvAt(AtPlace(p)).status \in Live
        BY <2>3, <2>5
    <2>7. AtPlace(p) \in LiveAddr
        BY <2>6 DEF LiveAddr, LiveAt, KvAt
    <2>8. QED BY <2>1, <2>5, <2>6, <2>7
<1>3. QED BY <1>1, <1>2

(* The marks of a record leave the layout as it is.                        *)
LEMMA MarkedSame ==
    ASSUME TypeInv, NEW a \in Addr, OffOf(a) \in DOMAIN sector[SecOf(a)].kv,
           NEW status \in Status, sector' = Marked(sector, a, status)
    PROVE  \A t \in Sector : SameSector(sector'[t], sector[t])
<1>1. IsMarked(sector', sector, a, status) /\ SecOf(a) \in Sector
    BY MarkedFacts, AddrFacts DEF TypeInv
<1>2. QED BY <1>1, PatchedSame DEF IsMarked

LEMMA LiveMarkedSame ==
    ASSUME TypeInv, NEW a \in LiveAddr, NEW status \in Status,
           sector' = Marked(sector, a, status)
    PROVE  \A t \in Sector : SameSector(sector'[t], sector[t])
BY LiveFacts, MarkedSame

LEMMA SetLayout ==
    ASSUME IInv, NEW k \in Key, NEW v \in Value \cup {None}, kv_set(k, v)
    PROVE  LayoutInv'
<1>1. PICK c \in 0..(SecNum - 1), w \in Addr : Layout(c, w)
    BY DEF IInv, LayoutInv
<1>2. /\ SecOf(w) \in Sector /\ oldest_addr \in Sector /\ IsFlash(sector)
      /\ c \in Nat /\ c < SecNum /\ Dist(oldest_addr, SecOf(w)) = c
      /\ Ring(c, SecOf(w)) /\ Filling(c, w) /\ Spare(c, w) /\ Collecting
      /\ TypeInv /\ ContentsInv
    BY <1>1, AddrFacts, Sizes DEF Layout, LayoutInv, IInv, TypeInv, RamType
<1>3. sector' = sector /\ oldest_addr' = oldest_addr /\ pc' \in {"alloc", "find"}
    BY DEF kv_set, NoCtx, FAILED_ADDR
<1>4. pc \notin GcPc \cup {"init"}
    BY DEF kv_set, GcPc
<1>5. Ring(c, SecOf(w))'
    BY <1>2, <1>3, <1>4, SameItself, RingSame DEF GcPc
<1>6. Filling(c, w)'
    BY <1>2, <1>3 DEF Filling, Fresh, kv_set, NoCtx, FAILED_ADDR, GcPc, Moving
<1>7. Spare(c, w)'
    BY <1>2, <1>3, <1>4 DEF Spare, GcPc, Moving, kv_set, NoCtx, FAILED_ADDR, From
<1>8. pc' # "init" => w = NextFree'
    BY <1>1, <1>3 DEF Layout, NextFree, kv_set, NoCtx, FAILED_ADDR, GcPc, Moving
<1>9. Dist(oldest_addr', SecOf(w)) = c /\ c \in 0..(SecNum - 1) /\ w \in Addr
    BY <1>1, <1>2, <1>3, <1>4 DEF kv_set, volatile
<1>10. Collecting'
    BY <1>3 DEF Collecting, GcPc, Moving
<1>11. QED BY <1>5, <1>6, <1>7, <1>8, <1>9, <1>10 DEF LayoutInv, Layout

LEMMA WriteFailsLayout ==
    ASSUME IInv, WriteFails
    PROVE  LayoutInv'
<1>1. PICK c \in 0..(SecNum - 1), w \in Addr : Layout(c, w)
    BY DEF IInv, LayoutInv
<1>2. /\ SecOf(w) \in Sector /\ oldest_addr \in Sector /\ IsFlash(sector)
      /\ c \in Nat /\ c < SecNum /\ Dist(oldest_addr, SecOf(w)) = c
      /\ Ring(c, SecOf(w)) /\ Filling(c, w) /\ Spare(c, w) /\ Collecting
      /\ TypeInv /\ ContentsInv
    BY <1>1, AddrFacts, Sizes DEF Layout, LayoutInv, IInv, TypeInv, RamType
<1>3. sector' = sector /\ oldest_addr' = oldest_addr /\ pc' \in {"idle"}
    BY DEF WriteFails, Returns, NoOp
<1>4. pc \notin GcPc \cup {"init"}
    BY DEF WriteFails, GcPc
<1>5. Ring(c, SecOf(w))'
    BY <1>2, <1>3, <1>4, SameItself, RingSame DEF GcPc
<1>6. Filling(c, w)'
    BY <1>2, <1>3 DEF Filling, Fresh, WriteFails, Returns, NoOp, GcPc, Moving
<1>7. Spare(c, w)'
    BY <1>2, <1>3, <1>4 DEF Spare, GcPc, Moving, WriteFails, Returns, NoOp, From
<1>8. pc' # "init" => w = NextFree'
    BY <1>1, <1>3 DEF Layout, NextFree, WriteFails, Returns, NoOp, GcPc, Moving
<1>9. Dist(oldest_addr', SecOf(w)) = c /\ c \in 0..(SecNum - 1) /\ w \in Addr
    BY <1>1, <1>2, <1>3, <1>4 DEF WriteFails, volatile
<1>10. Collecting'
    BY <1>3 DEF Collecting, GcPc, Moving
<1>11. QED BY <1>5, <1>6, <1>7, <1>8, <1>9, <1>10 DEF LayoutInv, Layout

(* What stays of the sector being filled when no length and no mark of it *)
(* changes.                                                                *)
LEMMA CurSame ==
    ASSUME NEW s \in Sector, NEW e, SameSector(sector'[s], sector[s]), FreeAt(sector[s].kv, e)
    PROVE  /\ FreeAt(sector'[s].kv, e)
           /\ sector'[s].store = sector[s].store /\ sector'[s].dirty = sector[s].dirty
           /\ sector[s] = Empty => sector'[s] = Empty
BY SameKvFacts DEF SameSector

LEMMA GetLayout ==
    ASSUME IInv, Conditions, NEW k \in Key, kv_get(k)
    PROVE  LayoutInv'
<1>1. PICK c \in 0..(SecNum - 1), w \in Addr : Layout(c, w)
    BY DEF IInv, LayoutInv
<1>2. /\ SecOf(w) \in Sector /\ oldest_addr \in Sector /\ IsFlash(sector)
      /\ c \in Nat /\ c < SecNum /\ Dist(oldest_addr, SecOf(w)) = c
      /\ Ring(c, SecOf(w)) /\ Filling(c, w) /\ Spare(c, w) /\ Collecting
      /\ TypeInv /\ ContentsInv
    BY <1>1, AddrFacts, Sizes DEF Layout, LayoutInv, IInv, TypeInv, RamType
<1>3. oldest_addr' = oldest_addr /\ pc' \in {"idle"} /\ pc \notin GcPc \cup {"init"}
    BY DEF kv_get, GcPc, volatile
<1>4. \A t \in Sector : SameSector(sector'[t], sector[t])
    <2>1. LiveInv
        BY <1>2 DEF ContentsInv
    <2>2. ASSUME Find(k) # FAILED_ADDR PROVE Find(k) \in LiveAddr
        BY <1>2, <2>1, <2>2, FindSound
    <2>3. \/ sector' = sector
          \/ sector' = Marked(sector, Find(k), "DELETED") /\ Find(k) # FAILED_ADDR
        BY DEF kv_get
    <2>4. QED BY <1>2, <2>2, <2>3, SameItself, LiveMarkedSame DEF Status
<1>r. Ring(c, SecOf(w))'
    BY <1>2, <1>3, <1>4, RingSame DEF GcPc
<1>f. Filling(c, w)'
    <2>1. /\ FreeAt(sector'[SecOf(w)].kv, OffOf(w))
          /\ sector'[SecOf(w)].store = sector[SecOf(w)].store
          /\ sector'[SecOf(w)].dirty = sector[SecOf(w)].dirty
          /\ sector[SecOf(w)] = Empty => sector'[SecOf(w)] = Empty
        BY <1>2, <1>4, CurSame DEF Filling
    <2>2. QED BY <1>2, <1>3, <2>1 DEF Filling, Fresh, kv_get, GcPc, Moving, volatile
<1>s. Spare(c, w)'
    BY <1>2, <1>3 DEF Spare, kv_get, GcPc, Moving
<1>n. pc' # "init" => w = NextFree'
    BY <1>1, <1>2, <1>3 DEF Layout, NextFree, kv_get, GcPc, Moving, volatile
<1>d. Dist(oldest_addr', SecOf(w)) = c /\ c \in 0..(SecNum - 1) /\ w \in Addr
    BY <1>1, <1>2, <1>3
<1>c. Collecting'
    BY <1>3 DEF Collecting, GcPc, Moving
<1>q. QED BY <1>r, <1>f, <1>s, <1>n, <1>d, <1>c DEF LayoutInv, Layout

LEMMA FindOldLayout ==
    ASSUME IInv, Conditions, FindOld
    PROVE  LayoutInv'
<1>1. PICK c \in 0..(SecNum - 1), w \in Addr : Layout(c, w)
    BY DEF IInv, LayoutInv
<1>2. /\ SecOf(w) \in Sector /\ oldest_addr \in Sector /\ IsFlash(sector)
      /\ c \in Nat /\ c < SecNum /\ Dist(oldest_addr, SecOf(w)) = c
      /\ Ring(c, SecOf(w)) /\ Filling(c, w) /\ Spare(c, w) /\ Collecting
      /\ TypeInv /\ ContentsInv
    BY <1>1, AddrFacts, Sizes DEF Layout, LayoutInv, IInv, TypeInv, RamType
<1>3. oldest_addr' = oldest_addr /\ pc' \in {"idle", "header"} /\ pc \notin GcPc \cup {"init"}
    BY DEF Returns, NoOp, NoCtx, FindOld, GcPc, volatile
<1>4. \A t \in Sector : SameSector(sector'[t], sector[t])
    <2>1. LiveInv /\ op.key \in Key
        BY <1>2 DEF ContentsInv, TypeInv, OpType, SetPc, FindOld
    <2>2. Find(op.key) # FAILED_ADDR => Find(op.key) \in LiveAddr
        BY <1>2, <2>1, FindSound
    <2>3. \/ sector' = sector
          \/ sector' = Marked(sector, Find(op.key), "DELETED") /\ Find(op.key) # FAILED_ADDR
          \/ sector' = Marked(sector, Find(op.key), "PRE_DELETE") /\ Find(op.key) # FAILED_ADDR
        BY DEF FindOld, PreDeleted
    <2>4. QED BY <1>2, <2>2, <2>3, SameItself, LiveMarkedSame DEF Status
<1>5. op.val = None <=> ctx.new = FAILED_ADDR
    BY <1>2 DEF TypeInv, OpType, FindOld
<1>6. ctx \in [old : Addr \cup {FAILED_ADDR}, new : Addr \cup {FAILED_ADDR}]
    BY <1>2 DEF TypeInv, RamType
<1>r. Ring(c, SecOf(w))'
    BY <1>2, <1>3, <1>4, RingSame DEF GcPc
<1>f. Filling(c, w)'
    <2>1. /\ FreeAt(sector'[SecOf(w)].kv, OffOf(w))
          /\ sector'[SecOf(w)].store = sector[SecOf(w)].store
          /\ sector'[SecOf(w)].dirty = sector[SecOf(w)].dirty
          /\ sector[SecOf(w)] = Empty => sector'[SecOf(w)] = Empty
        BY <1>2, <1>4, CurSame DEF Filling
    <2>2. QED BY <1>2, <1>3, <2>1, <1>5, <1>6 DEF Filling, Fresh, Returns, NoOp, NoCtx, FindOld, GcPc, Moving, volatile
<1>s. Spare(c, w)'
    BY <1>2, <1>3 DEF Spare, Returns, NoOp, NoCtx, FindOld, GcPc, Moving
<1>n. pc' # "init" => w = NextFree'
    BY <1>1, <1>2, <1>3, <1>5, <1>6 DEF Layout, NextFree, Returns, NoOp, NoCtx, FindOld, GcPc, Moving, volatile
<1>d. Dist(oldest_addr', SecOf(w)) = c /\ c \in 0..(SecNum - 1) /\ w \in Addr
    BY <1>1, <1>2, <1>3
<1>c. Collecting'
    BY <1>3 DEF Collecting, GcPc, Moving
<1>q. QED BY <1>r, <1>f, <1>s, <1>n, <1>d, <1>c DEF LayoutInv, Layout

LEMMA CommitLayout ==
    ASSUME IInv, Conditions, Commit
    PROVE  LayoutInv'
<1>1. PICK c \in 0..(SecNum - 1), w \in Addr : Layout(c, w)
    BY DEF IInv, LayoutInv
<1>2. /\ SecOf(w) \in Sector /\ oldest_addr \in Sector /\ IsFlash(sector)
      /\ c \in Nat /\ c < SecNum /\ Dist(oldest_addr, SecOf(w)) = c
      /\ Ring(c, SecOf(w)) /\ Filling(c, w) /\ Spare(c, w) /\ Collecting
      /\ TypeInv /\ ContentsInv
    BY <1>1, AddrFacts, Sizes DEF Layout, LayoutInv, IInv, TypeInv, RamType
<1>3. oldest_addr' = oldest_addr /\ pc' \in {"idle", "delete_old"} /\ pc \notin GcPc \cup {"init"}
    BY DEF Returns, NoOp, NoCtx, Commit, GcPc, volatile
<1>4. \A t \in Sector : SameSector(sector'[t], sector[t])
    <2>1. ctx.new \in Addr /\ OffOf(ctx.new) \in DOMAIN sector[SecOf(ctx.new)].kv
        BY <1>2 DEF ContentsInv, SettingInv, TypeInv, OpType, Writing, Commit
    <2>2. QED BY <1>2, <2>1, MarkedSame DEF Commit, Status
<1>r. Ring(c, SecOf(w))'
    BY <1>2, <1>3, <1>4, RingSame DEF GcPc
<1>f. Filling(c, w)'
    <2>1. /\ FreeAt(sector'[SecOf(w)].kv, OffOf(w))
          /\ sector'[SecOf(w)].store = sector[SecOf(w)].store
          /\ sector'[SecOf(w)].dirty = sector[SecOf(w)].dirty
          /\ sector[SecOf(w)] = Empty => sector'[SecOf(w)] = Empty
        BY <1>2, <1>4, CurSame DEF Filling
    <2>2. QED BY <1>2, <1>3, <2>1 DEF Filling, Fresh, Returns, NoOp, NoCtx, Commit, GcPc, Moving, volatile
<1>s. Spare(c, w)'
    BY <1>2, <1>3 DEF Spare, Returns, NoOp, NoCtx, Commit, GcPc, Moving
<1>n. pc' # "init" => w = NextFree'
    BY <1>1, <1>2, <1>3 DEF Layout, NextFree, Returns, NoOp, NoCtx, Commit, GcPc, Moving, volatile
<1>d. Dist(oldest_addr', SecOf(w)) = c /\ c \in 0..(SecNum - 1) /\ w \in Addr
    BY <1>1, <1>2, <1>3
<1>c. Collecting'
    BY <1>3 DEF Collecting, GcPc, Moving
<1>q. QED BY <1>r, <1>f, <1>s, <1>n, <1>d, <1>c DEF LayoutInv, Layout

LEMMA DeleteOldLayout ==
    ASSUME IInv, Conditions, DeleteOld
    PROVE  LayoutInv'
<1>1. PICK c \in 0..(SecNum - 1), w \in Addr : Layout(c, w)
    BY DEF IInv, LayoutInv
<1>2. /\ SecOf(w) \in Sector /\ oldest_addr \in Sector /\ IsFlash(sector)
      /\ c \in Nat /\ c < SecNum /\ Dist(oldest_addr, SecOf(w)) = c
      /\ Ring(c, SecOf(w)) /\ Filling(c, w) /\ Spare(c, w) /\ Collecting
      /\ TypeInv /\ ContentsInv
    BY <1>1, AddrFacts, Sizes DEF Layout, LayoutInv, IInv, TypeInv, RamType
<1>3. oldest_addr' = oldest_addr /\ pc' \in {"idle"} /\ pc \notin GcPc \cup {"init"}
    BY DEF Returns, NoOp, NoCtx, DeleteOld, GcPc, volatile
<1>4. \A t \in Sector : SameSector(sector'[t], sector[t])
    <2>1. ctx.old \in LiveAddr
        <3>1. ctx.old \in Addr
            BY <1>2 DEF TypeInv, OpType, DeleteOld
        <3>2. QED BY <1>2, <3>1, AddrFacts DEF ContentsInv, SettingInv, Writing, DeleteOld
    <2>2. QED BY <1>2, <2>1, LiveMarkedSame DEF DeleteOld, Status
<1>r. Ring(c, SecOf(w))'
    BY <1>2, <1>3, <1>4, RingSame DEF GcPc
<1>f. Filling(c, w)'
    <2>1. /\ FreeAt(sector'[SecOf(w)].kv, OffOf(w))
          /\ sector'[SecOf(w)].store = sector[SecOf(w)].store
          /\ sector'[SecOf(w)].dirty = sector[SecOf(w)].dirty
          /\ sector[SecOf(w)] = Empty => sector'[SecOf(w)] = Empty
        BY <1>2, <1>4, CurSame DEF Filling
    <2>2. QED BY <1>2, <1>3, <2>1 DEF Filling, Fresh, Returns, NoOp, NoCtx, DeleteOld, GcPc, Moving, volatile
<1>s. Spare(c, w)'
    BY <1>2, <1>3 DEF Spare, Returns, NoOp, NoCtx, DeleteOld, GcPc, Moving
<1>n. pc' # "init" => w = NextFree'
    BY <1>1, <1>2, <1>3 DEF Layout, NextFree, Returns, NoOp, NoCtx, DeleteOld, GcPc, Moving, volatile
<1>d. Dist(oldest_addr', SecOf(w)) = c /\ c \in 0..(SecNum - 1) /\ w \in Addr
    BY <1>1, <1>2, <1>3
<1>c. Collecting'
    BY <1>3 DEF Collecting, GcPc, Moving
<1>q. QED BY <1>r, <1>f, <1>s, <1>n, <1>d, <1>c DEF LayoutInv, Layout

LEMMA WriteDataLayout ==
    ASSUME IInv, Conditions, WriteData
    PROVE  LayoutInv'
<1>1. PICK c \in 0..(SecNum - 1), w \in Addr : Layout(c, w)
    BY DEF IInv, LayoutInv
<1>2. /\ SecOf(w) \in Sector /\ oldest_addr \in Sector /\ IsFlash(sector)
      /\ c \in Nat /\ c < SecNum /\ Dist(oldest_addr, SecOf(w)) = c
      /\ Ring(c, SecOf(w)) /\ Filling(c, w) /\ Spare(c, w) /\ Collecting
      /\ TypeInv /\ ContentsInv
    BY <1>1, AddrFacts, Sizes DEF Layout, LayoutInv, IInv, TypeInv, RamType
<1>3. oldest_addr' = oldest_addr /\ pc' \in {"commit"} /\ pc \notin GcPc \cup {"init"}
    BY DEF WriteData, GcPc, volatile
<1>4. \A t \in Sector : SameSector(sector'[t], sector[t])
    <2>1. ctx.new \in Addr /\ OffOf(ctx.new) \in DOMAIN sector[SecOf(ctx.new)].kv
        BY <1>2 DEF ContentsInv, SettingInv, TypeInv, OpType, Writing, WriteData
    <2>2. SecOf(ctx.new) \in Sector
        BY <2>1, AddrFacts
    <2>3. op.key \in Key /\ op.val \in Value
        BY <1>2 DEF TypeInv, OpType, SetPc, WriteData
    <2>4. IsPatched(sector', sector, SecOf(ctx.new), OffOf(ctx.new),
                    WithData(KvAt(ctx.new), op.key, op.val))
        <3>1. sector' = [sector EXCEPT ![SecOf(ctx.new)].kv[OffOf(ctx.new)] =
                           WithData(sector[SecOf(ctx.new)].kv[OffOf(ctx.new)], op.key, op.val)]
            BY <2>2, <1>2 DEF WriteData, WithData, IsFlash
        <3>2. QED BY <1>2, <2>1, <2>3, <3>1, FilledFacts DEF KvAt
    <2>5. QED BY <2>1, <2>2, <2>4, PatchedSame
<1>r. Ring(c, SecOf(w))'
    BY <1>2, <1>3, <1>4, RingSame DEF GcPc
<1>f. Filling(c, w)'
    <2>1. /\ FreeAt(sector'[SecOf(w)].kv, OffOf(w))
          /\ sector'[SecOf(w)].store = sector[SecOf(w)].store
          /\ sector'[SecOf(w)].dirty = sector[SecOf(w)].dirty
          /\ sector[SecOf(w)] = Empty => sector'[SecOf(w)] = Empty
        BY <1>2, <1>4, CurSame DEF Filling
    <2>2. QED BY <1>2, <1>3, <2>1 DEF Filling, Fresh, WriteData, GcPc, Moving, volatile
<1>s. Spare(c, w)'
    BY <1>2, <1>3 DEF Spare, WriteData, GcPc, Moving
<1>n. pc' # "init" => w = NextFree'
    BY <1>1, <1>2, <1>3 DEF Layout, NextFree, WriteData, GcPc, Moving, volatile
<1>d. Dist(oldest_addr', SecOf(w)) = c /\ c \in 0..(SecNum - 1) /\ w \in Addr
    BY <1>1, <1>2, <1>3
<1>c. Collecting'
    BY <1>3 DEF Collecting, GcPc, Moving
<1>q. QED BY <1>r, <1>f, <1>s, <1>n, <1>d, <1>c DEF LayoutInv, Layout

LEMMA CheckLayout ==
    ASSUME IInv, Conditions, check_all_kv
    PROVE  LayoutInv'
<1>1. PICK c \in 0..(SecNum - 1), w \in Addr : Layout(c, w)
    BY DEF IInv, LayoutInv
<1>2. /\ SecOf(w) \in Sector /\ oldest_addr \in Sector /\ IsFlash(sector)
      /\ c \in Nat /\ c < SecNum /\ Dist(oldest_addr, SecOf(w)) = c
      /\ Ring(c, SecOf(w)) /\ Filling(c, w) /\ Spare(c, w) /\ Collecting
      /\ TypeInv /\ ContentsInv
    BY <1>1, AddrFacts, Sizes DEF Layout, LayoutInv, IInv, TypeInv, RamType
<1>3. oldest_addr' = oldest_addr /\ pc' \in {"idle", "check"} /\ pc \notin GcPc \cup {"init"}
    BY DEF check_all_kv, GcPc, volatile
<1>4. \A t \in Sector : SameSector(sector'[t], sector[t])
    <2>1. CASE Unfinished = {}
        BY <2>1, SameItself DEF check_all_kv
    <2>2. CASE Unfinished # {}
        <3>1. ASSUME NEW p \in Places
              PROVE  /\ p \in Nat /\ AtPlace(p) \in Addr
                     /\ OffOf(AtPlace(p)) \in DOMAIN sector[SecOf(AtPlace(p))].kv
            <4>1. PICK n \in 0..(SecNum - 1) : \E o \in Walk(sector, Nth(n)) : IsPlace(p, n, o)
                BY <1>2, PlacesFacts
            <4>2. PICK o \in Walk(sector, Nth(n)) : IsPlace(p, n, o)
                BY <4>1
            <4>3. QED BY <4>2 DEF IsPlace
        <3>2. Unfinished \subseteq Places
            BY DEF Unfinished
        <3>3. PICK p \in Unfinished : p = Min(Unfinished)
            BY <2>2, <3>1, <3>2, MinIsLeast
        <3>4. sector' = Marked(sector, AtPlace(p), "DELETED")
            BY <2>2, <3>3 DEF check_all_kv
        <3>5. AtPlace(p) \in Addr /\ OffOf(AtPlace(p)) \in DOMAIN sector[SecOf(AtPlace(p))].kv
            BY <3>1, <3>2
        <3>6. QED BY <1>2, <3>4, <3>5, MarkedSame DEF Status
    <2>3. QED BY <2>1, <2>2
<1>r. Ring(c, SecOf(w))'
    BY <1>2, <1>3, <1>4, RingSame DEF GcPc
<1>f. Filling(c, w)'
    <2>1. /\ FreeAt(sector'[SecOf(w)].kv, OffOf(w))
          /\ sector'[SecOf(w)].store = sector[SecOf(w)].store
          /\ sector'[SecOf(w)].dirty = sector[SecOf(w)].dirty
          /\ sector[SecOf(w)] = Empty => sector'[SecOf(w)] = Empty
        BY <1>2, <1>4, CurSame DEF Filling
    <2>2. QED BY <1>2, <1>3, <2>1 DEF Filling, Fresh, check_all_kv, GcPc, Moving, volatile
<1>s. Spare(c, w)'
    BY <1>2, <1>3 DEF Spare, check_all_kv, GcPc, Moving
<1>n. pc' # "init" => w = NextFree'
    BY <1>1, <1>2, <1>3 DEF Layout, NextFree, check_all_kv, GcPc, Moving, volatile
<1>d. Dist(oldest_addr', SecOf(w)) = c /\ c \in 0..(SecNum - 1) /\ w \in Addr
    BY <1>1, <1>2, <1>3
<1>c. Collecting'
    BY <1>3 DEF Collecting, GcPc, Moving
<1>q. QED BY <1>r, <1>f, <1>s, <1>n, <1>d, <1>c DEF LayoutInv, Layout

(* Where the records of a sector end another may begin, and that is not in *)
(* the last two units.                                                     *)
LEMMA FreeInEnds ==
    ASSUME ClearOfTheLimits, IsFlash(sector), NEW s \in Sector,
           NEW e \in 1..(sec_size - KV_HDR_DATA_SIZE),
           Tiled(sector[s].kv), FreeAt(sector[s].kv, e)
    PROVE  e \in Ends /\ e < sec_size - KV_HDR_DATA_SIZE
<1>1. Clear(Ends)
    BY EndsFacts
<1>2. CASE e = SECTOR_HDR_DATA_SIZE
    BY <1>1, <1>2, Sizes DEF Clear, SECTOR_HDR_DATA_SIZE, KV_HDR_DATA_SIZE
<1>3. CASE e # SECTOR_HDR_DATA_SIZE
    <2>1. PICK p \in DOMAIN sector[s].kv : p + sector[s].kv[p].len = e
        BY <1>3 DEF FreeAt, Follow
    <2>2. PICK v \in Value : sector[s].kv[p].len = Len[v]
        BY <2>1, SectorFacts DEF KvRecord, KvLen
    <2>3. p \in Ends /\ p + Len[v] = e
        BY <2>1, <2>2 DEF Tiled
    <2>4. /\ e \notin {sec_size - KV_HDR_DATA_SIZE, sec_size - KV_HDR_DATA_SIZE + 1}
          /\ e < sec_size - KV_HDR_DATA_SIZE => e \in Ends
        BY <1>1, <2>3 DEF Clear
    <2>5. QED BY <2>4, Sizes DEF KV_HDR_DATA_SIZE
<1>4. QED BY <1>2, <1>3

(* calc_free_size, and when alloc_kv goes on to the next sector or to the  *)
(* garbage collection.                                                     *)
LEMMA FreeSize ==
    ASSUME empty_kv \in Addr, oldest_addr \in Sector,
           NEW c \in Nat, c = Dist(oldest_addr, SecOf(empty_kv))
    PROVE  calc_free_size = (SecNum - c) * sec_size - OffOf(empty_kv)
<1> DEFINE s == SecOf(empty_kv)
           e == OffOf(empty_kv)
<1>1. /\ s \in Nat /\ s < SecNum /\ oldest_addr \in Nat /\ oldest_addr < SecNum
      /\ e \in Nat /\ e > 0 /\ e < sec_size /\ empty_kv = s * sec_size + e
      /\ sec_size \in Nat /\ SecNum \in Nat
    BY AddrFacts, Sizes DEF Sector, AddrOf, KV_HDR_DATA_SIZE
<1> HIDE DEF s, e
<1>2. AddrOf(oldest_addr, 0) = oldest_addr * sec_size /\ oldest_addr * sec_size \in Nat
      /\ s * sec_size \in Nat /\ max_size = SecNum * sec_size /\ max_size \in Nat
    BY <1>1 DEF AddrOf, max_size
<1>3. CASE s >= oldest_addr
    <2>1. PICK d \in Nat : s = oldest_addr + d
        BY <1>1, <1>3
    <2>2. c = d
        BY <1>1, <1>3, <2>1 DEF Dist, s
    <2>3. s * sec_size = oldest_addr * sec_size + d * sec_size /\ d * sec_size \in Nat
        BY <1>1, <2>1
    <2>4. empty_kv > AddrOf(oldest_addr, 0)
        BY <1>1, <1>2, <2>3
    <2>5. calc_free_size = max_size - (d * sec_size + e)
        BY <1>1, <1>2, <2>3, <2>4 DEF calc_free_size
    <2>6. (SecNum - d) * sec_size = max_size - d * sec_size
        BY <1>1, <1>2
    <2>7. QED BY <1>1, <1>2, <2>2, <2>3, <2>5, <2>6 DEF e
<1>4. CASE s < oldest_addr
    <2>1. PICK d \in Nat : oldest_addr = s + d /\ d > 0
        BY <1>1, <1>4
    <2>2. SecNum - c = d
        BY <1>1, <1>4, <2>1 DEF Dist, s
    <2>3. oldest_addr * sec_size = s * sec_size + d * sec_size /\ d * sec_size \in Nat
        BY <1>1, <2>1
    <2>4. d * sec_size >= sec_size
        BY <1>1, <2>1
    <2>5. ~(empty_kv > AddrOf(oldest_addr, 0))
        BY <1>1, <1>2, <2>3, <2>4
    <2>6. calc_free_size = d * sec_size - e
        BY <1>1, <1>2, <2>3, <2>5 DEF calc_free_size
    <2>7. QED BY <2>2, <2>6 DEF e
<1>5. QED BY <1>1, <1>3, <1>4

LEMMA RoomyFacts ==
    ASSUME SecNum > 2, empty_kv \in Addr, oldest_addr \in Sector,
           NEW c \in Nat, c = Dist(oldest_addr, SecOf(empty_kv)), c < SecNum,
           NEW n \in KvLen
    PROVE  /\ ~Roomy(n) => c > 0
           /\ c = SecNum - 2 /\ Roomy(n) => OffOf(empty_kv) + n < sec_size
<1>1. /\ OffOf(empty_kv) \in Nat /\ OffOf(empty_kv) <= sec_size - 2
      /\ n \in Nat /\ n <= sec_size - 3 /\ sec_size \in Nat /\ SecNum \in Nat
    BY AddrFacts, Sizes DEF KV_HDR_DATA_SIZE, SECTOR_HDR_DATA_SIZE, Room
<1>2. calc_free_size = (SecNum - c) * sec_size - OffOf(empty_kv)
    BY FreeSize
<1>3. CASE c = 0
    <2>1. SecNum * sec_size >= 3 * sec_size
        BY <1>1
    <2>2. calc_free_size = SecNum * sec_size - OffOf(empty_kv) /\ SecNum * sec_size \in Nat
        BY <1>1, <1>2, <1>3
    <2>3. calc_free_size - n > sec_size
        BY <1>1, <2>1, <2>2
    <2>4. Roomy(n)
        BY <1>1, <2>2, <2>3 DEF Roomy, GC_EMPTY_SEC_THRESHOLD
    <2>5. QED BY <1>3, <2>4
<1>4. CASE c = SecNum - 2
    <2>1. calc_free_size = 2 * sec_size - OffOf(empty_kv)
        BY <1>1, <1>2, <1>4
    <2>2. QED BY <1>1, <1>4, <2>1 DEF Roomy, GC_EMPTY_SEC_THRESHOLD
<1>5. QED BY <1>3, <1>4

LEMMA AllocLayout ==
    ASSUME IInv, Conditions, alloc_kv
    PROVE  LayoutInv'
<1>1. PICK c \in 0..(SecNum - 1), w \in Addr : Layout(c, w)
    BY DEF IInv, LayoutInv
<1>2. /\ SecOf(w) \in Sector /\ oldest_addr \in Sector /\ IsFlash(sector)
      /\ c \in Nat /\ c < SecNum /\ Dist(oldest_addr, SecOf(w)) = c
      /\ Ring(c, SecOf(w)) /\ Filling(c, w) /\ Spare(c, w) /\ Collecting
      /\ TypeInv /\ ContentsInv
    BY <1>1, AddrFacts, Sizes DEF Layout, LayoutInv, IInv, TypeInv, RamType
<1>3. /\ pc = "alloc" /\ oldest_addr' = oldest_addr /\ empty_kv' = empty_kv
      /\ w = empty_kv /\ empty_kv \in Addr /\ c < SecNum - 1
    BY <1>1, <1>2 DEF alloc_kv, Layout, NextFree, GcPc, Moving, Spare, TypeInv, RamType
<1>4. SecNum > 2 /\ ClearOfTheLimits
    BY DEF Conditions
<1>5. op.val \in Value /\ Len[op.val] \in KvLen
    BY <1>2, <1>3, Sizes DEF TypeInv, OpType, SetPc
<1> DEFINE size == Len[op.val]
           cur  == SecOf(w)
           e    == OffOf(w)
<1>6. /\ ~Roomy(size) => c > 0
      /\ c = SecNum - 2 /\ Roomy(size) => e + size < sec_size
    BY <1>2, <1>3, <1>4, <1>5, RoomyFacts
<1>7. /\ e \in Nat /\ e < sec_size - KV_HDR_DATA_SIZE /\ e \in Ends
      /\ size \in Nat /\ sec_size \in Nat
    <2>1. Tiled(sector[cur].kv) /\ FreeAt(sector[cur].kv, e)
        BY <1>2 DEF Ring, Filling
    <2>2. e \in 1..(sec_size - KV_HDR_DATA_SIZE)
        BY <1>3, AddrFacts
    <2>3. e \in Ends /\ e < sec_size - KV_HDR_DATA_SIZE
        BY <1>2, <1>4, <2>1, <2>2, FreeInEnds
    <2>4. QED BY <1>5, <2>2, <2>3, Sizes
<1>8. e # SECTOR_HDR_DATA_SIZE => sector[cur].dirty = "TRUE" /\ sector[cur].store = "USING"
    BY <1>2, <1>3 DEF Filling, FreeAt, Follow, Empty, Moving
<1>9. e = SECTOR_HDR_DATA_SIZE => /\ Fits(w, size) /\ sector[cur] = Empty /\ c = 0
                                  /\ sector[cur].store = "EMPTY"
    <2>1. e = SECTOR_HDR_DATA_SIZE => sector[cur].store = "EMPTY"
        BY <1>2, <1>3 DEF Filling, Fresh
    <2>2. sector[cur].store = "EMPTY" => sector[cur] = Empty /\ c = 0
        BY <1>2, <1>3 DEF Filling
    <2>3. e = SECTOR_HDR_DATA_SIZE => Fits(w, size)
        BY <1>5, Sizes DEF Fits, Room
    <2>4. QED BY <2>1, <2>2, <2>3
<1>10. Roomy(size) /\ ~Fits(w, size) => c < SecNum - 2
    <2>1. SUFFICES ASSUME Roomy(size), ~Fits(w, size), c = SecNum - 2
                   PROVE  FALSE
        BY <1>2, <1>3, Sizes
    <2>2. e + size = sec_size - 1
        BY <1>6, <1>7, <2>1 DEF Fits, KV_HDR_DATA_SIZE
    <2>3. Clear(Ends)
        BY <1>4, EndsFacts
    <2>4. e + size # sec_size - KV_HDR_DATA_SIZE + 1
        BY <1>5, <1>7, <2>3 DEF Clear
    <2>5. QED BY <1>7, <2>2, <2>4 DEF KV_HDR_DATA_SIZE
<1>11. \/ /\ ~Roomy(size) /\ pc' \in {"idle", "gc"} /\ sector' = sector
          /\ ctx' \in {ctx, NoCtx}
       \/ /\ Roomy(size) /\ ~Fits(w, size) /\ pc' = "alloc_next"
          /\ sector' = Stored(sector, cur, "FULL")
       \/ /\ Roomy(size) /\ Fits(w, size) /\ pc' = "find" /\ ctx'.new = w
          /\ sector' = IF sector[cur].store = "EMPTY" THEN Stored(sector, cur, "USING")
                       ELSE sector
    <2>1. ctx \in [old : Addr \cup {FAILED_ADDR}, new : Addr \cup {FAILED_ADDR}]
        BY <1>2 DEF TypeInv, RamType
    <2>2. CASE ~Roomy(size)
        BY <2>2 DEF alloc_kv, Returns, NoOp
    <2>3. CASE Roomy(size) /\ ~Fits(w, size)
        BY <1>3, <1>8, <1>9, <2>3 DEF alloc_kv
    <2>4. CASE Roomy(size) /\ Fits(w, size)
        BY <1>3, <2>1, <2>4 DEF alloc_kv
    <2>5. QED BY <2>2, <2>3, <2>4
<1>12. \A mark \in StoreMark : IsStored(Stored(sector, cur, mark), sector, cur, mark)
    BY <1>2, StoredFacts
<1>13. /\ \A t \in Sector : t # cur => sector'[t] = sector[t]
       /\ sector'[cur].kv = sector[cur].kv /\ sector'[cur].dirty = sector[cur].dirty
       /\ sector'[cur].store = IF pc' = "alloc_next" THEN "FULL"
                               ELSE IF pc' = "find" THEN "USING" ELSE sector[cur].store
       /\ pc' \in {"idle", "gc"} => sector' = sector
    <2>1. CASE sector' = sector
        BY <1>8, <1>9, <1>11, <2>1, <1>2, <1>12 DEF IsStored, StoreMark
    <2>2. CASE sector' = Stored(sector, cur, "FULL") /\ pc' = "alloc_next"
        BY <1>2, <1>12, <2>2 DEF IsStored, StoreMark
    <2>3. CASE sector' = Stored(sector, cur, "USING") /\ pc' = "find"
        BY <1>2, <1>12, <2>3 DEF IsStored, StoreMark
    <2>4. QED BY <1>11, <2>1, <2>2, <2>3
<1> HIDE DEF size, cur, e
<1>r. Ring(c, SecOf(w))'
    <2>1. Tiled(sector'[cur].kv)
        BY <1>2, <1>13 DEF Ring, cur
    <2>2. \A t \in Sector : t # cur => SameSector(sector'[t], sector[t])
        BY <1>13, SameItself
    <2>3. QED BY <1>2, <1>3, <1>13, <2>1, <2>2, RingStep DEF cur, GcPc
<1>f. Filling(c, w)'
    <2>1. FreeAt(sector'[cur].kv, e) /\ sector'[cur].dirty = sector[cur].dirty
        BY <1>2, <1>13 DEF Filling, cur, e
    <2>2. CASE pc' = "idle"
        BY <1>2, <1>3, <1>13, <2>2 DEF Filling, Fresh, GcPc, Moving, cur, e
    <2>3. CASE pc' = "gc"
        <3>1. c > 0
            BY <1>6, <1>11, <2>3
        <3>2. e # SECTOR_HDR_DATA_SIZE
            BY <1>9, <3>1
        <3>3. QED BY <1>8, <1>13, <2>1, <2>3, <3>2 DEF Filling, cur, e
    <2>4. CASE pc' = "alloc_next"
        <3>1. e # SECTOR_HDR_DATA_SIZE
            BY <1>9, <1>11, <2>4
        <3>2. QED BY <1>8, <1>13, <2>1, <2>4, <3>1 DEF Filling, cur, e
    <2>5. CASE pc' = "find"
        <3>1. sector[cur].dirty = "FALSE" \/ e # SECTOR_HDR_DATA_SIZE
            BY <1>9 DEF Empty
        <3>2. Fresh'
            BY <1>3, <1>11, <2>5, AddrFacts DEF Fresh
        <3>3. QED BY <1>8, <1>13, <2>1, <2>5, <3>1, <3>2 DEF Filling, cur, e
    <2>6. QED BY <1>11, <2>2, <2>3, <2>4, <2>5
<1>s. Spare(c, w)'
    BY <1>2, <1>3, <1>6, <1>10, <1>11 DEF Spare, GcPc
<1>n. pc' # "init" => w = NextFree'
    BY <1>3, <1>11, AddrFacts DEF NextFree, Moving
<1>d. Dist(oldest_addr', SecOf(w)) = c /\ c \in 0..(SecNum - 1) /\ w \in Addr
    BY <1>1, <1>2, <1>3
<1>c. Collecting'
    BY <1>11 DEF Collecting, GcPc, Moving
<1>q. QED BY <1>r, <1>f, <1>s, <1>n, <1>d, <1>c DEF LayoutInv, Layout

(* The next sector, which is empty, is the one being filled from now on.   *)
LEMMA NextRing ==
    ASSUME NEW c \in Nat, NEW cur \in Sector, NEW next \in Sector, Ring(c, cur),
           oldest_addr \in Sector, oldest_addr' = oldest_addr, pc # "gc_format",
           pc \in GcPc \cup {"init"} => pc' \in GcPc \cup {"init"},
           Dist(oldest_addr, next) = c + 1, Dist(oldest_addr, cur) = c,
           sector[cur].store = "FULL", sector[cur].dirty = "TRUE",
           \A t \in Sector : t # next => sector'[t] = sector[t],
           sector'[next].kv = << >>, sector'[next].dirty = "FALSE"
    PROVE  Ring(c + 1, next)'
<1> SUFFICES ASSUME NEW s \in Sector
             PROVE  /\ Tiled(sector'[s].kv)
                    /\ Dist(oldest_addr, s) < c + 1 =>
                         sector'[s].store = "FULL" /\ sector'[s].dirty \in {"TRUE", "GC"}
                    /\ Dist(oldest_addr, s) = c + 1 => s = next
                    /\ Dist(oldest_addr, s) > c + 1 => sector'[s] = Empty
                    /\ sector'[s].dirty = "GC" =>
                         s = oldest_addr /\ pc' \in GcPc \cup {"init"} /\ c + 1 > 0
    BY DEF Ring
<1>1. /\ Tiled(sector[s].kv)
      /\ Dist(oldest_addr, s) < c =>
           sector[s].store = "FULL" /\ sector[s].dirty \in {"TRUE", "GC"}
      /\ Dist(oldest_addr, s) = c => s = cur
      /\ Dist(oldest_addr, s) > c => sector[s] = Empty
      /\ sector[s].dirty = "GC" =>
           s = oldest_addr /\ pc \in GcPc \cup {"init"} /\ c > 0
    BY DEF Ring
<1>2. Dist(oldest_addr, s) \in Nat /\ (Dist(oldest_addr, s) = c + 1 => s = next)
    BY DistFacts
<1>3. CASE s = next
    BY <1>2, <1>3 DEF Tiled
<1>4. CASE s # next
    BY <1>1, <1>2, <1>4
<1>5. QED BY <1>3, <1>4

LEMMA AllocNextLayout ==
    ASSUME IInv, Conditions, alloc_kv_next
    PROVE  LayoutInv'
<1>1. PICK c \in 0..(SecNum - 1), w \in Addr : Layout(c, w)
    BY DEF IInv, LayoutInv
<1>2. /\ SecOf(w) \in Sector /\ oldest_addr \in Sector /\ IsFlash(sector)
      /\ c \in Nat /\ c < SecNum /\ Dist(oldest_addr, SecOf(w)) = c
      /\ Ring(c, SecOf(w)) /\ Filling(c, w) /\ Spare(c, w) /\ Collecting
      /\ TypeInv /\ ContentsInv
    BY <1>1, AddrFacts, Sizes DEF Layout, LayoutInv, IInv, TypeInv, RamType
<1> DEFINE cur  == SecOf(w)
           next == get_next_sec(cur)
           w2   == AddrOf(next, SECTOR_HDR_DATA_SIZE)
<1>3. /\ pc = "alloc_next" /\ pc' = "find" /\ oldest_addr' = oldest_addr
      /\ w = empty_kv /\ c < SecNum - 2 /\ SecNum \in Nat
      /\ sector' = Stored(sector, next, "USING") /\ ctx'.new = w2
    <2>1. ctx \in [old : Addr \cup {FAILED_ADDR}, new : Addr \cup {FAILED_ADDR}]
        BY <1>2 DEF TypeInv, RamType
    <2>2. QED BY <1>1, <1>2, <2>1, Sizes DEF alloc_kv_next, Layout, NextFree, Moving, Spare
<1>4. /\ next \in Sector /\ Dist(oldest_addr, next) = c + 1 /\ next # cur
      /\ w2 \in Addr /\ SecOf(w2) = next /\ OffOf(w2) = SECTOR_HDR_DATA_SIZE
      /\ next # oldest_addr /\ w2 # FAILED_ADDR
    <2>1. next \in Sector /\ Dist(oldest_addr, next) = c + 1
        BY <1>2, <1>3, NextSec, DistFacts
    <2>2. w2 \in Addr /\ SecOf(w2) = next /\ OffOf(w2) = SECTOR_HDR_DATA_SIZE
        BY <2>1, FirstOff, AddrOfFacts
    <2>3. next # cur /\ next # oldest_addr
        BY <1>2, <2>1, DistFacts
    <2>4. QED BY <2>1, <2>2, <2>3, AddrFacts
<1>5. sector[next] = Empty
    BY <1>2, <1>4 DEF Ring
<1>6. sector[cur].store = "FULL" /\ sector[cur].dirty = "TRUE"
    BY <1>2, <1>3 DEF Filling, Fresh, Empty, Moving, cur
<1> HIDE DEF cur, next, w2
<1>7. IsStored(sector', sector, next, "USING")
    BY <1>2, <1>3, <1>4, StoredFacts DEF StoreMark
<1>8. /\ \A t \in Sector : t # next => sector'[t] = sector[t]
      /\ sector'[next].kv = << >> /\ sector'[next].store = "USING"
      /\ sector'[next].dirty = "FALSE"
    BY <1>4, <1>5, <1>7 DEF IsStored, Empty
<1>r. Ring(c + 1, SecOf(w2))'
    BY <1>2, <1>3, <1>4, <1>6, <1>8, NextRing DEF cur, GcPc
<1>f. Filling(c + 1, w2)'
    BY <1>3, <1>4, <1>8 DEF Filling, FreeAt, Follow, Fresh
<1>s. Spare(c + 1, w2)'
    BY <1>2, <1>3 DEF Spare, GcPc
<1>n. pc' # "init" => w2 = NextFree'
    BY <1>3, <1>4 DEF NextFree, Moving
<1>d. Dist(oldest_addr', SecOf(w2)) = c + 1 /\ c + 1 \in 0..(SecNum - 1) /\ w2 \in Addr
    BY <1>2, <1>3, <1>4
<1>c. Collecting'
    BY <1>3 DEF Collecting, GcPc, Moving
<1>q. QED BY <1>r, <1>f, <1>s, <1>n, <1>d, <1>c DEF LayoutInv, Layout

LEMMA WriteHeaderLayout ==
    ASSUME IInv, Conditions, WriteHeader
    PROVE  LayoutInv'
<1>1. PICK c \in 0..(SecNum - 1), w \in Addr : Layout(c, w)
    BY DEF IInv, LayoutInv
<1>2. /\ SecOf(w) \in Sector /\ oldest_addr \in Sector /\ IsFlash(sector)
      /\ c \in Nat /\ c < SecNum /\ Dist(oldest_addr, SecOf(w)) = c
      /\ Ring(c, SecOf(w)) /\ Filling(c, w) /\ Spare(c, w) /\ Collecting
      /\ TypeInv /\ ContentsInv
    BY <1>1, AddrFacts, Sizes DEF Layout, LayoutInv, IInv, TypeInv, RamType
<1> DEFINE cur == SecOf(w)
           e   == OffOf(w)
           rec == [key |-> None, val |-> None, len |-> Len[op.val], status |-> "PRE_WRITE"]
<1> PICK w2 : w2 = RecordEnd(w, Len[op.val])
    OBVIOUS
<1>3. /\ pc = "header" /\ oldest_addr' = oldest_addr /\ ctx.new \in Addr /\ w = ctx.new
      /\ sector' = Recorded(sector, w, rec) /\ empty_kv' = w2
      /\ pc' = IF e = SECTOR_HDR_DATA_SIZE THEN "dirty" ELSE "data"
      /\ op.val \in Value /\ Room(e, Len[op.val]) /\ Len[op.val] \in KvLen
    <2>1. /\ pc = "header" /\ ctx.new \in Addr /\ op.val \in Value
          /\ Room(OffOf(ctx.new), Len[op.val])
        BY <1>2 DEF WriteHeader, TypeInv, OpType, SetPc
    <2>2. w = ctx.new
        BY <1>1, <2>1, AddrFacts DEF Layout, NextFree, Moving
    <2>3. QED BY <2>1, <2>2, Sizes DEF WriteHeader, volatile
<1>4. /\ w2 \in Addr /\ SecOf(w2) = cur /\ OffOf(w2) = e + Len[op.val]
      /\ e + Len[op.val] # SECTOR_HDR_DATA_SIZE
      /\ e \in Nat
    BY <1>3, AddrPlus, AddrFacts, Sizes DEF RecordEnd, SECTOR_HDR_DATA_SIZE
<1>5. rec \in KvRecord /\ rec.len = Len[op.val]
    BY <1>3 DEF KvRecord, Status
<1> HIDE DEF rec
<1>6. IsWritten(sector', sector, cur, e, rec)
    BY <1>2, <1>3, <1>5, RecordedFacts
<1>7. Tiled(sector[cur].kv) /\ FreeAt(sector[cur].kv, e) /\ sector[cur].store = "USING"
    BY <1>2, <1>3, AddrFacts DEF Ring, Filling
<1>8. Tiled(sector'[cur].kv) /\ FreeAt(sector'[cur].kv, e + Len[op.val])
    BY <1>2, <1>3, <1>4, <1>5, <1>6, <1>7, WrittenTiled DEF Conditions
<1>9. e = SECTOR_HDR_DATA_SIZE \/ sector[cur].dirty = "TRUE"
    BY <1>2, <1>3 DEF Filling, Moving
<1> HIDE DEF cur, e
<1>r. Ring(c, SecOf(w2))'
    <2>1. \A t \in Sector : t # cur => SameSector(sector'[t], sector[t])
        BY <1>6, SameItself DEF IsWritten
    <2>2. sector'[cur].dirty = sector[cur].dirty
        BY <1>2, <1>6 DEF IsWritten, cur
    <2>3. QED BY <1>2, <1>3, <1>4, <1>8, <2>1, <2>2, RingStep DEF cur, GcPc
<1>f. Filling(c, w2)'
    <2>1. sector'[cur].dirty = sector[cur].dirty /\ sector'[cur].store = "USING"
        BY <1>2, <1>6, <1>7 DEF IsWritten, cur
    <2>2. e = SECTOR_HDR_DATA_SIZE => sector[cur].dirty = "FALSE"
        BY <1>2 DEF Filling, cur, e
    <2>3. QED BY <1>3, <1>4, <1>8, <1>9, <2>1, <2>2 DEF Filling
<1>s. Spare(c, w2)'
    BY <1>2, <1>3 DEF Spare, GcPc
<1>n. pc' # "init" => w2 = NextFree'
    BY <1>3 DEF NextFree, Moving
<1>d. Dist(oldest_addr', SecOf(w2)) = c /\ c \in 0..(SecNum - 1) /\ w2 \in Addr
    BY <1>2, <1>3, <1>4 DEF cur
<1>c. Collecting'
    BY <1>3 DEF Collecting, GcPc, Moving
<1>q. QED BY <1>r, <1>f, <1>s, <1>n, <1>d, <1>c DEF LayoutInv, Layout

LEMMA MarkDirtyLayout ==
    ASSUME IInv, Conditions, MarkDirty
    PROVE  LayoutInv'
<1>1. PICK c \in 0..(SecNum - 1), w \in Addr : Layout(c, w)
    BY DEF IInv, LayoutInv
<1>2. /\ SecOf(w) \in Sector /\ oldest_addr \in Sector /\ IsFlash(sector)
      /\ c \in Nat /\ c < SecNum /\ Dist(oldest_addr, SecOf(w)) = c
      /\ Ring(c, SecOf(w)) /\ Filling(c, w) /\ Spare(c, w) /\ Collecting
      /\ TypeInv /\ ContentsInv
    BY <1>1, AddrFacts, Sizes DEF Layout, LayoutInv, IInv, TypeInv, RamType
<1>3. /\ pc = "dirty" /\ pc' = "data" /\ oldest_addr' = oldest_addr /\ empty_kv' = empty_kv
      /\ w = empty_kv
    BY <1>1 DEF MarkDirty, Layout, NextFree, Moving
<1>4. SecOf(w) = SecOf(ctx.new)
    <2>1. /\ ctx.new \in Addr /\ OffOf(ctx.new) \in DOMAIN sector[SecOf(ctx.new)].kv
          /\ KvAt(ctx.new).len = Len[op.val] /\ RecordEnd(ctx.new, Len[op.val]) = w
        BY <1>2, <1>3 DEF ContentsInv, SettingInv, TypeInv, OpType, Writing
    <2>2. Room(OffOf(ctx.new), KvAt(ctx.new).len) /\ KvAt(ctx.new).len \in Nat
        BY <1>2, <2>1, SectorFacts, AddrFacts, Sizes DEF KvAt, KvRecord
    <2>3. QED BY <2>1, <2>2, AddrPlus DEF RecordEnd
<1>5. IsDirtied(sector', sector, SecOf(w), "TRUE")
    BY <1>2, <1>4, DirtiedFacts DEF MarkDirty, DirtyMark
<1>r. Ring(c, SecOf(w))'
    <2>1. \A t \in Sector : t # SecOf(w) => SameSector(sector'[t], sector[t])
        BY <1>5, SameItself DEF IsDirtied
    <2>2. Tiled(sector'[SecOf(w)].kv) /\ sector'[SecOf(w)].dirty = "TRUE"
        BY <1>2, <1>5 DEF IsDirtied, Ring
    <2>3. QED BY <1>2, <1>3, <2>1, <2>2, RingStep DEF GcPc
<1>f. Filling(c, w)'
    <2>1. OffOf(w) # SECTOR_HDR_DATA_SIZE /\ sector[SecOf(w)].store = "USING"
        BY <1>2, <1>3 DEF Filling, Fresh, Empty
    <2>2. QED BY <1>2, <1>3, <1>5, <2>1 DEF Filling, IsDirtied
<1>s. Spare(c, w)'
    BY <1>2, <1>3 DEF Spare, GcPc
<1>n. pc' # "init" => w = NextFree'
    BY <1>3 DEF NextFree, Moving
<1>d. Dist(oldest_addr', SecOf(w)) = c /\ c \in 0..(SecNum - 1) /\ w \in Addr
    BY <1>1, <1>2, <1>3
<1>c. Collecting'
    BY <1>3 DEF Collecting, GcPc, Moving
<1>q. QED BY <1>r, <1>f, <1>s, <1>n, <1>d, <1>c DEF LayoutInv, Layout

(* What the garbage collection may rely on.                                *)
LEMMA CollectingFacts ==
    ASSUME TypeInv, Collecting, pc \in GcPc \ {"gc", "gc_format"},
           NEW c \in Nat, NEW w \in Addr, c = Dist(oldest_addr, SecOf(w)),
           Ring(c, SecOf(w)), Spare(c, w), Filling(c, w)
    PROVE  /\ c > 0 /\ SecOf(w) # oldest_addr /\ Tiled(From.kv)
           /\ \A o \in DOMAIN From.kv : o \in Nat /\ From.kv[o].len \in Nat
                                      /\ From.kv[o].len > 0 /\ Room(o, From.kv[o].len)
                                      /\ From.kv[o] \in KvRecord
           /\ gc.off \in DOMAIN From.kv =>
                /\ Follow(From.kv, gc.off + From.kv[gc.off].len)
                /\ \A o \in DOMAIN From.kv : o > gc.off => o >= gc.off + From.kv[gc.off].len
           /\ ~Fresh => OffOf(w) # SECTOR_HDR_DATA_SIZE
           /\ sector[SecOf(w)].store = IF pc = "gc_next" THEN "FULL" ELSE "USING"
<1>1. c > 0 /\ oldest_addr \in Sector /\ SecOf(w) \in Sector
    BY AddrFacts DEF Spare, TypeInv, RamType
<1>2. SecOf(w) # oldest_addr
    BY <1>1, DistFacts
<1>3. Tiled(From.kv)
    BY <1>1 DEF Ring, From
<1>4. \A o \in DOMAIN From.kv : o \in Nat /\ From.kv[o].len \in Nat
                                /\ From.kv[o].len > 0 /\ Room(o, From.kv[o].len)
                                /\ From.kv[o] \in KvRecord
    BY <1>1, SectorFacts, Sizes DEF TypeInv, From, KvRecord
<1>5. ASSUME gc.off \in DOMAIN From.kv
      PROVE  /\ Follow(From.kv, gc.off + From.kv[gc.off].len)
             /\ \A o \in DOMAIN From.kv : o > gc.off => o >= gc.off + From.kv[gc.off].len
    BY <1>3, <1>4, <1>5 DEF Follow, Tiled
<1>6. sector[SecOf(w)].store = IF pc = "gc_next" THEN "FULL" ELSE "USING"
    BY <1>1 DEF Filling, GcPc
<1>7. ~Fresh => OffOf(w) # SECTOR_HDR_DATA_SIZE
    BY <1>6 DEF Filling
<1>8. QED BY <1>1, <1>2, <1>3, <1>4, <1>5, <1>6, <1>7

LEMMA GcBeginLayout ==
    ASSUME IInv, Conditions, GcBegin
    PROVE  LayoutInv'
<1>1. PICK c \in 0..(SecNum - 1), w \in Addr : Layout(c, w)
    BY DEF IInv, LayoutInv
<1>2. /\ SecOf(w) \in Sector /\ oldest_addr \in Sector /\ IsFlash(sector)
      /\ c \in Nat /\ c < SecNum /\ Dist(oldest_addr, SecOf(w)) = c
      /\ Ring(c, SecOf(w)) /\ Filling(c, w) /\ Spare(c, w) /\ Collecting
      /\ TypeInv /\ ContentsInv
    BY <1>1, AddrFacts, Sizes DEF Layout, LayoutInv, IInv, TypeInv, RamType
<1>3. /\ pc = "gc" /\ pc' = "gc_scan" /\ oldest_addr' = oldest_addr /\ w = empty_kv
    BY <1>1 DEF GcBegin, Layout, NextFree, Moving, volatile
<1>4. c > 0 /\ SecOf(w) # oldest_addr
    BY <1>2, <1>3, DistFacts DEF Spare, GcPc
<1>5. sector[oldest_addr].dirty \in {"TRUE", "GC"} /\ sector[oldest_addr].store = "FULL"
      /\ Dist(oldest_addr, oldest_addr) = 0
    BY <1>2, <1>3, <1>4, DistFacts DEF Ring
<1>6. IsDirtied(sector', sector, oldest_addr, "GC")
    <2>1. CASE sector[oldest_addr].dirty = "TRUE"
        BY <1>2, <2>1, DirtiedFacts DEF GcBegin, DirtyMark
    <2>2. CASE sector[oldest_addr].dirty = "GC"
        BY <1>2, <2>2 DEF GcBegin, IsDirtied
    <2>3. QED BY <1>5, <2>1, <2>2
<1>7. gc' = [off |-> SECTOR_HDR_DATA_SIZE, next |-> w, dirty |-> sector[oldest_addr].dirty]
    BY <1>3 DEF GcBegin
<1>r. Ring(c, SecOf(w))'
    <2> SUFFICES ASSUME NEW s \in Sector
                 PROVE  /\ Tiled(sector'[s].kv)
                        /\ Dist(oldest_addr, s) < c =>
                             sector'[s].store = "FULL" /\ sector'[s].dirty \in {"TRUE", "GC"}
                        /\ Dist(oldest_addr, s) = c => s = SecOf(w)
                        /\ Dist(oldest_addr, s) > c => sector'[s] = Empty
                        /\ sector'[s].dirty = "GC" => s = oldest_addr
        BY <1>3, <1>4 DEF Ring, GcPc
    <2>1. CASE s = oldest_addr
        BY <1>2, <1>4, <1>5, <1>6, <2>1 DEF Ring, IsDirtied
    <2>2. CASE s # oldest_addr
        BY <1>2, <1>3, <1>6, <2>2 DEF Ring, IsDirtied
    <2>3. QED BY <2>1, <2>2
<1>f. Filling(c, w)'
    BY <1>2, <1>3, <1>4, <1>6 DEF Filling, Fresh, IsDirtied, Moving
<1>s. Spare(c, w)'
    BY <1>2, <1>3, <1>4, <1>6 DEF Spare, GcPc, IsDirtied, From, LiveAt
<1>n. pc' # "init" => w = NextFree'
    BY <1>3, <1>7 DEF NextFree, Moving
<1>d. Dist(oldest_addr', SecOf(w)) = c /\ c \in 0..(SecNum - 1) /\ w \in Addr
    BY <1>1, <1>2, <1>3
<1>c. Collecting'
    <2>1. From.dirty' = "GC" /\ From.kv' = From.kv
        BY <1>2, <1>3, <1>6 DEF From, IsDirtied
    <2>2. Follow(From.kv, gc.off)'
        BY <1>7 DEF Follow
    <2>3. \A o \in DOMAIN From.kv : o >= SECTOR_HDR_DATA_SIZE
        BY <1>2, SectorFacts DEF From, SECTOR_HDR_DATA_SIZE
    <2>4. QED BY <1>3, <1>7, <2>1, <2>2, <2>3 DEF Collecting, GcPc, Moving
<1>q. QED BY <1>r, <1>f, <1>s, <1>n, <1>d, <1>c DEF LayoutInv, Layout

LEMMA GcSkipLayout ==
    ASSUME IInv, Conditions, GcSkip
    PROVE  LayoutInv'
<1>1. PICK c \in 0..(SecNum - 1), w \in Addr : Layout(c, w)
    BY DEF IInv, LayoutInv
<1>2. /\ SecOf(w) \in Sector /\ oldest_addr \in Sector /\ IsFlash(sector)
      /\ c \in Nat /\ c < SecNum /\ Dist(oldest_addr, SecOf(w)) = c
      /\ Ring(c, SecOf(w)) /\ Filling(c, w) /\ Spare(c, w) /\ Collecting
      /\ TypeInv /\ ContentsInv
    BY <1>1, AddrFacts, Sizes DEF Layout, LayoutInv, IInv, TypeInv, RamType
<1>3. /\ pc = "gc_scan" /\ pc' = "gc_scan" /\ oldest_addr' = oldest_addr /\ w = gc.next
    BY <1>1 DEF GcSkip, Layout, NextFree, Moving, volatile
<1>4. /\ c > 0 /\ SecOf(w) # oldest_addr /\ Tiled(From.kv)
      /\ \A o \in DOMAIN From.kv : o \in Nat /\ From.kv[o].len \in Nat
                                 /\ From.kv[o].len > 0 /\ Room(o, From.kv[o].len)
                                 /\ From.kv[o] \in KvRecord
      /\ gc.off \in DOMAIN From.kv =>
           /\ Follow(From.kv, gc.off + From.kv[gc.off].len)
           /\ \A o \in DOMAIN From.kv : o > gc.off => o >= gc.off + From.kv[gc.off].len
      /\ ~Fresh => OffOf(w) # SECTOR_HDR_DATA_SIZE
      /\ sector[SecOf(w)].store = IF pc = "gc_next" THEN "FULL" ELSE "USING"
    BY <1>2, <1>3, CollectingFacts DEF GcPc
<1>5. /\ sector' = sector /\ gc.off \in DOMAIN From.kv /\ ~LiveAt(oldest_addr, gc.off)
      /\ gc'.off = gc.off + From.kv[gc.off].len /\ gc'.next = gc.next
    <2>1. gc \in [off : Nat, next : Addr \cup {0}, dirty : DirtyMark]
        BY <1>2 DEF TypeInv, RamType
    <2>2. QED BY <2>1 DEF GcSkip, AtEnd, LiveAt, From
<1>r. Ring(c, SecOf(w))'
    BY <1>2, <1>3, <1>5, RingSame, SameItself
<1>f. Filling(c, w)'
    BY <1>2, <1>3, <1>4, <1>5 DEF Filling, Fresh, Moving
<1>s. Spare(c, w)'
    BY <1>2, <1>3, <1>5 DEF Spare, GcPc, From, LiveAt
<1>n. pc' # "init" => w = NextFree'
    BY <1>3, <1>5 DEF NextFree, Moving
<1>d. Dist(oldest_addr', SecOf(w)) = c /\ c \in 0..(SecNum - 1) /\ w \in Addr
    BY <1>1, <1>2, <1>3
<1>c. Collecting'
    <2>1. From' = From
        BY <1>3, <1>5 DEF From
    <2>2. From.dirty = "GC" /\ \A o \in DOMAIN From.kv : LiveAt(oldest_addr, o) => o >= gc.off
        BY <1>2, <1>3 DEF Collecting, GcPc
    <2>3. gc.off \in Nat
        BY <1>4, <1>5
    <2>4. \A o \in DOMAIN From.kv : LiveAt(oldest_addr, o) => o >= gc'.off
        BY <1>4, <1>5, <2>2, <2>3
    <2>5. \A o : LiveAt(oldest_addr, o)' = LiveAt(oldest_addr, o)
        BY <1>3, <1>5 DEF LiveAt
    <2>6. QED BY <1>3, <1>4, <1>5, <2>1, <2>2, <2>4, <2>5 DEF Collecting, GcPc, Moving
<1>q. QED BY <1>r, <1>f, <1>s, <1>n, <1>d, <1>c DEF LayoutInv, Layout

(* The record being moved is marked, and stays valid or is deleted.        *)
LEMMA MovedFacts ==
    ASSUME TypeInv, gc.off \in DOMAIN From.kv, oldest_addr' = oldest_addr,
           NEW status \in Status, sector' = Marked(sector, Moved, status)
    PROVE  /\ Moved \in Addr /\ SecOf(Moved) = oldest_addr /\ OffOf(Moved) = gc.off
           /\ IsPatched(sector', sector, oldest_addr, gc.off, WithStatus(From.kv[gc.off], status))
           /\ \A t \in Sector : SameSector(sector'[t], sector[t])
           /\ DOMAIN From.kv' = DOMAIN From.kv /\ From.dirty' = From.dirty
           /\ \A o \in DOMAIN From.kv : From'.kv[o].len = From.kv[o].len
           /\ From'.kv[gc.off].status = status
           /\ \A o \in DOMAIN From.kv :
                o # gc.off => From'.kv[o] = From.kv[o]
<1>1. oldest_addr \in Sector /\ IsFlash(sector)
    BY DEF TypeInv, RamType
<1>2. gc.off \in 1..(sec_size - KV_HDR_DATA_SIZE) /\ From.kv[gc.off] \in KvRecord
    BY <1>1, SectorFacts, Sizes DEF From, Room, KvRecord, KV_HDR_DATA_SIZE
<1>3. Moved \in Addr /\ SecOf(Moved) = oldest_addr /\ OffOf(Moved) = gc.off
    BY <1>1, <1>2, AddrOfFacts DEF Moved
<1>4. IsPatched(sector', sector, oldest_addr, gc.off, WithStatus(From.kv[gc.off], status))
    BY <1>1, <1>3, MarkedFacts DEF IsMarked, From
<1>5. \A t \in Sector : SameSector(sector'[t], sector[t])
    BY <1>1, <1>4, PatchedSame DEF From
<1>6. WithStatus(From.kv[gc.off], status).status = status
    BY <1>2, WithStatusFacts
<1>7. QED BY <1>1, <1>3, <1>4, <1>5, <1>6 DEF IsPatched, From

(* The record to move is marked as one that is about to be deleted.        *)
LEMMA PreDeletedLayout ==
    ASSUME TypeInv, Collecting, NEW c \in Nat, NEW w \in Addr, c = Dist(oldest_addr, SecOf(w)),
           Ring(c, SecOf(w)), Filling(c, w), Spare(c, w),
           pc \in {"gc_scan", "gc_pre_delete"}, pc' = "gc_header", gc' = gc, w = gc.next,
           oldest_addr' = oldest_addr, gc.off \in DOMAIN From.kv, LiveAt(oldest_addr, gc.off),
           sector' = Marked(sector, Moved, "PRE_DELETE"),
           IF OffOf(w) = SECTOR_HDR_DATA_SIZE
           THEN sector[SecOf(w)].dirty = "FALSE" /\ gc.dirty = "FALSE"
           ELSE sector[SecOf(w)].dirty = "TRUE"
    PROVE  Ring(c, SecOf(w))' /\ Filling(c, w)' /\ Collecting' /\ Spare(c, w)'
<1>1. /\ c > 0 /\ Tiled(From.kv)
      /\ sector[SecOf(w)].store = "USING"
    BY CollectingFacts DEF GcPc
<1>2. /\ \A t \in Sector : SameSector(sector'[t], sector[t])
      /\ DOMAIN From.kv' = DOMAIN From.kv /\ From.dirty' = From.dirty
      /\ From'.kv[gc.off].status = "PRE_DELETE"
      /\ \A o \in DOMAIN From.kv : o # gc.off => From'.kv[o] = From.kv[o]
    BY MovedFacts DEF Status
<1>3. SecOf(w) \in Sector /\ oldest_addr \in Sector
    BY AddrFacts DEF TypeInv, RamType
<1>4. Ring(c, SecOf(w))'
    BY <1>2, <1>3, RingSame DEF GcPc
<1>5. /\ FreeAt(sector'[SecOf(w)].kv, OffOf(w))
      /\ sector'[SecOf(w)].store = sector[SecOf(w)].store
      /\ sector'[SecOf(w)].dirty = sector[SecOf(w)].dirty
    BY <1>2, <1>3, CurSame DEF Filling
<1>6. Filling(c, w)'
    BY <1>1, <1>5 DEF Filling, Fresh
<1>7. \A o \in DOMAIN From.kv : LiveAt(oldest_addr, o)' <=> LiveAt(oldest_addr, o)
    BY <1>2 DEF LiveAt, From, Live
<1>8. SameKv(From'.kv, From.kv)
    BY <1>2, <1>3 DEF From, SameSector
<1>9. Follow(From'.kv, gc.off)
    BY <1>8, SameKvFacts DEF Collecting, GcPc
<1>10. Collecting'
    <2>1. From'.dirty = "GC" /\ LiveAt(oldest_addr, gc.off)'
        BY <1>2, <1>7 DEF Collecting, GcPc
    <2>2. \A o \in DOMAIN From'.kv : LiveAt(oldest_addr, o)' => o >= gc.off
        BY <1>2, <1>7 DEF Collecting, GcPc
    <2>3. QED BY <1>9, <2>1, <2>2 DEF Collecting, GcPc, Moving
<1>11. Spare(c, w)'
    <2>1. c = SecNum - 1 =>
            /\ From'.dirty = "GC"
            /\ \A o \in DOMAIN From'.kv : LiveAt(oldest_addr, o)' => OffOf(w) <= o
        BY <1>2, <1>7 DEF Spare
    <2>2. QED BY <1>1, <2>1 DEF Spare, GcPc
<1>12. QED BY <1>4, <1>6, <1>10, <1>11

LEMMA GcPrepareLayout ==
    ASSUME IInv, Conditions, GcPrepare
    PROVE  LayoutInv'
<1>1. PICK c \in 0..(SecNum - 1), w \in Addr : Layout(c, w)
    BY DEF IInv, LayoutInv
<1>2. /\ SecOf(w) \in Sector /\ oldest_addr \in Sector /\ IsFlash(sector)
      /\ c \in Nat /\ c < SecNum /\ Dist(oldest_addr, SecOf(w)) = c
      /\ Ring(c, SecOf(w)) /\ Filling(c, w) /\ Spare(c, w) /\ Collecting
      /\ TypeInv /\ ContentsInv
    BY <1>1, AddrFacts, Sizes DEF Layout, LayoutInv, IInv, TypeInv, RamType
<1>3. /\ pc = "gc_scan" /\ pc' \in {"gc_next", "gc_header"} /\ oldest_addr' = oldest_addr /\ w = gc.next
      /\ gc' = gc
    BY <1>1 DEF GcPrepare, Layout, NextFree, Moving, volatile
<1>4. /\ c > 0 /\ SecOf(w) # oldest_addr /\ Tiled(From.kv)
      /\ \A o \in DOMAIN From.kv : o \in Nat /\ From.kv[o].len \in Nat
                                 /\ From.kv[o].len > 0 /\ Room(o, From.kv[o].len)
                                 /\ From.kv[o] \in KvRecord
      /\ gc.off \in DOMAIN From.kv =>
           /\ Follow(From.kv, gc.off + From.kv[gc.off].len)
           /\ \A o \in DOMAIN From.kv : o > gc.off => o >= gc.off + From.kv[gc.off].len
      /\ ~Fresh => OffOf(w) # SECTOR_HDR_DATA_SIZE
      /\ sector[SecOf(w)].store = IF pc = "gc_next" THEN "FULL" ELSE "USING"
    BY <1>2, <1>3, CollectingFacts DEF GcPc
<1>5. /\ gc.off \in DOMAIN From.kv /\ LiveAt(oldest_addr, gc.off)
      /\ ~Fresh /\ OffOf(w) # SECTOR_HDR_DATA_SIZE
    BY <1>3, <1>4 DEF GcPrepare, AtEnd, LiveAt, From, Fresh
<1>6. sector[SecOf(w)].dirty = "TRUE"
    BY <1>2, <1>3, <1>5 DEF Filling, Moving
<1>7. \/ /\ pc' = "gc_next" /\ sector' = Stored(sector, SecOf(w), "FULL")
         /\ OffOf(w) + From.kv[gc.off].len + KV_HDR_DATA_SIZE >= sec_size
      \/ pc' = "gc_header" /\ sector' = Marked(sector, Moved, "PRE_DELETE")
    BY <1>3, <1>4 DEF GcPrepare, PreDeleted
<1>8. ASSUME pc' = "gc_next" PROVE c < SecNum - 1
    <2>1. SUFFICES ASSUME c = SecNum - 1 PROVE FALSE
        BY <1>2, Sizes
    <2>2. OffOf(w) <= gc.off
        BY <1>2, <1>3, <1>5, <2>1 DEF Spare
    <2>3. FreeAt(sector[SecOf(w)].kv, OffOf(w)) /\ Tiled(sector[SecOf(w)].kv)
          /\ ClearOfTheLimits /\ OffOf(w) \in 1..(sec_size - KV_HDR_DATA_SIZE)
        BY <1>2, AddrFacts DEF Filling, Ring, Conditions
    <2>4. OffOf(w) \in Ends /\ Clear(Ends)
        BY <1>2, <2>3, FreeInEnds, EndsFacts
    <2>5. PICK v \in Value : From.kv[gc.off].len = Len[v]
        BY <1>4, <1>5 DEF KvRecord, KvLen
    <2>6. OffOf(w) + From.kv[gc.off].len # sec_size - KV_HDR_DATA_SIZE
        BY <2>4, <2>5 DEF Clear
    <2>7. /\ OffOf(w) + From.kv[gc.off].len + KV_HDR_DATA_SIZE >= sec_size
          /\ gc.off + From.kv[gc.off].len + KV_HDR_DATA_SIZE <= sec_size
          /\ gc.off \in Nat /\ From.kv[gc.off].len \in Nat
        BY <1>4, <1>5, <1>7, <1>8 DEF Room
    <2>8. QED BY <2>2, <2>3, <2>6, <2>7, Sizes DEF KV_HDR_DATA_SIZE
<1>9. ASSUME pc' = "gc_next"
      PROVE  Ring(c, SecOf(w))' /\ Filling(c, w)' /\ Collecting' /\ Spare(c, w)'
    <2>1. IsStored(sector', sector, SecOf(w), "FULL")
        BY <1>2, <1>7, <1>9, StoredFacts DEF StoreMark
    <2>2. \A t \in Sector : t # SecOf(w) => SameSector(sector'[t], sector[t])
        BY <2>1, SameItself DEF IsStored
    <2>3. Tiled(sector'[SecOf(w)].kv) /\ sector'[SecOf(w)].dirty = "TRUE"
        BY <1>2, <1>6, <2>1 DEF IsStored, Ring
    <2>4. Ring(c, SecOf(w))'
        BY <1>2, <1>3, <2>2, <2>3, RingStep DEF GcPc
    <2>5. Filling(c, w)'
        BY <1>2, <1>3, <1>5, <1>9, <2>1, <2>3 DEF Filling, IsStored
    <2>6. From' = From
        BY <1>2, <1>3, <1>4, <2>1 DEF From, IsStored
    <2>7. Collecting'
        BY <1>2, <1>3, <1>5, <1>9, <2>6 DEF Collecting, GcPc, Moving, LiveAt, From
    <2>8. Spare(c, w)'
        BY <1>2, <1>4, <1>8, <1>9 DEF Spare, GcPc
    <2>9. QED BY <2>4, <2>5, <2>7, <2>8
<1>10. ASSUME pc' = "gc_header"
       PROVE  Ring(c, SecOf(w))' /\ Filling(c, w)' /\ Collecting' /\ Spare(c, w)'
    <2>1. sector' = Marked(sector, Moved, "PRE_DELETE")
        BY <1>7, <1>10
    <2>2. QED BY <1>2, <1>3, <1>5, <1>6, <1>10, <2>1, PreDeletedLayout
<1>r. Ring(c, SecOf(w))'
    BY <1>7, <1>9, <1>10
<1>f. Filling(c, w)'
    BY <1>7, <1>9, <1>10
<1>s. Spare(c, w)'
    BY <1>7, <1>9, <1>10
<1>n. pc' # "init" => w = NextFree'
    BY <1>3 DEF NextFree, Moving
<1>d. Dist(oldest_addr', SecOf(w)) = c /\ c \in 0..(SecNum - 1) /\ w \in Addr
    BY <1>1, <1>2, <1>3
<1>c. Collecting'
    BY <1>7, <1>9, <1>10
<1>q. QED BY <1>r, <1>f, <1>s, <1>n, <1>d, <1>c DEF LayoutInv, Layout

LEMMA GcPreDeleteLayout ==
    ASSUME IInv, Conditions, GcPreDelete
    PROVE  LayoutInv'
<1>1. PICK c \in 0..(SecNum - 1), w \in Addr : Layout(c, w)
    BY DEF IInv, LayoutInv
<1>2. /\ SecOf(w) \in Sector /\ oldest_addr \in Sector /\ IsFlash(sector)
      /\ c \in Nat /\ c < SecNum /\ Dist(oldest_addr, SecOf(w)) = c
      /\ Ring(c, SecOf(w)) /\ Filling(c, w) /\ Spare(c, w) /\ Collecting
      /\ TypeInv /\ ContentsInv
    BY <1>1, AddrFacts, Sizes DEF Layout, LayoutInv, IInv, TypeInv, RamType
<1>3. /\ pc = "gc_pre_delete" /\ pc' = "gc_header" /\ oldest_addr' = oldest_addr /\ w = gc.next
      /\ gc' = gc /\ sector' = Marked(sector, Moved, "PRE_DELETE")
    BY <1>1 DEF GcPreDelete, PreDeleted, Layout, NextFree, Moving, volatile
<1>4. /\ gc.off \in DOMAIN From.kv /\ LiveAt(oldest_addr, gc.off)
      /\ OffOf(w) = SECTOR_HDR_DATA_SIZE
    BY <1>2, <1>3 DEF TypeInv, GcType, Collecting
<1>5. gc.dirty = "FALSE" /\ sector[SecOf(w)].dirty = "FALSE"
    BY <1>2, <1>3, <1>4 DEF Collecting, Filling
<1>6. Ring(c, SecOf(w))' /\ Filling(c, w)' /\ Collecting' /\ Spare(c, w)'
    BY <1>2, <1>3, <1>4, <1>5, PreDeletedLayout
<1>r. Ring(c, SecOf(w))'
    BY <1>6
<1>f. Filling(c, w)'
    BY <1>6
<1>s. Spare(c, w)'
    BY <1>6
<1>n. pc' # "init" => w = NextFree'
    BY <1>3 DEF NextFree, Moving
<1>d. Dist(oldest_addr', SecOf(w)) = c /\ c \in 0..(SecNum - 1) /\ w \in Addr
    BY <1>1, <1>2, <1>3
<1>c. Collecting'
    BY <1>6
<1>q. QED BY <1>r, <1>f, <1>s, <1>n, <1>d, <1>c DEF LayoutInv, Layout

LEMMA GcNextSectorLayout ==
    ASSUME IInv, Conditions, GcNextSector
    PROVE  LayoutInv'
<1>1. PICK c \in 0..(SecNum - 1), w \in Addr : Layout(c, w)
    BY DEF IInv, LayoutInv
<1>2. /\ SecOf(w) \in Sector /\ oldest_addr \in Sector /\ IsFlash(sector)
      /\ c \in Nat /\ c < SecNum /\ Dist(oldest_addr, SecOf(w)) = c
      /\ Ring(c, SecOf(w)) /\ Filling(c, w) /\ Spare(c, w) /\ Collecting
      /\ TypeInv /\ ContentsInv
    BY <1>1, AddrFacts, Sizes DEF Layout, LayoutInv, IInv, TypeInv, RamType
<1> DEFINE cur  == SecOf(w)
           next == get_next_sec(cur)
           w2   == AddrOf(next, SECTOR_HDR_DATA_SIZE)
<1>3. /\ pc = "gc_next" /\ pc' = "gc_pre_delete" /\ oldest_addr' = oldest_addr /\ w = gc.next
      /\ c < SecNum - 1 /\ SecNum \in Nat /\ gc' = [gc EXCEPT !.next = w2, !.dirty = sector[next].dirty]
    BY <1>1, <1>2, Sizes DEF GcNextSector, Layout, NextFree, Moving, Spare
<1>4. /\ c > 0 /\ SecOf(w) # oldest_addr /\ Tiled(From.kv)
      /\ \A o \in DOMAIN From.kv : o \in Nat /\ From.kv[o].len \in Nat
                                 /\ From.kv[o].len > 0 /\ Room(o, From.kv[o].len)
                                 /\ From.kv[o] \in KvRecord
      /\ gc.off \in DOMAIN From.kv =>
           /\ Follow(From.kv, gc.off + From.kv[gc.off].len)
           /\ \A o \in DOMAIN From.kv : o > gc.off => o >= gc.off + From.kv[gc.off].len
      /\ ~Fresh => OffOf(w) # SECTOR_HDR_DATA_SIZE
      /\ sector[SecOf(w)].store = IF pc = "gc_next" THEN "FULL" ELSE "USING"
    BY <1>2, <1>3, CollectingFacts DEF GcPc
<1>5. /\ next \in Sector /\ Dist(oldest_addr, next) = c + 1
      /\ w2 \in Addr /\ SecOf(w2) = next /\ OffOf(w2) = SECTOR_HDR_DATA_SIZE
      /\ next # oldest_addr /\ next # cur
    <2>1. next \in Sector /\ Dist(oldest_addr, next) = c + 1
        BY <1>2, <1>3, NextSec, DistFacts
    <2>2. w2 \in Addr /\ SecOf(w2) = next /\ OffOf(w2) = SECTOR_HDR_DATA_SIZE
        BY <2>1, FirstOff, AddrOfFacts
    <2>3. next # cur /\ next # oldest_addr
        BY <1>2, <2>1, DistFacts
    <2>4. QED BY <2>1, <2>2, <2>3
<1>6. sector[next] = Empty
    BY <1>2, <1>5 DEF Ring
<1>7. sector[cur].store = "FULL" /\ sector[cur].dirty = "TRUE"
    BY <1>2, <1>3, <1>4 DEF Filling, Fresh, Moving, cur
<1>8. gc'.next = w2 /\ gc'.off = gc.off /\ gc'.dirty = "FALSE"
    <2>1. gc \in [off : Nat, next : Addr \cup {0}, dirty : DirtyMark]
        BY <1>2 DEF TypeInv, RamType
    <2>2. QED BY <1>3, <1>6, <2>1 DEF Empty
<1>9. sector' = Stored(sector, next, "USING")
    BY <1>3, <1>6 DEF GcNextSector, Empty
<1> HIDE DEF cur, next, w2
<1>10. IsStored(sector', sector, next, "USING")
    BY <1>2, <1>5, <1>9, StoredFacts DEF StoreMark
<1>11. /\ \A t \in Sector : t # next => sector'[t] = sector[t]
       /\ sector'[next].kv = << >> /\ sector'[next].store = "USING"
       /\ sector'[next].dirty = "FALSE"
    BY <1>5, <1>6, <1>10 DEF IsStored, Empty
<1>12. From' = From /\ \A o : LiveAt(oldest_addr, o)' = LiveAt(oldest_addr, o)
    BY <1>2, <1>3, <1>5, <1>11 DEF From, LiveAt
<1>r. Ring(c + 1, SecOf(w2))'
    BY <1>2, <1>3, <1>5, <1>7, <1>11, NextRing DEF cur, GcPc
<1>f. Filling(c + 1, w2)'
    BY <1>3, <1>5, <1>11 DEF Filling, FreeAt, Follow, Fresh
<1>s. Spare(c + 1, w2)'
    <2>1. From.dirty = "GC" /\ \A o \in DOMAIN From.kv : o >= SECTOR_HDR_DATA_SIZE
        BY <1>2, <1>3, <1>4, SectorFacts DEF Collecting, GcPc, From, SECTOR_HDR_DATA_SIZE
    <2>2. QED BY <1>2, <1>3, <1>5, <1>12, <2>1 DEF Spare, GcPc
<1>n. pc' # "init" => w2 = NextFree'
    BY <1>3, <1>8 DEF NextFree, Moving
<1>d. Dist(oldest_addr', SecOf(w2)) = c + 1 /\ c + 1 \in 0..(SecNum - 1) /\ w2 \in Addr
    BY <1>2, <1>3, <1>5
<1>c. Collecting'
    <2>1. /\ From.dirty = "GC" /\ Follow(From.kv, gc.off) /\ LiveAt(oldest_addr, gc.off)
          /\ \A o \in DOMAIN From.kv : LiveAt(oldest_addr, o) => o >= gc.off
        BY <1>2, <1>3 DEF Collecting, GcPc
    <2>2. QED BY <1>3, <1>8, <1>12, <2>1 DEF Collecting, GcPc, Moving
<1>q. QED BY <1>r, <1>f, <1>s, <1>n, <1>d, <1>c DEF LayoutInv, Layout

LEMMA GcWriteLayout ==
    ASSUME IInv, Conditions, GcWrite
    PROVE  LayoutInv'
<1>1. PICK c \in 0..(SecNum - 1), w \in Addr : Layout(c, w)
    BY DEF IInv, LayoutInv
<1>2. /\ SecOf(w) \in Sector /\ oldest_addr \in Sector /\ IsFlash(sector)
      /\ c \in Nat /\ c < SecNum /\ Dist(oldest_addr, SecOf(w)) = c
      /\ Ring(c, SecOf(w)) /\ Filling(c, w) /\ Spare(c, w) /\ Collecting
      /\ TypeInv /\ ContentsInv
    BY <1>1, AddrFacts, Sizes DEF Layout, LayoutInv, IInv, TypeInv, RamType
<1> DEFINE cur == SecOf(w)
           e   == OffOf(w)
<1> PICK rec : rec = [From.kv[gc.off] EXCEPT !.status = "PRE_WRITE"]
    OBVIOUS
<1> PICK w2 : w2 = w + rec.len
    OBVIOUS
<1>3. /\ pc = "gc_header" /\ pc' = "gc_commit" /\ oldest_addr' = oldest_addr /\ w = gc.next
      /\ gc' = gc /\ sector' = Recorded(sector, w, rec)
    BY <1>1 DEF GcWrite, Layout, NextFree, Moving, volatile
<1>4. /\ c > 0 /\ SecOf(w) # oldest_addr /\ Tiled(From.kv)
      /\ \A o \in DOMAIN From.kv : o \in Nat /\ From.kv[o].len \in Nat
                                 /\ From.kv[o].len > 0 /\ Room(o, From.kv[o].len)
                                 /\ From.kv[o] \in KvRecord
      /\ gc.off \in DOMAIN From.kv =>
           /\ Follow(From.kv, gc.off + From.kv[gc.off].len)
           /\ \A o \in DOMAIN From.kv : o > gc.off => o >= gc.off + From.kv[gc.off].len
      /\ ~Fresh => OffOf(w) # SECTOR_HDR_DATA_SIZE
      /\ sector[SecOf(w)].store = IF pc = "gc_next" THEN "FULL" ELSE "USING"
    BY <1>2, <1>3, CollectingFacts DEF GcPc
<1>5. /\ gc.off \in DOMAIN From.kv /\ LiveAt(oldest_addr, gc.off)
      /\ Room(e, From.kv[gc.off].len)
      /\ e = SECTOR_HDR_DATA_SIZE => gc.dirty = "FALSE"
    BY <1>2, <1>3 DEF TypeInv, GcType, Collecting
<1>6. rec \in KvRecord /\ rec.len = From.kv[gc.off].len /\ rec.len \in Nat /\ rec.len > 0
    BY <1>4, <1>5 DEF KvRecord, Status
<1>7. /\ w2 \in Addr /\ SecOf(w2) = cur /\ OffOf(w2) = e + rec.len
      /\ e + rec.len # SECTOR_HDR_DATA_SIZE /\ e \in Nat
    BY <1>5, <1>6, AddrPlus, AddrFacts DEF SECTOR_HDR_DATA_SIZE
<1>8. IsWritten(sector', sector, cur, e, rec)
    BY <1>2, <1>3, <1>5, <1>6, RecordedFacts
<1>9. Tiled(sector[cur].kv) /\ FreeAt(sector[cur].kv, e)
    BY <1>2, <1>3 DEF Ring, Filling
<1>10. Tiled(sector'[cur].kv) /\ FreeAt(sector'[cur].kv, e + rec.len)
    BY <1>2, <1>5, <1>6, <1>7, <1>8, <1>9, WrittenTiled DEF Conditions
<1>11. IF e = SECTOR_HDR_DATA_SIZE THEN sector[cur].dirty = "FALSE" ELSE sector[cur].dirty = "TRUE"
    BY <1>2, <1>3 DEF Filling, Moving
<1>12. From' = From /\ \A o : LiveAt(oldest_addr, o)' = LiveAt(oldest_addr, o)
    BY <1>2, <1>3, <1>4, <1>8 DEF From, LiveAt, IsWritten
<1>13. /\ From.dirty = "GC" /\ Follow(From.kv, gc.off)
       /\ \A o \in DOMAIN From.kv : LiveAt(oldest_addr, o) => o >= gc.off
    BY <1>2, <1>3 DEF Collecting, GcPc
<1> HIDE DEF cur, e
<1>r. Ring(c, SecOf(w2))'
    <2>1. \A t \in Sector : t # cur => SameSector(sector'[t], sector[t])
        BY <1>8, SameItself DEF IsWritten
    <2>2. sector'[cur].dirty = sector[cur].dirty
        BY <1>2, <1>8 DEF IsWritten, cur
    <2>3. QED BY <1>2, <1>3, <1>7, <1>10, <2>1, <2>2, RingStep DEF cur, GcPc
<1>f. Filling(c, w2)'
    <2>1. sector'[cur].dirty = sector[cur].dirty /\ sector'[cur].store = "USING"
        BY <1>2, <1>3, <1>4, <1>8 DEF IsWritten, cur
    <2>2. QED BY <1>3, <1>7, <1>10, <1>11, <2>1 DEF Filling, Moving, cur, e
<1>s. Spare(c, w2)'
    <2>1. ASSUME c = SecNum - 1, NEW o \in DOMAIN From.kv, LiveAt(oldest_addr, o), o # gc.off
          PROVE  OffOf(w2) <= o
        <3>1. e <= gc.off
            BY <1>2, <1>3, <1>5, <2>1 DEF Spare, e
        <3>2. o >= gc.off + rec.len /\ gc.off \in Nat /\ o \in Nat
            BY <1>4, <1>5, <1>6, <1>13, <2>1
        <3>3. QED BY <1>6, <1>7, <3>1, <3>2
    <2>2. QED BY <1>2, <1>3, <1>4, <1>12, <1>13, <2>1 DEF Spare, GcPc
<1>n. pc' # "init" => w2 = NextFree'
    <2>1. w2 = gc'.next + From'.kv[gc'.off].len
        BY <1>3, <1>6, <1>12
    <2>2. QED BY <1>3, <2>1 DEF NextFree, Moving
<1>d. Dist(oldest_addr', SecOf(w2)) = c /\ c \in 0..(SecNum - 1) /\ w2 \in Addr
    BY <1>1, <1>2, <1>3, <1>7 DEF cur
<1>c. Collecting'
    BY <1>3, <1>5, <1>12, <1>13 DEF Collecting, GcPc, Moving, e
<1>q. QED BY <1>r, <1>f, <1>s, <1>n, <1>d, <1>c DEF LayoutInv, Layout

LEMMA GcCommitLayout ==
    ASSUME IInv, Conditions, GcCommit
    PROVE  LayoutInv'
<1>1. PICK c \in 0..(SecNum - 1), w \in Addr : Layout(c, w)
    BY DEF IInv, LayoutInv
<1>2. /\ SecOf(w) \in Sector /\ oldest_addr \in Sector /\ IsFlash(sector)
      /\ c \in Nat /\ c < SecNum /\ Dist(oldest_addr, SecOf(w)) = c
      /\ Ring(c, SecOf(w)) /\ Filling(c, w) /\ Spare(c, w) /\ Collecting
      /\ TypeInv /\ ContentsInv
    BY <1>1, AddrFacts, Sizes DEF Layout, LayoutInv, IInv, TypeInv, RamType
<1>3. /\ pc = "gc_commit" /\ pc' = "gc_delete" /\ oldest_addr' = oldest_addr /\ w = gc.next + From.kv[gc.off].len
      /\ gc' = gc
    BY <1>1 DEF GcCommit, Layout, NextFree, Moving, volatile
<1>4. /\ c > 0 /\ SecOf(w) # oldest_addr /\ Tiled(From.kv)
      /\ \A o \in DOMAIN From.kv : o \in Nat /\ From.kv[o].len \in Nat
                                 /\ From.kv[o].len > 0 /\ Room(o, From.kv[o].len)
                                 /\ From.kv[o] \in KvRecord
      /\ gc.off \in DOMAIN From.kv =>
           /\ Follow(From.kv, gc.off + From.kv[gc.off].len)
           /\ \A o \in DOMAIN From.kv : o > gc.off => o >= gc.off + From.kv[gc.off].len
      /\ ~Fresh => OffOf(w) # SECTOR_HDR_DATA_SIZE
      /\ sector[SecOf(w)].store = IF pc = "gc_next" THEN "FULL" ELSE "USING"
    BY <1>2, <1>3, CollectingFacts DEF GcPc
<1>5. /\ gc.next \in Addr /\ SecOf(gc.next) = SecOf(w) /\ gc.off \in DOMAIN From.kv
      /\ OffOf(w) # SECTOR_HDR_DATA_SIZE
    <2>1. /\ gc.next \in Addr /\ gc.off \in DOMAIN From.kv
          /\ Room(OffOf(gc.next), From.kv[gc.off].len)
        BY <1>2, <1>3 DEF TypeInv, GcType, GcPc, Moving
    <2>2. SecOf(gc.next) = SecOf(w)
        BY <1>3, <1>4, <2>1, AddrPlus
    <2>3. QED BY <1>3, <1>4, <2>1, <2>2 DEF Fresh
<1>6. IsMarked(sector', sector, gc.next, "WRITE") /\ \A t \in Sector : SameSector(sector'[t], sector[t])
    <2>1. OffOf(gc.next) \in DOMAIN sector[SecOf(gc.next)].kv
        BY <1>2, <1>3 DEF ContentsInv, MovingInv, Moving
    <2>2. QED BY <1>2, <1>5, <2>1, MarkedSame, MarkedFacts DEF GcCommit, Status
<1>7. From' = From /\ \A o : LiveAt(oldest_addr, o)' = LiveAt(oldest_addr, o)
    BY <1>2, <1>3, <1>4, <1>5, <1>6 DEF From, LiveAt, IsMarked, IsPatched
<1>r. Ring(c, SecOf(w))'
    BY <1>2, <1>3, <1>6, RingSame DEF GcPc
<1>f. Filling(c, w)'
    <2>1. /\ FreeAt(sector'[SecOf(w)].kv, OffOf(w))
          /\ sector'[SecOf(w)].store = sector[SecOf(w)].store
          /\ sector'[SecOf(w)].dirty = sector[SecOf(w)].dirty
        BY <1>2, <1>6, CurSame DEF Filling
    <2>2. QED BY <1>2, <1>3, <1>4, <1>5, <2>1 DEF Filling, Moving
<1>s. Spare(c, w)'
    BY <1>2, <1>3, <1>4, <1>7 DEF Spare, GcPc
<1>n. pc' # "init" => w = NextFree'
    BY <1>3, <1>7 DEF NextFree, Moving
<1>d. Dist(oldest_addr', SecOf(w)) = c /\ c \in 0..(SecNum - 1) /\ w \in Addr
    BY <1>1, <1>2, <1>3
<1>c. Collecting'
    BY <1>2, <1>3, <1>7 DEF Collecting, GcPc, Moving
<1>q. QED BY <1>r, <1>f, <1>s, <1>n, <1>d, <1>c DEF LayoutInv, Layout

LEMMA GcDeleteLayout ==
    ASSUME IInv, Conditions, GcDelete
    PROVE  LayoutInv'
<1>1. PICK c \in 0..(SecNum - 1), w \in Addr : Layout(c, w)
    BY DEF IInv, LayoutInv
<1>2. /\ SecOf(w) \in Sector /\ oldest_addr \in Sector /\ IsFlash(sector)
      /\ c \in Nat /\ c < SecNum /\ Dist(oldest_addr, SecOf(w)) = c
      /\ Ring(c, SecOf(w)) /\ Filling(c, w) /\ Spare(c, w) /\ Collecting
      /\ TypeInv /\ ContentsInv
    BY <1>1, AddrFacts, Sizes DEF Layout, LayoutInv, IInv, TypeInv, RamType
<1>3. /\ pc = "gc_delete" /\ pc' = "gc_dirty" /\ oldest_addr' = oldest_addr /\ w = gc.next + From.kv[gc.off].len
      /\ gc' = gc /\ sector' = Marked(sector, Moved, "DELETED")
    BY <1>1 DEF GcDelete, Layout, NextFree, Moving, volatile
<1>4. /\ c > 0 /\ SecOf(w) # oldest_addr /\ Tiled(From.kv)
      /\ \A o \in DOMAIN From.kv : o \in Nat /\ From.kv[o].len \in Nat
                                 /\ From.kv[o].len > 0 /\ Room(o, From.kv[o].len)
                                 /\ From.kv[o] \in KvRecord
      /\ gc.off \in DOMAIN From.kv =>
           /\ Follow(From.kv, gc.off + From.kv[gc.off].len)
           /\ \A o \in DOMAIN From.kv : o > gc.off => o >= gc.off + From.kv[gc.off].len
      /\ ~Fresh => OffOf(w) # SECTOR_HDR_DATA_SIZE
      /\ sector[SecOf(w)].store = IF pc = "gc_next" THEN "FULL" ELSE "USING"
    BY <1>2, <1>3, CollectingFacts DEF GcPc
<1>5. /\ gc.next \in Addr /\ SecOf(gc.next) = SecOf(w) /\ gc.off \in DOMAIN From.kv
      /\ OffOf(w) # SECTOR_HDR_DATA_SIZE
    <2>1. /\ gc.next \in Addr /\ gc.off \in DOMAIN From.kv
          /\ Room(OffOf(gc.next), From.kv[gc.off].len)
        BY <1>2, <1>3 DEF TypeInv, GcType, GcPc, Moving
    <2>2. SecOf(gc.next) = SecOf(w)
        BY <1>3, <1>4, <2>1, AddrPlus
    <2>3. QED BY <1>3, <1>4, <2>1, <2>2 DEF Fresh
<1>6. /\ \A t \in Sector : SameSector(sector'[t], sector[t])
      /\ DOMAIN From.kv' = DOMAIN From.kv /\ From.dirty' = From.dirty
      /\ \A o \in DOMAIN From.kv : From'.kv[o].len = From.kv[o].len
      /\ From'.kv[gc.off].status = "DELETED"
      /\ \A o \in DOMAIN From.kv : o # gc.off => From'.kv[o] = From.kv[o]
    BY <1>2, <1>3, <1>5, MovedFacts DEF Status
<1>7. \A o \in DOMAIN From.kv :
        LiveAt(oldest_addr, o)' <=> LiveAt(oldest_addr, o) /\ o # gc.off
    BY <1>3, <1>5, <1>6 DEF LiveAt, From, Live
<1>r. Ring(c, SecOf(w))'
    BY <1>2, <1>3, <1>6, RingSame DEF GcPc
<1>f. Filling(c, w)'
    <2>1. /\ FreeAt(sector'[SecOf(w)].kv, OffOf(w))
          /\ sector'[SecOf(w)].store = sector[SecOf(w)].store
          /\ sector'[SecOf(w)].dirty = sector[SecOf(w)].dirty
        BY <1>2, <1>6, CurSame DEF Filling
    <2>2. QED BY <1>2, <1>3, <1>4, <1>5, <2>1 DEF Filling, Moving
<1>s. Spare(c, w)'
    <2>1. c = SecNum - 1 =>
            /\ From'.dirty = "GC"
            /\ \A o \in DOMAIN From'.kv : LiveAt(oldest_addr, o)' => OffOf(w) <= o
        BY <1>2, <1>3, <1>6, <1>7 DEF Spare
    <2>2. QED BY <1>3, <1>4, <2>1 DEF Spare, GcPc
<1>n. pc' # "init" => w = NextFree'
    BY <1>3, <1>5, <1>6 DEF NextFree, Moving
<1>d. Dist(oldest_addr', SecOf(w)) = c /\ c \in 0..(SecNum - 1) /\ w \in Addr
    BY <1>1, <1>2, <1>3
<1>c. Collecting'
    <2>1. /\ From.dirty = "GC" /\ Follow(From.kv, gc.off)
          /\ \A o \in DOMAIN From.kv : LiveAt(oldest_addr, o) => o >= gc.off
          /\ OffOf(gc.next) = SECTOR_HDR_DATA_SIZE => gc.dirty = "FALSE"
        BY <1>2, <1>3 DEF Collecting, GcPc, Moving
    <2>2. Follow(From'.kv, gc.off)
        <3>1. SameKv(From'.kv, From.kv)
            BY <1>2, <1>3, <1>6 DEF From, SameSector
        <3>2. QED BY <2>1, <3>1, SameKvFacts
    <2>3. \A o \in DOMAIN From'.kv : LiveAt(oldest_addr, o)' => o >= gc.off /\ o > gc.off
        BY <1>4, <1>5, <1>6, <1>7, <2>1
    <2>4. QED BY <1>3, <1>6, <2>1, <2>2, <2>3 DEF Collecting, GcPc, Moving
<1>q. QED BY <1>r, <1>f, <1>s, <1>n, <1>d, <1>c DEF LayoutInv, Layout

LEMMA GcDirtyLayout ==
    ASSUME IInv, Conditions, GcDirty
    PROVE  LayoutInv'
<1>1. PICK c \in 0..(SecNum - 1), w \in Addr : Layout(c, w)
    BY DEF IInv, LayoutInv
<1>2. /\ SecOf(w) \in Sector /\ oldest_addr \in Sector /\ IsFlash(sector)
      /\ c \in Nat /\ c < SecNum /\ Dist(oldest_addr, SecOf(w)) = c
      /\ Ring(c, SecOf(w)) /\ Filling(c, w) /\ Spare(c, w) /\ Collecting
      /\ TypeInv /\ ContentsInv
    BY <1>1, AddrFacts, Sizes DEF Layout, LayoutInv, IInv, TypeInv, RamType
<1>3. /\ pc = "gc_dirty" /\ pc' = "gc_scan" /\ oldest_addr' = oldest_addr /\ w = gc.next + From.kv[gc.off].len
    BY <1>1 DEF GcDirty, Layout, NextFree, Moving, volatile
<1>4. /\ c > 0 /\ SecOf(w) # oldest_addr /\ Tiled(From.kv)
      /\ \A o \in DOMAIN From.kv : o \in Nat /\ From.kv[o].len \in Nat
                                 /\ From.kv[o].len > 0 /\ Room(o, From.kv[o].len)
                                 /\ From.kv[o] \in KvRecord
      /\ gc.off \in DOMAIN From.kv =>
           /\ Follow(From.kv, gc.off + From.kv[gc.off].len)
           /\ \A o \in DOMAIN From.kv : o > gc.off => o >= gc.off + From.kv[gc.off].len
      /\ ~Fresh => OffOf(w) # SECTOR_HDR_DATA_SIZE
      /\ sector[SecOf(w)].store = IF pc = "gc_next" THEN "FULL" ELSE "USING"
    BY <1>2, <1>3, CollectingFacts DEF GcPc
<1>5. /\ gc.next \in Addr /\ SecOf(gc.next) = SecOf(w) /\ gc.off \in DOMAIN From.kv
      /\ OffOf(w) # SECTOR_HDR_DATA_SIZE
    <2>1. /\ gc.next \in Addr /\ gc.off \in DOMAIN From.kv
          /\ Room(OffOf(gc.next), From.kv[gc.off].len)
        BY <1>2, <1>3 DEF TypeInv, GcType, GcPc, Moving
    <2>2. SecOf(gc.next) = SecOf(w)
        BY <1>3, <1>4, <2>1, AddrPlus
    <2>3. QED BY <1>3, <1>4, <2>1, <2>2 DEF Fresh
<1>6. /\ sector' = IF OffOf(gc.next) = SECTOR_HDR_DATA_SIZE
                   THEN Dirtied(sector, SecOf(w), "TRUE") ELSE sector
      /\ gc'.next = w /\ gc'.off = gc.off + From.kv[gc.off].len
    <2>1. OffOf(gc.next) = SECTOR_HDR_DATA_SIZE => gc.dirty = "FALSE"
        BY <1>2, <1>3 DEF Collecting, GcPc, Moving
    <2>2. gc \in [off : Nat, next : Addr \cup {0}, dirty : DirtyMark]
        BY <1>2 DEF TypeInv, RamType
    <2>3. QED BY <1>3, <1>5, <2>1, <2>2 DEF GcDirty
<1>7. /\ \A t \in Sector : t # SecOf(w) => sector'[t] = sector[t]
      /\ sector'[SecOf(w)].kv = sector[SecOf(w)].kv
      /\ sector'[SecOf(w)].store = sector[SecOf(w)].store
      /\ sector'[SecOf(w)].dirty = "TRUE"
    <2>1. CASE OffOf(gc.next) = SECTOR_HDR_DATA_SIZE
        <3>1. IsDirtied(sector', sector, SecOf(w), "TRUE")
            BY <1>2, <1>6, <2>1, DirtiedFacts DEF DirtyMark
        <3>2. QED BY <1>2, <3>1 DEF IsDirtied
    <2>2. CASE OffOf(gc.next) # SECTOR_HDR_DATA_SIZE
        BY <1>2, <1>3, <1>5, <1>6, <2>2 DEF Filling
    <2>3. QED BY <2>1, <2>2
<1>8. From' = From /\ \A o : LiveAt(oldest_addr, o)' = LiveAt(oldest_addr, o)
    BY <1>2, <1>3, <1>4, <1>7 DEF From, LiveAt
<1>r. Ring(c, SecOf(w))'
    <2>1. \A t \in Sector : t # SecOf(w) => SameSector(sector'[t], sector[t])
        BY <1>7, SameItself
    <2>2. Tiled(sector'[SecOf(w)].kv)
        BY <1>2, <1>7 DEF Ring
    <2>3. QED BY <1>2, <1>3, <1>7, <2>1, <2>2, RingStep DEF GcPc
<1>f. Filling(c, w)'
    BY <1>2, <1>3, <1>4, <1>5, <1>7 DEF Filling
<1>s. Spare(c, w)'
    BY <1>2, <1>3, <1>4, <1>8 DEF Spare, GcPc
<1>n. pc' # "init" => w = NextFree'
    BY <1>3, <1>6 DEF NextFree, Moving
<1>d. Dist(oldest_addr', SecOf(w)) = c /\ c \in 0..(SecNum - 1) /\ w \in Addr
    BY <1>1, <1>2, <1>3
<1>c. Collecting'
    <2>1. /\ From.dirty = "GC"
          /\ \A o \in DOMAIN From.kv : LiveAt(oldest_addr, o) => o > gc.off
        BY <1>2, <1>3 DEF Collecting, GcPc
    <2>2. \A o \in DOMAIN From.kv : LiveAt(oldest_addr, o) => o >= gc'.off
        BY <1>4, <1>5, <1>6, <2>1
    <2>3. QED BY <1>3, <1>4, <1>5, <1>6, <1>8, <2>1, <2>2 DEF Collecting, GcPc, Moving
<1>q. QED BY <1>r, <1>f, <1>s, <1>n, <1>d, <1>c DEF LayoutInv, Layout

LEMMA GcEraseLayout ==
    ASSUME IInv, Conditions, GcErase
    PROVE  LayoutInv'
<1>1. PICK c \in 0..(SecNum - 1), w \in Addr : Layout(c, w)
    BY DEF IInv, LayoutInv
<1>2. /\ SecOf(w) \in Sector /\ oldest_addr \in Sector /\ IsFlash(sector)
      /\ c \in Nat /\ c < SecNum /\ Dist(oldest_addr, SecOf(w)) = c
      /\ Ring(c, SecOf(w)) /\ Filling(c, w) /\ Spare(c, w) /\ Collecting
      /\ TypeInv /\ ContentsInv
    BY <1>1, AddrFacts, Sizes DEF Layout, LayoutInv, IInv, TypeInv, RamType
<1>3. /\ pc = "gc_scan" /\ pc' = "gc_format" /\ oldest_addr' = oldest_addr /\ w = gc.next /\ gc' = gc
    BY <1>1 DEF GcErase, Layout, NextFree, Moving, volatile
<1>4. /\ c > 0 /\ SecOf(w) # oldest_addr /\ Tiled(From.kv)
      /\ \A o \in DOMAIN From.kv : o \in Nat /\ From.kv[o].len \in Nat
                                 /\ From.kv[o].len > 0 /\ Room(o, From.kv[o].len)
                                 /\ From.kv[o] \in KvRecord
      /\ gc.off \in DOMAIN From.kv =>
           /\ Follow(From.kv, gc.off + From.kv[gc.off].len)
           /\ \A o \in DOMAIN From.kv : o > gc.off => o >= gc.off + From.kv[gc.off].len
      /\ ~Fresh => OffOf(w) # SECTOR_HDR_DATA_SIZE
      /\ sector[SecOf(w)].store = IF pc = "gc_next" THEN "FULL" ELSE "USING"
    BY <1>2, <1>3, CollectingFacts DEF GcPc
<1>5. /\ sector'[oldest_addr] = Erased /\ \A t \in Sector : t # oldest_addr => sector'[t] = sector[t]
      /\ OffOf(w) # SECTOR_HDR_DATA_SIZE
    BY <1>2, <1>3, <1>4 DEF GcErase, IsFlash, Fresh
<1>r. Ring(c, SecOf(w))'
    <2> SUFFICES ASSUME NEW s \in Sector
                 PROVE  /\ Tiled(sector'[s].kv)
                        /\ Dist(oldest_addr, s) < c =>
                             \/ sector'[s].store = "FULL" /\ sector'[s].dirty \in {"TRUE", "GC"}
                             \/ s = oldest_addr /\ sector'[s] = Erased
                        /\ Dist(oldest_addr, s) = c => s = SecOf(w)
                        /\ Dist(oldest_addr, s) > c => sector'[s] = Empty
                        /\ sector'[s].dirty = "GC" => s = oldest_addr
        BY <1>3, <1>4 DEF Ring, GcPc
    <2>1. CASE s = oldest_addr
        <3>1. Dist(oldest_addr, s) = 0
            BY <1>2, <2>1, DistFacts
        <3>2. QED BY <1>4, <1>5, <2>1, <3>1 DEF Tiled, Erased
    <2>2. CASE s # oldest_addr
        BY <1>2, <1>3, <1>5, <2>2 DEF Ring
    <2>3. QED BY <2>1, <2>2
<1>f. Filling(c, w)'
    BY <1>2, <1>3, <1>4, <1>5 DEF Filling, Moving
<1>s. Spare(c, w)'
    BY <1>2, <1>3, <1>4 DEF Spare, GcPc
<1>n. pc' # "init" => w = NextFree'
    BY <1>3 DEF NextFree, Moving
<1>d. Dist(oldest_addr', SecOf(w)) = c /\ c \in 0..(SecNum - 1) /\ w \in Addr
    BY <1>1, <1>2, <1>3
<1>c. Collecting'
    BY <1>3 DEF Collecting, GcPc, Moving
<1>q. QED BY <1>r, <1>f, <1>s, <1>n, <1>d, <1>c DEF LayoutInv, Layout

LEMMA GcFormatLayout ==
    ASSUME IInv, Conditions, GcFormat
    PROVE  LayoutInv'
<1>1. PICK c \in 0..(SecNum - 1), w \in Addr : Layout(c, w)
    BY DEF IInv, LayoutInv
<1>2. /\ SecOf(w) \in Sector /\ oldest_addr \in Sector /\ IsFlash(sector)
      /\ c \in Nat /\ c < SecNum /\ Dist(oldest_addr, SecOf(w)) = c
      /\ Ring(c, SecOf(w)) /\ Filling(c, w) /\ Spare(c, w) /\ Collecting
      /\ TypeInv /\ ContentsInv
    BY <1>1, AddrFacts, Sizes DEF Layout, LayoutInv, IInv, TypeInv, RamType
<1>3. /\ pc = "gc_format" /\ pc' \in {"alloc", "check"} /\ w = gc.next
      /\ oldest_addr' = get_next_sec(oldest_addr) /\ empty_kv' = w
    BY <1>1, <1>2 DEF GcFormat, Layout, NextFree, Moving, TypeInv, OpType, GcPc
<1>4. c > 0 /\ SecOf(w) # oldest_addr
    BY <1>2, <1>3, DistFacts DEF Spare, GcPc
<1>5. /\ sector'[oldest_addr] = Empty /\ \A t \in Sector : t # oldest_addr => sector'[t] = sector[t]
      /\ sector[SecOf(w)].store = "USING" /\ OffOf(w) # SECTOR_HDR_DATA_SIZE
    BY <1>2, <1>3, <1>4 DEF GcFormat, IsFlash, Filling, Fresh
<1>6. /\ Dist(oldest_addr', oldest_addr) = SecNum - 1
      /\ \A s \in Sector : s # oldest_addr =>
           Dist(oldest_addr, s) > 0 /\ Dist(oldest_addr', s) = Dist(oldest_addr, s) - 1
    BY <1>2, <1>3, DistFacts, Sizes
<1>7. \A s \in Sector : Dist(oldest_addr, s) \in Nat
    BY <1>2, DistFacts
<1>8. SecNum \in Nat
    BY Sizes
<1>r. Ring(c - 1, SecOf(w))'
    <2> SUFFICES ASSUME NEW s \in Sector
                 PROVE  /\ Tiled(sector'[s].kv)
                        /\ Dist(oldest_addr', s) < c - 1 =>
                             sector'[s].store = "FULL" /\ sector'[s].dirty \in {"TRUE", "GC"}
                        /\ Dist(oldest_addr', s) = c - 1 => s = SecOf(w)
                        /\ Dist(oldest_addr', s) > c - 1 => sector'[s] = Empty
                        /\ sector'[s].dirty # "GC"
        BY <1>3 DEF Ring
    <2>1. CASE s = oldest_addr
        BY <1>2, <1>5, <1>6, <1>8, <2>1 DEF Tiled, Empty
    <2>2. CASE s # oldest_addr
        BY <1>2, <1>3, <1>5, <1>6, <1>7, <2>2 DEF Ring
    <2>3. QED BY <2>1, <2>2
<1>f. Filling(c - 1, w)'
    BY <1>2, <1>3, <1>4, <1>5 DEF Filling, Moving
<1>s. Spare(c - 1, w)'
    BY <1>2, <1>3, <1>4, <1>8 DEF Spare, GcPc
<1>n. pc' # "init" => w = NextFree'
    BY <1>3 DEF NextFree, Moving
<1>d. Dist(oldest_addr', SecOf(w)) = c - 1 /\ c - 1 \in 0..(SecNum - 1) /\ w \in Addr
    BY <1>1, <1>2, <1>4, <1>6, <1>8
<1>c. Collecting'
    BY <1>3 DEF Collecting, GcPc, Moving
<1>q. QED BY <1>r, <1>f, <1>s, <1>n, <1>d, <1>c DEF LayoutInv, Layout

LEMMA ResetLayout ==
    ASSUME IInv, Conditions, Reset
    PROVE  LayoutInv'
<1>1. PICK c \in 0..(SecNum - 1), w \in Addr : Layout(c, w)
    BY DEF IInv, LayoutInv
<1>2. /\ SecOf(w) \in Sector /\ oldest_addr \in Sector /\ IsFlash(sector)
      /\ c \in Nat /\ c < SecNum /\ Dist(oldest_addr, SecOf(w)) = c
      /\ Ring(c, SecOf(w)) /\ Filling(c, w) /\ Spare(c, w) /\ Collecting
      /\ TypeInv /\ ContentsInv
    BY <1>1, AddrFacts, Sizes DEF Layout, LayoutInv, IInv, TypeInv, RamType
<1>3. /\ pc \notin {"gc_commit", "gc_delete", "gc_format"} /\ pc' = "init"
      /\ oldest_addr' = oldest_addr /\ sector' = sector /\ ~Turning
    BY DEF Reset, Conditions
<1>4. \A s \in Sector : s # SecOf(w) => sector[s].store # "USING"
    <2>1. \A s \in Sector : s # SecOf(w) =>
            Dist(oldest_addr, s) \in Nat /\ Dist(oldest_addr, s) # c
        BY <1>2, DistFacts
    <2>2. QED BY <1>2, <1>3, <2>1 DEF Ring, Empty
<1>5. /\ sector[SecOf(w)].store \in {"USING", "FULL"} =>
           sector[SecOf(w)].store = "USING" /\ sector[SecOf(w)].dirty = "TRUE"
    BY <1>2, <1>3, <1>4 DEF Turning
<1>6. OffOf(w) # SECTOR_HDR_DATA_SIZE => sector[SecOf(w)] # Empty
    BY <1>2 DEF Filling, FreeAt, Follow, Empty
<1>r. Ring(c, SecOf(w))'
    BY <1>2, <1>3 DEF Ring, GcPc
<1>f. Filling(c, w)'
    BY <1>2, <1>3, <1>5, <1>6 DEF Filling, Empty
<1>s. Spare(c, w)'
    BY <1>2, <1>3 DEF Spare, GcPc, From, LiveAt
<1>n. pc' # "init" => w = NextFree'
    BY <1>3
<1>d. Dist(oldest_addr', SecOf(w)) = c /\ c \in 0..(SecNum - 1) /\ w \in Addr
    BY <1>1, <1>2, <1>3
<1>c. Collecting'
    BY <1>3 DEF Collecting, GcPc, Moving
<1>q. QED BY <1>r, <1>f, <1>s, <1>n, <1>d, <1>c DEF LayoutInv, Layout

(* The search passes every record of a sector, and ends where they end.    *)
LEMMA WalkAll ==
    ASSUME NEW sec, IsFlash(sec), NEW s \in Sector, Tiled(sec[s].kv)
    PROVE  Walk(sec, s) = DOMAIN sec[s].kv
<1> DEFINE kv == sec[s].kv
           Follows(o) == o + kv[o].len
           Closed(W) == /\ SECTOR_HDR_DATA_SIZE \in DOMAIN kv => SECTOR_HDR_DATA_SIZE \in W
                        /\ \A o \in W : /\ Follows(o) \in DOMAIN kv
                                        /\ Follows(o) < sec_size - KV_HDR_DATA_SIZE
                                        => Follows(o) \in W
<1>1. \A o \in DOMAIN kv : /\ o \in Nat /\ kv[o].len \in Nat /\ kv[o].len > 2
                           /\ o + kv[o].len + KV_HDR_DATA_SIZE <= sec_size /\ Follow(kv, o)
    BY SectorFacts, Sizes DEF KvRecord, Room, Tiled
<1>2. SUFFICES ASSUME NEW W \in SUBSET DOMAIN kv, Closed(W), DOMAIN kv \ W # {}
               PROVE  FALSE
    BY DEF Walk
<1>3. PICK o \in DOMAIN kv \ W : \A p \in DOMAIN kv \ W : o <= p
    <2>1. DOMAIN kv \ W \subseteq Nat
        BY <1>1
    <2>2. QED BY <1>2, <2>1, LeastExists
<1>4. o # SECTOR_HDR_DATA_SIZE
    BY <1>2, <1>3
<1>5. PICK p \in DOMAIN kv : p + kv[p].len = o
    BY <1>1, <1>3, <1>4 DEF Follow
<1>6. p \in W
    BY <1>1, <1>3, <1>5
<1>7. Follows(p) \in DOMAIN kv /\ Follows(p) < sec_size - KV_HDR_DATA_SIZE
    BY <1>1, <1>3, <1>5, Sizes DEF KV_HDR_DATA_SIZE
<1>8. QED BY <1>2, <1>3, <1>5, <1>6, <1>7

LEMMA EndIs ==
    ASSUME NEW sec, IsFlash(sec), NEW s \in Sector, Tiled(sec[s].kv),
           NEW e \in Nat, FreeAt(sec[s].kv, e)
    PROVE  End(sec, s) = e
<1> DEFINE kv == sec[s].kv
<1>1. Walk(sec, s) = DOMAIN kv
    BY WalkAll
<1>2. \A o \in DOMAIN kv : o \in Nat /\ kv[o].len \in Nat /\ kv[o].len > 2 /\ o <= sec_size
    BY SectorFacts, Sizes DEF KV_HDR_DATA_SIZE
<1>3. CASE DOMAIN kv = {}
    BY <1>1, <1>3 DEF End, FreeAt, Follow
<1>4. CASE DOMAIN kv # {}
    <2>1. PICK m \in DOMAIN kv : m = Max(DOMAIN kv) /\ \A o \in DOMAIN kv : o <= m
        BY <1>2, <1>4, MaxIsGreatest, Sizes
    <2>2. End(sec, s) = m + kv[m].len
        BY <1>1, <1>4, <2>1 DEF End
    <2>3. m + kv[m].len <= e
        BY <2>1 DEF FreeAt
    <2>4. m > 0 /\ e # SECTOR_HDR_DATA_SIZE
        BY <1>2, <2>1, <2>3, SectorFacts DEF SECTOR_HDR_DATA_SIZE
    <2>5. PICK p \in DOMAIN kv : p + kv[p].len = e
        BY <2>4 DEF FreeAt, Follow
    <2>6. p = m
        <3>1. p < m => p + kv[p].len <= m
            BY <2>1, <2>5 DEF Tiled
        <3>2. QED BY <1>2, <2>1, <2>3, <2>5, <3>1
    <2>7. QED BY <2>2, <2>5, <2>6
<1>5. QED BY <1>3, <1>4

(* What the scan over the sectors makes of the ring.                       *)
LEMMA ScanRing ==
    ASSUME Conditions, TypeInv, pc = "init", NEW c \in Nat, c < SecNum, NEW w \in Addr,
           Dist(oldest_addr, SecOf(w)) = c, Ring(c, SecOf(w)), Filling(c, w), Spare(c, w)
    PROVE  /\ Headed(sector) = sector
           /\ sector[SecOf(w)] = Empty =>
                /\ Scan(sector).using = 0 /\ Scan(sector).full = 0
                /\ Scan(sector).need_gc = FALSE /\ \A s \in Sector : sector[s] = Empty
           /\ sector[SecOf(w)] # Empty =>
                /\ Scan(sector).using = 1 /\ Scan(sector).empty = w
                /\ Scan(sector).oldest = oldest_addr
                /\ Scan(sector).need_gc <=> From.dirty = "GC"
<1> DEFINE cur == SecOf(w)
           headed == {s \in Sector : sector[s].store # "UNUSED"}
           begins == {s \in headed :
                        /\ sector[s].store \in {"USING", "FULL"}
                        /\ \A t \in headed : \/ t >= s \/ sector[t].store = "EMPTY"
                                             \/ \E u \in headed : t < u /\ u < s}
           in_gc  == {s \in headed : sector[s].dirty = "GC"}
           filling == {s \in headed : /\ sector[s].store = "USING" /\ sector[s].dirty = "TRUE"
                                      /\ End(sector, s) < sec_size - KV_HDR_DATA_SIZE}
           full == {s \in headed : sector[s].store = "FULL"}
           runs == begins \cup in_gc
           e    == OffOf(w)
<1>1. /\ IsFlash(sector) /\ oldest_addr \in Sector /\ cur \in Sector /\ SecNum \in Nat /\ SecNum > 1
      /\ e \in 1..(sec_size - KV_HDR_DATA_SIZE) /\ w = AddrOf(cur, e) /\ ClearOfTheLimits
    BY AddrFacts, Sizes DEF TypeInv, RamType, Conditions
<1>2. /\ Tiled(sector[cur].kv) /\ FreeAt(sector[cur].kv, e)
      /\ \/ sector[cur].store = "USING" /\ sector[cur] # Empty /\ sector[cur].dirty = "TRUE"
         \/ sector[cur] = Empty /\ c = 0
    BY <1>1 DEF Ring, Filling, Fresh, Empty, Moving
<1>3. \A s \in Sector :
        /\ Dist(oldest_addr, s) \in Nat
        /\ Dist(oldest_addr, s) < c =>
             sector[s].store = "FULL" /\ sector[s].dirty \in {"TRUE", "GC"} /\ s # cur
        /\ Dist(oldest_addr, s) = c => s = cur
        /\ Dist(oldest_addr, s) > c =>
             sector[s] = Empty /\ sector[s].store = "EMPTY" /\ sector[s].dirty = "FALSE" /\ s # cur
        /\ sector[s].dirty = "GC" => s = oldest_addr /\ c > 0
    BY <1>1, DistFacts DEF Ring, Empty
<1>4. \A s \in Sector : sector[s].store # "UNUSED"
    BY <1>2, <1>3 DEF Empty
<1>5. headed = Sector
    BY <1>4
<1>6. Headed(sector) = sector
    <2>1. sector = [s \in Sector |-> sector[s]]
        BY <1>1 DEF IsFlash
    <2>2. Headed(sector) = [s \in Sector |-> sector[s]]
        BY <1>4 DEF Headed
    <2>3. QED BY <2>1, <2>2
<1>7. /\ Scan(sector).using = Cardinality(filling) /\ Scan(sector).full = Cardinality(full)
      /\ Scan(sector).oldest = IF runs = {} THEN FAILED_ADDR ELSE Max(runs)
      /\ Scan(sector).empty = IF filling = {} THEN FAILED_ADDR
                              ELSE AddrOf(Max(filling), End(sector, Max(filling)))
      /\ Scan(sector).need_gc = (in_gc # {})
    BY DEF Scan
<1>8. \A B \in Nat : \A S \in SUBSET (0..B) :
        S # {} => Max(S) \in S /\ \A y \in S : y <= Max(S)
    BY MaxIsGreatest
<1> HIDE DEF headed
<1>9. CASE sector[cur] = Empty
    <2>1. \A s \in Sector : sector[s] = Empty
        BY <1>2, <1>3, <1>9 DEF Empty
    <2>2. filling = {} /\ full = {} /\ in_gc = {}
        BY <1>5, <2>1 DEF Empty
    <2> HIDE DEF filling, full, in_gc, runs
    <2>3. Scan(sector).using = 0 /\ Scan(sector).full = 0 /\ Scan(sector).need_gc = FALSE
        BY <1>7, <2>2, FS_EmptySet
    <2>4. QED BY <1>6, <1>9, <2>1, <2>3
<1>10. CASE sector[cur] # Empty
    <2>1. sector[cur].store = "USING" /\ sector[cur].dirty = "TRUE"
        BY <1>2, <1>10
    <2>2. End(sector, cur) = e /\ e < sec_size - KV_HDR_DATA_SIZE
        <3>1. e \in Nat /\ e < sec_size - KV_HDR_DATA_SIZE
            BY <1>1, <1>2, FreeInEnds
        <3>2. QED BY <1>1, <1>2, <3>1, EndIs
    <2>3. filling = {cur}
        BY <1>1, <1>2, <1>3, <1>5, <2>1, <2>2 DEF Empty
    <2>4. /\ in_gc \subseteq {oldest_addr} /\ (in_gc # {} <=> From.dirty = "GC")
        BY <1>1, <1>3, <1>5 DEF From
    <2>5. oldest_addr \in runs
        <3>1. CASE c = SecNum - 1
            BY <1>1, <1>5, <3>1 DEF Spare, From
        <3>2. CASE c < SecNum - 1
            <4>1. sector[oldest_addr].store \in {"USING", "FULL"}
                <5>1. Dist(oldest_addr, oldest_addr) = 0
                    BY <1>1, DistFacts
                <5>2. QED BY <1>1, <1>3, <2>1, <5>1
            <4>2. ASSUME NEW t \in Sector, t < oldest_addr
                  PROVE  sector[t].store = "EMPTY" \/ \E u \in Sector : t < u /\ u < oldest_addr
                <5>1. CASE t = oldest_addr - 1
                    <6>1. Dist(oldest_addr, t) = SecNum - 1
                        BY <1>1, <4>2, <5>1 DEF Dist, Sector
                    <6>2. QED BY <1>3, <3>2, <6>1
                <5>2. CASE t # oldest_addr - 1
                    <6>1. oldest_addr - 1 \in Sector /\ t < oldest_addr - 1
                          /\ oldest_addr - 1 < oldest_addr
                        BY <1>1, <4>2, <5>2 DEF Sector
                    <6>2. QED BY <6>1
                <5>3. QED BY <5>1, <5>2
            <4>3. \A t \in Sector : t >= oldest_addr \/ t < oldest_addr
                BY <1>1 DEF Sector
            <4>4. QED BY <1>1, <1>5, <4>1, <4>2, <4>3
        <3>3. QED BY <1>1, <3>1, <3>2
    <2>6. ASSUME NEW s \in runs PROVE s \in Sector /\ s <= oldest_addr
        <3>1. CASE s \in in_gc
            BY <1>1, <2>4, <3>1 DEF Sector
        <3>2. CASE s \in begins
            <4>1. SUFFICES ASSUME s > oldest_addr PROVE FALSE
                BY <1>1, <1>5, <3>2 DEF Sector
            <4>2. PICK t \in Sector : t = s - 1 /\ t >= oldest_addr /\ s \in Sector
                BY <1>1, <1>5, <3>2, <4>1 DEF Sector
            <4>3. Dist(oldest_addr, t) = Dist(oldest_addr, s) - 1
                BY <1>1, <4>1, <4>2 DEF Dist, Sector
            <4>4. ~(Dist(oldest_addr, s) > c)
                BY <1>3, <3>2, <4>2
            <4>5. sector[t].store = "FULL"
                BY <1>1, <1>3, <4>2, <4>3, <4>4
            <4>6. ~(t >= s) /\ ~\E u \in Sector : t < u /\ u < s
                BY <1>1, <4>2 DEF Sector
            <4>7. QED BY <1>5, <3>2, <4>2, <4>5, <4>6
        <3>3. QED BY <3>1, <3>2
    <2> HIDE DEF filling, full, in_gc, runs
    <2>7. Max(runs) = oldest_addr
        <3>1. SecNum - 1 \in Nat /\ runs \subseteq 0..(SecNum - 1) /\ runs # {}
            BY <1>1, <2>5, <2>6 DEF Sector
        <3>2. Max(runs) \in runs /\ \A y \in runs : y <= Max(runs)
            BY <1>8, <3>1
        <3>3. Max(runs) <= oldest_addr /\ oldest_addr <= Max(runs) /\ Max(runs) \in Sector
            BY <2>5, <2>6, <3>2
        <3>4. QED BY <1>1, <3>3 DEF Sector
    <2>8. Max({cur}) = cur
        <3>1. SecNum - 1 \in Nat /\ {cur} \subseteq 0..(SecNum - 1) /\ {cur} # {}
            BY <1>1 DEF Sector
        <3>2. Max({cur}) \in {cur}
            BY <1>8, <3>1
        <3>3. QED BY <3>2
    <2>9. Scan(sector).using = 1 /\ Scan(sector).empty = w
        BY <1>1, <1>7, <2>2, <2>3, <2>8, FS_Singleton
    <2>10. Scan(sector).oldest = oldest_addr /\ (Scan(sector).need_gc <=> From.dirty = "GC")
        BY <1>7, <2>4, <2>5, <2>7
    <2>11. QED BY <1>6, <1>10, <2>9, <2>10
<1>11. QED BY <1>9, <1>10

LEMMA StartLayout ==
    ASSUME IInv, Conditions, flashdb_init
    PROVE  LayoutInv' /\ sector' = sector
<1>1. PICK c \in 0..(SecNum - 1), w \in Addr : Layout(c, w)
    BY DEF IInv, LayoutInv
<1>2. /\ SecOf(w) \in Sector /\ oldest_addr \in Sector /\ IsFlash(sector)
      /\ c \in Nat /\ c < SecNum /\ Dist(oldest_addr, SecOf(w)) = c
      /\ Ring(c, SecOf(w)) /\ Filling(c, w) /\ Spare(c, w)
      /\ TypeInv
    BY <1>1, AddrFacts, Sizes DEF Layout, IInv, TypeInv, RamType
<1> PICK r : r = Scan(sector)
    OBVIOUS
<1> DEFINE first_use  == r.using = 0 /\ r.full = 0
           format_all == ~first_use /\ (r.empty = FAILED_ADDR \/ r.oldest = FAILED_ADDR
                                        \/ r.using # 1)
<1>3. /\ pc = "init"
      /\ sector' = IF format_all THEN [s \in Sector |-> Empty] ELSE Headed(sector)
      /\ IF first_use \/ format_all
         THEN empty_kv' = SECTOR_HDR_DATA_SIZE /\ oldest_addr' = 0
         ELSE empty_kv' = r.empty /\ oldest_addr' = r.oldest
      /\ pc' = IF r.need_gc /\ ~format_all THEN "gc" ELSE "check"
    BY DEF flashdb_init
<1>4. /\ Headed(sector) = sector
      /\ sector[SecOf(w)] = Empty =>
           /\ r.using = 0 /\ r.full = 0 /\ r.need_gc = FALSE
           /\ \A s \in Sector : sector[s] = Empty
      /\ sector[SecOf(w)] # Empty =>
           /\ r.using = 1 /\ r.empty = w /\ r.oldest = oldest_addr
           /\ r.need_gc <=> From.dirty = "GC"
    BY <1>2, <1>3, ScanRing
<1>5. w # FAILED_ADDR /\ oldest_addr # FAILED_ADDR /\ SecNum \in Nat /\ SecNum > 2
    BY <1>2, AddrFacts, Sizes DEF Sector, FAILED_ADDR, Conditions
<1>6. CASE sector[SecOf(w)] = Empty
    <2>1. /\ sector' = sector /\ empty_kv' = SECTOR_HDR_DATA_SIZE /\ oldest_addr' = 0
          /\ pc' = "check"
        BY <1>3, <1>4, <1>6
    <2>2. 0 \in Sector /\ AddrOf(0, SECTOR_HDR_DATA_SIZE) = SECTOR_HDR_DATA_SIZE
        BY Sizes DEF Sector, AddrOf, SECTOR_HDR_DATA_SIZE
    <2> PICK v : v = SECTOR_HDR_DATA_SIZE
        OBVIOUS
    <2>3. v \in Addr /\ SecOf(v) = 0 /\ OffOf(v) = SECTOR_HDR_DATA_SIZE
        BY <2>2, AddrOfFacts, FirstOff
    <2>4. \A s \in Sector : sector'[s] = Empty
        BY <1>4, <1>6, <2>1
    <2>5. \A s \in Sector : Dist(0, s) \in 0..(SecNum - 1) /\ (Dist(0, s) = 0 <=> s = 0)
        BY <2>2, DistFacts
    <2>6. Ring(0, 0)'
        BY <2>1, <2>4, <2>5 DEF Ring, Empty, Tiled
    <2>7. Filling(0, v)'
        BY <2>1, <2>2, <2>3, <2>4 DEF Filling, Empty, FreeAt, Follow
    <2>8. Spare(0, v)'
        BY <1>5, <2>1 DEF Spare, GcPc
    <2>9. v = NextFree'
        BY <2>1 DEF NextFree, Moving
    <2>10. Layout(0, v)'
        BY <2>1, <2>2, <2>3, <2>5, <2>6, <2>7, <2>8, <2>9 DEF Layout
    <2>11. Collecting'
        BY <2>1 DEF Collecting, GcPc, Moving
    <2>12. 0 \in 0..(SecNum - 1)
        BY <1>5
    <2>13. QED BY <2>1, <2>3, <2>10, <2>11, <2>12 DEF LayoutInv
<1>7. CASE sector[SecOf(w)] # Empty
    <2>1. /\ sector' = sector /\ empty_kv' = w /\ oldest_addr' = oldest_addr
          /\ pc' = IF From.dirty = "GC" THEN "gc" ELSE "check"
        BY <1>3, <1>4, <1>5, <1>7
    <2>2. Ring(c, SecOf(w))'
        BY <1>2, <1>3, <2>1 DEF Ring, GcPc, From
    <2>3. Filling(c, w)'
        BY <1>2, <1>3, <1>7, <2>1 DEF Filling, Fresh, Moving, Empty
    <2>4. Spare(c, w)'
        <3>1. From.dirty = "GC" => c > 0
            BY <1>2 DEF Ring, From
        <3>2. c = SecNum - 1 => From.dirty = "GC" /\ \A o \in DOMAIN From.kv :
                LiveAt(oldest_addr, o) => OffOf(w) <= o
            BY <1>2, <1>3 DEF Spare
        <3>3. From' = From /\ \A o : LiveAt(oldest_addr, o)' = LiveAt(oldest_addr, o)
            BY <2>1 DEF From, LiveAt
        <3>4. QED BY <1>2, <1>5, <2>1, <3>1, <3>2, <3>3 DEF Spare, GcPc
    <2>5. w = NextFree'
        BY <2>1 DEF NextFree, Moving
    <2>6. Collecting'
        BY <2>1 DEF Collecting, GcPc, Moving
    <2>7. QED BY <1>1, <1>2, <2>1, <2>2, <2>3, <2>4, <2>5, <2>6 DEF LayoutInv, Layout
<1>8. QED BY <1>6, <1>7

LEMMA LayoutInit == Init /\ Conditions => LayoutInv
<1> SUFFICES ASSUME Init, Conditions PROVE LayoutInv
    OBVIOUS
<1>1. SecNum \in Nat /\ SecNum > 2 /\ 0 \in Sector
    BY Sizes DEF Conditions, Sector
<1>2. AddrOf(0, SECTOR_HDR_DATA_SIZE) = SECTOR_HDR_DATA_SIZE
    BY Sizes DEF AddrOf, SECTOR_HDR_DATA_SIZE
<1> PICK v : v = SECTOR_HDR_DATA_SIZE
    OBVIOUS
<1>3. v \in Addr /\ SecOf(v) = 0 /\ OffOf(v) = SECTOR_HDR_DATA_SIZE
    BY <1>1, <1>2, AddrOfFacts, FirstOff
<1>4. /\ oldest_addr = 0 /\ empty_kv = v /\ pc = "idle"
      /\ \A s \in Sector : sector[s] = Empty
    BY DEF Init
<1>5. \A s \in Sector : Dist(0, s) \in 0..(SecNum - 1) /\ (Dist(0, s) = 0 <=> s = 0)
    BY <1>1, DistFacts
<1>6. Ring(0, 0)
    BY <1>4, <1>5 DEF Ring, Empty, Tiled
<1>7. Filling(0, v)
    BY <1>1, <1>3, <1>4 DEF Filling, Empty, FreeAt, Follow
<1>8. Spare(0, v)
    BY <1>1, <1>4 DEF Spare, GcPc
<1>9. Layout(0, v)
    BY <1>1, <1>3, <1>4, <1>5, <1>6, <1>7, <1>8 DEF Layout, NextFree, Moving
<1>10. Collecting
    BY <1>4 DEF Collecting, GcPc, Moving
<1>11. 0 \in 0..(SecNum - 1)
    BY <1>1
<1>12. QED BY <1>3, <1>9, <1>10, <1>11 DEF LayoutInv

LEMMA LayoutStutter ==
    ASSUME LayoutInv, UNCHANGED vars
    PROVE  LayoutInv'
<1>1. PICK c \in 0..(SecNum - 1), w \in Addr : Layout(c, w)
    BY DEF LayoutInv
<1>2. From' = From /\ \A s, o : LiveAt(s, o)' = LiveAt(s, o)
    BY DEF vars, From, LiveAt
<1>3. Ring(c, SecOf(w))' /\ NextFree' = NextFree /\ Fresh' = Fresh
    BY <1>1 DEF Layout, Ring, vars, volatile, NextFree, From, Fresh
<1>4. Filling(c, w)'
    BY <1>1, <1>3 DEF Layout, Filling, vars, volatile
<1>5. Spare(c, w)'
    BY <1>1, <1>2 DEF Layout, Spare, vars, volatile
<1>6. Collecting'
    BY <1>2 DEF LayoutInv, Collecting, vars, volatile
<1>7. QED BY <1>1, <1>3, <1>4, <1>5, <1>6 DEF LayoutInv, Layout, vars

LEMMA LayoutStep == IInv /\ Conditions /\ [Next]_vars => LayoutInv'
<1> SUFFICES ASSUME IInv, Conditions, [Next]_vars PROVE LayoutInv'
    OBVIOUS
<1>1. CASE UNCHANGED vars
    BY <1>1, LayoutStutter DEF IInv
<1>2. ASSUME NEW k \in Key, NEW v \in Value \cup {None}, kv_set(k, v) PROVE LayoutInv'
    BY <1>2, SetLayout
<1>3. ASSUME NEW k \in Key, kv_get(k) PROVE LayoutInv'
    BY <1>3, GetLayout
<1>4. CASE alloc_kv \/ alloc_kv_next \/ FindOld \/ WriteHeader \/ MarkDirty
    BY <1>4, AllocLayout, AllocNextLayout, FindOldLayout, WriteHeaderLayout, MarkDirtyLayout
<1>5. CASE WriteData \/ WriteFails \/ Commit \/ DeleteOld
    BY <1>5, WriteDataLayout, WriteFailsLayout, CommitLayout, DeleteOldLayout
<1>6. CASE GcBegin \/ GcSkip \/ GcPrepare \/ GcNextSector \/ GcPreDelete \/ GcWrite
    BY <1>6, GcBeginLayout, GcSkipLayout, GcPrepareLayout, GcNextSectorLayout,
       GcPreDeleteLayout, GcWriteLayout
<1>7. CASE GcCommit \/ GcDelete \/ GcDirty \/ GcErase \/ GcFormat
    BY <1>7, GcCommitLayout, GcDeleteLayout, GcDirtyLayout, GcEraseLayout, GcFormatLayout
<1>8. CASE Reset \/ flashdb_init \/ check_all_kv
    BY <1>8, ResetLayout, StartLayout, CheckLayout
<1>9. QED BY <1>1, <1>2, <1>3, <1>4, <1>5, <1>6, <1>7, <1>8 DEF Next

-----------------------------------------------------------------------------
(* The records a step changes.                                             *)

Has(a) == OffOf(a) \in DOMAIN sector[SecOf(a)].kv

LEMMA KvSame ==
    ASSUME \A t \in Sector : sector'[t].kv = sector[t].kv
    PROVE  /\ LiveAddr' = LiveAddr
           /\ \A a \in Addr : KvAt(a)' = KvAt(a) /\ Has(a)' = Has(a)
<1>1. ASSUME NEW a \in Addr
      PROVE  KvAt(a)' = KvAt(a) /\ Has(a)' = Has(a) /\ LiveAt(SecOf(a), OffOf(a))' = LiveAt(SecOf(a), OffOf(a))
    <2>1. SecOf(a) \in Sector
        BY AddrFacts
    <2>2. sector'[SecOf(a)].kv = sector[SecOf(a)].kv
        BY <2>1
    <2>3. QED BY <2>2 DEF KvAt, Has, LiveAt
<1>2. QED BY <1>1 DEF LiveAddr

(* One record is written or changed, the others are as they were.          *)
OneChanges(p, rec) ==
    /\ KvAt(p)' = rec /\ Has(p)'
    /\ \A a \in Addr : a # p => Has(a)' = Has(a) /\ (Has(a) => KvAt(a)' = KvAt(a))
    /\ LiveAddr' = IF rec.status \in Live THEN LiveAddr \cup {p} ELSE LiveAddr \ {p}

LEMMA LiveOnes ==
    ASSUME NEW p \in Addr, NEW rec, KvAt(p)' = rec, Has(p)',
           \A a \in Addr : a # p => Has(a)' = Has(a) /\ (Has(a) => KvAt(a)' = KvAt(a))
    PROVE  OneChanges(p, rec)
<1>1. \A a \in Addr : LiveAt(SecOf(a), OffOf(a)) = (Has(a) /\ KvAt(a).status \in Live)
    BY DEF LiveAt, Has, KvAt
<1>2. \A a \in Addr : LiveAt(SecOf(a), OffOf(a))' = (Has(a)' /\ KvAt(a)'.status \in Live)
    BY DEF LiveAt, Has, KvAt
<1>3. \A a \in Addr : a # p => LiveAt(SecOf(a), OffOf(a))' = LiveAt(SecOf(a), OffOf(a))
    BY <1>1, <1>2
<1>4. LiveAt(SecOf(p), OffOf(p))' = (rec.status \in Live)
    BY <1>2
<1>5. LiveAddr' = IF rec.status \in Live THEN LiveAddr \cup {p} ELSE LiveAddr \ {p}
    BY <1>3, <1>4 DEF LiveAddr
<1>6. QED BY <1>5 DEF OneChanges

LEMMA SameAddr ==
    ASSUME NEW a \in Addr, NEW b \in Addr, SecOf(a) = SecOf(b), OffOf(a) = OffOf(b)
    PROVE  a = b
BY AddrFacts

LEMMA KvPatched ==
    ASSUME NEW p \in Addr, Has(p), NEW rec,
           IsPatched(sector', sector, SecOf(p), OffOf(p), rec)
    PROVE  OneChanges(p, rec)
<1>1. SecOf(p) \in Sector
    BY AddrFacts
<1>2. KvAt(p)' = rec /\ Has(p)'
    BY <1>1 DEF IsPatched, KvAt, Has
<1>3. ASSUME NEW a \in Addr, a # p
      PROVE  Has(a)' = Has(a) /\ (Has(a) => KvAt(a)' = KvAt(a))
    <2>1. SecOf(a) \in Sector /\ ~(SecOf(a) = SecOf(p) /\ OffOf(a) = OffOf(p))
        BY <1>3, SameAddr, AddrFacts
    <2>2. CASE SecOf(a) # SecOf(p)
        <3>1. sector'[SecOf(a)] = sector[SecOf(a)]
            BY <2>1, <2>2 DEF IsPatched
        <3>2. QED BY <3>1 DEF Has, KvAt
    <2>3. CASE SecOf(a) = SecOf(p)
        <3>1. OffOf(a) # OffOf(p)
            BY <2>1, <2>3
        <3>2. Has(a)' = Has(a)
            BY <2>1 DEF IsPatched, Has
        <3>3. Has(a) => sector'[SecOf(a)].kv[OffOf(a)] = sector[SecOf(a)].kv[OffOf(a)]
            BY <2>1, <3>1 DEF IsPatched, Has
        <3>4. QED BY <3>2, <3>3 DEF KvAt
    <2>4. QED BY <2>2, <2>3
<1>4. QED BY <1>2, <1>3, LiveOnes

LEMMA KvWritten ==
    ASSUME NEW p \in Addr, ~Has(p), NEW rec,
           IsWritten(sector', sector, SecOf(p), OffOf(p), rec)
    PROVE  OneChanges(p, rec)
<1>1. SecOf(p) \in Sector
    BY AddrFacts
<1>2. KvAt(p)' = rec /\ Has(p)'
    BY <1>1 DEF IsWritten, KvAt, Has
<1>3. ASSUME NEW a \in Addr, a # p
      PROVE  Has(a)' = Has(a) /\ (Has(a) => KvAt(a)' = KvAt(a))
    <2>1. SecOf(a) \in Sector /\ ~(SecOf(a) = SecOf(p) /\ OffOf(a) = OffOf(p))
        BY <1>3, SameAddr, AddrFacts
    <2>2. CASE SecOf(a) # SecOf(p)
        <3>1. sector'[SecOf(a)] = sector[SecOf(a)]
            BY <2>1, <2>2 DEF IsWritten
        <3>2. QED BY <3>1 DEF Has, KvAt
    <2>3. CASE SecOf(a) = SecOf(p)
        <3>1. OffOf(a) # OffOf(p)
            BY <2>1, <2>3
        <3>2. Has(a)' = Has(a)
            BY <2>3, <3>1 DEF IsWritten, Has
        <3>3. Has(a) => sector'[SecOf(a)].kv[OffOf(a)] = sector[SecOf(a)].kv[OffOf(a)]
            BY <2>3, <3>1 DEF IsWritten, Has
        <3>4. QED BY <3>2, <3>3 DEF KvAt
    <2>4. QED BY <2>2, <2>3
<1>4. QED BY <1>2, <1>3, LiveOnes

LEMMA LiveHas == \A a \in LiveAddr : a \in Addr /\ Has(a) /\ KvAt(a).status \in Live
BY DEF LiveAddr, LiveAt, Has, KvAt

(* A step that leaves the valid records as they are.                       *)
LEMMA LiveUnchanged ==
    ASSUME LiveInv, LiveAddr' = LiveAddr,
           \A a \in LiveAddr : KvAt(a)'.key = KvAt(a).key /\ KvAt(a)'.val = KvAt(a).val,
           Twins \subseteq Twins',
           \A k \in Key : cache'[k] \in {cache[k], FAILED_ADDR}
    PROVE  LiveInv'
<1>1. \A a \in LiveAddr' : KvAt(a)'.key \in Key /\ KvAt(a)'.val \in Value
    BY DEF LiveInv
<1>2. \A a, b \in LiveAddr' : KvAt(a)'.key = KvAt(b)'.key => a = b \/ {a, b} \subseteq Twins'
    BY DEF LiveInv
<1>3. \A k \in Key : cache'[k] # FAILED_ADDR => cache'[k] \in LiveAddr' /\ KvAt(cache[k])'.key = k /\ cache'[k] = cache[k]
    BY DEF LiveInv
<1>4. QED BY <1>1, <1>2, <1>3 DEF LiveInv

(* A valid record is in reach of the search.                               *)
LEMMA FindComplete ==
    ASSUME IInv, pc \in {"idle", "find"}, NEW a \in LiveAddr, NEW k \in Key, KvAt(a).key = k
    PROVE  Find(k) # FAILED_ADDR
<1>1. PICK c \in 0..(SecNum - 1), w \in Addr : Layout(c, w)
    BY DEF IInv, LayoutInv
<1>2. /\ IsFlash(sector) /\ oldest_addr \in Sector /\ a \in Addr /\ TypeInv /\ LiveInv
      /\ Ring(c, SecOf(w)) /\ Filling(c, w) /\ Dist(oldest_addr, SecOf(w)) = c /\ c \in Nat
    BY <1>1 DEF IInv, TypeInv, RamType, LiveAddr, Layout, ContentsInv
<1> DEFINE n == Dist(oldest_addr, SecOf(a))
           o == OffOf(a)
<1>3. /\ SecOf(a) \in Sector /\ o \in DOMAIN sector[SecOf(a)].kv /\ a = AddrOf(SecOf(a), o)
      /\ SecOf(w) \in Sector
    BY <1>2, LiveFacts, AddrFacts
<1>4. n \in 0..(SecNum - 1) /\ Nth(n) = SecOf(a)
    BY <1>2, <1>3, DistFacts, NthDist
<1>5. n <= c
    <2>1. sector[SecOf(a)] # Empty
        BY <1>3 DEF Empty
    <2>2. ~(Dist(oldest_addr, SecOf(a)) > c)
        BY <1>2, <1>3, <2>1 DEF Ring
    <2>3. QED BY <1>2, <1>4, <2>2, Sizes
<1>6. ASSUME NEW m \in 0..n PROVE sector[Nth(m)].store # "EMPTY"
    <2>1. m \in 0..(SecNum - 1) /\ m <= c
        BY <1>2, <1>4, <1>5, Sizes
    <2>2. Nth(m) \in Sector /\ Dist(oldest_addr, Nth(m)) = m
        BY <1>2, <2>1, NthFacts
    <2>3. CASE m < c
        BY <1>2, <2>2, <2>3 DEF Ring, GcPc
    <2>4. CASE m = c
        <3>1. n = c
            BY <1>4, <1>5, <2>4
        <3>2. SecOf(a) = SecOf(w) /\ Nth(m) = SecOf(w)
            BY <1>2, <1>3, <2>2, <2>4, <3>1 DEF Ring
        <3>3. sector[SecOf(w)] # Empty
            BY <1>3, <3>2 DEF Empty
        <3>4. QED BY <1>2, <3>2, <3>3 DEF Filling
    <2>5. QED BY <2>1, <2>3, <2>4
<1>7. Reached(n)
    BY <1>6 DEF Reached
<1>8. o \in Walk(sector, Nth(n))
    <2>1. Tiled(sector[SecOf(a)].kv)
        BY <1>2, <1>3 DEF Ring
    <2>2. QED BY <1>2, <1>3, <1>4, <2>1, WalkAll
<1> PICK p : p = n * sec_size + o
    OBVIOUS
<1>9. p \in Places /\ IsPlace(p, n, o)
    BY <1>2, <1>4, <1>7, <1>8, PlaceFacts
<1>10. AtPlace(p) = a
    BY <1>3, <1>4, <1>9 DEF IsPlace
<1> DEFINE places == {q \in Places : /\ KvAt(AtPlace(q)).key = k
                                     /\ KvAt(AtPlace(q)).status \in Live}
<1>11. p \in places
    BY <1>9, <1>10, LiveHas
<1>12. \A q \in Places : q \in Nat /\ AtPlace(q) \in Addr
    BY <1>2, PlacesFacts DEF IsPlace
<1>13. Min(places) \in places
    <2>1. places \subseteq Nat /\ places # {}
        BY <1>11, <1>12
    <2>2. QED BY <2>1, MinIsLeast
<1>14. Scanned(k) = AtPlace(Min(places)) /\ AtPlace(Min(places)) \in Addr
    BY <1>11, <1>12, <1>13 DEF Scanned
<1>15. QED BY <1>14, AddrFacts DEF Find

(* The records of a sector are found from the first on: behind a place     *)
(* where none begins there is none.                                        *)
LEMMA NoneBeyond ==
    ASSUME NEW kv, \A o \in DOMAIN kv : o \in Nat /\ kv[o].len \in Nat /\ kv[o].len > 0 /\ o > 0,
           Tiled(kv), NEW x, Follow(kv, x), x \notin DOMAIN kv
    PROVE  \A o \in DOMAIN kv : ~(o >= x)
<1> DEFINE S == {o \in DOMAIN kv : o >= x}
<1>1. SUFFICES ASSUME S # {} PROVE FALSE
    OBVIOUS
<1>2. S \subseteq Nat
    OBVIOUS
<1>3. PICK o \in S : \A p \in S : o <= p
    BY <1>1, <1>2, LeastExists
<1>4. \A p \in DOMAIN kv : /\ Follow(kv, p)
                           /\ \A q \in DOMAIN kv : p < q => p + kv[p].len <= q
    BY DEF Tiled
<1>5. x \in Nat /\ x > 0
    BY DEF Follow, SECTOR_HDR_DATA_SIZE
<1>6. o > x
    BY <1>3, <1>5
<1>7. PICK q \in DOMAIN kv : q + kv[q].len = o
    BY <1>3, <1>4, <1>5, <1>6 DEF Follow, SECTOR_HDR_DATA_SIZE
<1>8. q < x
    <2>1. q < o
        BY <1>7
    <2>2. q \notin S
        BY <1>2, <1>3, <1>7, <2>1
    <2>3. QED BY <1>5, <2>2
<1>9. PICK p \in DOMAIN kv : p + kv[p].len = x
    BY <1>5, <1>8 DEF Follow, SECTOR_HDR_DATA_SIZE
<1>10. p # q
    BY <1>6, <1>7, <1>9
<1>11. p < q \/ q < p
    BY <1>10
<1>12. QED BY <1>3, <1>4, <1>5, <1>6, <1>7, <1>8, <1>9, <1>11

(* A step that changes no record and is not in the middle of writing one.  *)
LEMMA QuietContents ==
    ASSUME ContentsInv, \A t \in Sector : sector'[t].kv = sector[t].kv,
           pc \notin {"delete_old", "gc_delete"},
           pc' \in {"idle", "init", "check", "alloc", "alloc_next", "find",
                    "gc", "gc_scan", "gc_next", "gc_pre_delete"},
           \A k \in Key : cache'[k] \in {cache[k], FAILED_ADDR}
    PROVE  ContentsInv'
<1>1. LiveAddr' = LiveAddr /\ \A a \in Addr : KvAt(a)' = KvAt(a)
    BY KvSame
<1>2. Twins = {}
    BY DEF Twins
<1>3. LiveInv'
    BY <1>1, <1>2, LiveUnchanged, LiveHas DEF ContentsInv
<1>4. SettingInv' /\ MovingInv'
    BY DEF SettingInv, MovingInv, Writing, Moving
<1>5. QED BY <1>3, <1>4 DEF ContentsInv

LEMMA MarksKv ==
    ASSUME IsFlash(sector), NEW s \in Sector,
           \/ \E mark \in StoreMark : sector' = Stored(sector, s, mark)
           \/ \E mark \in DirtyMark : sector' = Dirtied(sector, s, mark)
    PROVE  \A t \in Sector : sector'[t].kv = sector[t].kv
<1>1. ASSUME NEW mark \in StoreMark, sector' = Stored(sector, s, mark)
      PROVE  \A t \in Sector : sector'[t].kv = sector[t].kv
    BY <1>1, StoredFacts DEF IsStored
<1>2. ASSUME NEW mark \in DirtyMark, sector' = Dirtied(sector, s, mark)
      PROVE  \A t \in Sector : sector'[t].kv = sector[t].kv
    BY <1>2, DirtiedFacts DEF IsDirtied
<1>3. QED BY <1>1, <1>2

LEMMA SetContents ==
    ASSUME IInv, Conditions, NEW k \in Key, NEW v \in Value \cup {None}, kv_set(k, v)
    PROVE  ContentsInv' /\ \A t \in Sector : sector'[t].kv = sector[t].kv
<1>1. /\ pc \notin {"delete_old", "gc_delete"}
      /\ pc' \in {"idle", "init", "check", "alloc", "alloc_next", "find",
                 "gc", "gc_scan", "gc_next", "gc_pre_delete"}
      /\ \A k1 \in Key : cache'[k1] \in {cache[k1], FAILED_ADDR}
    BY DEF kv_set, volatile
<1>2. \A t \in Sector : sector'[t].kv = sector[t].kv
    BY DEF kv_set, volatile
<1>3. QED BY <1>1, <1>2, QuietContents DEF IInv

LEMMA WriteFailsContents ==
    ASSUME IInv, Conditions, WriteFails
    PROVE  ContentsInv' /\ \A t \in Sector : sector'[t].kv = sector[t].kv
<1>1. /\ pc \notin {"delete_old", "gc_delete"}
      /\ pc' \in {"idle", "init", "check", "alloc", "alloc_next", "find",
                 "gc", "gc_scan", "gc_next", "gc_pre_delete"}
      /\ \A k1 \in Key : cache'[k1] \in {cache[k1], FAILED_ADDR}
    BY DEF WriteFails, Returns
<1>2. \A t \in Sector : sector'[t].kv = sector[t].kv
    BY DEF WriteFails, volatile
<1>3. QED BY <1>1, <1>2, QuietContents DEF IInv

LEMMA GcSkipContents ==
    ASSUME IInv, Conditions, GcSkip
    PROVE  ContentsInv' /\ \A t \in Sector : sector'[t].kv = sector[t].kv
<1>1. /\ pc \notin {"delete_old", "gc_delete"}
      /\ pc' \in {"idle", "init", "check", "alloc", "alloc_next", "find",
                 "gc", "gc_scan", "gc_next", "gc_pre_delete"}
      /\ \A k1 \in Key : cache'[k1] \in {cache[k1], FAILED_ADDR}
    BY DEF GcSkip, volatile
<1>2. \A t \in Sector : sector'[t].kv = sector[t].kv
    BY DEF GcSkip, volatile
<1>3. QED BY <1>1, <1>2, QuietContents DEF IInv

LEMMA ResetContents ==
    ASSUME IInv, Conditions, Reset
    PROVE  ContentsInv' /\ \A t \in Sector : sector'[t].kv = sector[t].kv
<1>1. /\ pc \notin {"delete_old", "gc_delete"}
      /\ pc' \in {"idle", "init", "check", "alloc", "alloc_next", "find",
                 "gc", "gc_scan", "gc_next", "gc_pre_delete"}
      /\ \A k1 \in Key : cache'[k1] \in {cache[k1], FAILED_ADDR}
    BY DEF Reset, Conditions
<1>2. \A t \in Sector : sector'[t].kv = sector[t].kv
    BY DEF Reset, volatile
<1>3. QED BY <1>1, <1>2, QuietContents DEF IInv

LEMMA StartContents ==
    ASSUME IInv, Conditions, flashdb_init
    PROVE  ContentsInv' /\ \A t \in Sector : sector'[t].kv = sector[t].kv
<1>1. /\ pc \notin {"delete_old", "gc_delete"}
      /\ pc' \in {"idle", "init", "check", "alloc", "alloc_next", "find",
                 "gc", "gc_scan", "gc_next", "gc_pre_delete"}
      /\ \A k1 \in Key : cache'[k1] \in {cache[k1], FAILED_ADDR}
    BY DEF flashdb_init, volatile
<1>2. \A t \in Sector : sector'[t].kv = sector[t].kv
    BY StartLayout
<1>3. QED BY <1>1, <1>2, QuietContents DEF IInv

LEMMA AllocContents ==
    ASSUME IInv, Conditions, alloc_kv
    PROVE  ContentsInv' /\ \A t \in Sector : sector'[t].kv = sector[t].kv
<1>1. /\ pc \notin {"delete_old", "gc_delete"}
      /\ pc' \in {"idle", "init", "check", "alloc", "alloc_next", "find",
                 "gc", "gc_scan", "gc_next", "gc_pre_delete"}
      /\ \A k1 \in Key : cache'[k1] \in {cache[k1], FAILED_ADDR}
    BY DEF alloc_kv, Returns
<1>2. \A t \in Sector : sector'[t].kv = sector[t].kv
    <2>1. IsFlash(sector)
        BY DEF IInv, TypeInv
    <2>2. SecOf(empty_kv) \in Sector
        BY AddrFacts DEF IInv, TypeInv, RamType
    <2>3. \/ sector' = sector \/ sector' = Stored(sector, SecOf(empty_kv), "FULL")
          \/ sector' = Stored(sector, SecOf(empty_kv), "USING")
        BY DEF alloc_kv
    <2>4. QED BY <2>1, <2>2, <2>3, MarksKv DEF StoreMark
<1>3. QED BY <1>1, <1>2, QuietContents DEF IInv

LEMMA AllocNextContents ==
    ASSUME IInv, Conditions, alloc_kv_next
    PROVE  ContentsInv' /\ \A t \in Sector : sector'[t].kv = sector[t].kv
<1>1. /\ pc \notin {"delete_old", "gc_delete"}
      /\ pc' \in {"idle", "init", "check", "alloc", "alloc_next", "find",
                 "gc", "gc_scan", "gc_next", "gc_pre_delete"}
      /\ \A k1 \in Key : cache'[k1] \in {cache[k1], FAILED_ADDR}
    BY DEF alloc_kv_next, volatile
<1>2. \A t \in Sector : sector'[t].kv = sector[t].kv
    <2>1. IsFlash(sector)
        BY DEF IInv, TypeInv
    <2>2. get_next_sec(SecOf(empty_kv)) \in Sector
        BY AddrFacts, NextSec DEF IInv, TypeInv, RamType
    <2>3. QED BY <2>1, <2>2, MarksKv DEF StoreMark, alloc_kv_next
<1>3. QED BY <1>1, <1>2, QuietContents DEF IInv

LEMMA GcBeginContents ==
    ASSUME IInv, Conditions, GcBegin
    PROVE  ContentsInv' /\ \A t \in Sector : sector'[t].kv = sector[t].kv
<1>1. /\ pc \notin {"delete_old", "gc_delete"}
      /\ pc' \in {"idle", "init", "check", "alloc", "alloc_next", "find",
                 "gc", "gc_scan", "gc_next", "gc_pre_delete"}
      /\ \A k1 \in Key : cache'[k1] \in {cache[k1], FAILED_ADDR}
    BY DEF GcBegin, volatile
<1>2. \A t \in Sector : sector'[t].kv = sector[t].kv
    <2>1. IsFlash(sector)
        BY DEF IInv, TypeInv
    <2>2. oldest_addr \in Sector
        BY DEF IInv, TypeInv, RamType
    <2>3. QED BY <2>1, <2>2, MarksKv DEF DirtyMark, GcBegin
<1>3. QED BY <1>1, <1>2, QuietContents DEF IInv

LEMMA GcNextSectorContents ==
    ASSUME IInv, Conditions, GcNextSector
    PROVE  ContentsInv' /\ \A t \in Sector : sector'[t].kv = sector[t].kv
<1>1. /\ pc \notin {"delete_old", "gc_delete"}
      /\ pc' \in {"idle", "init", "check", "alloc", "alloc_next", "find",
                 "gc", "gc_scan", "gc_next", "gc_pre_delete"}
      /\ \A k1 \in Key : cache'[k1] \in {cache[k1], FAILED_ADDR}
    BY DEF GcNextSector, volatile
<1>2. \A t \in Sector : sector'[t].kv = sector[t].kv
    <2>1. IsFlash(sector)
        BY DEF IInv, TypeInv
    <2>2. get_next_sec(SecOf(gc.next)) \in Sector
        BY AddrFacts, NextSec DEF IInv, TypeInv, GcType, GcPc, GcNextSector
    <2>3. QED BY <2>1, <2>2, MarksKv DEF StoreMark, GcNextSector
<1>3. QED BY <1>1, <1>2, QuietContents DEF IInv

LEMMA GcDirtyContents ==
    ASSUME IInv, Conditions, GcDirty
    PROVE  ContentsInv' /\ \A t \in Sector : sector'[t].kv = sector[t].kv
<1>1. /\ pc \notin {"delete_old", "gc_delete"}
      /\ pc' \in {"idle", "init", "check", "alloc", "alloc_next", "find",
                 "gc", "gc_scan", "gc_next", "gc_pre_delete"}
      /\ \A k1 \in Key : cache'[k1] \in {cache[k1], FAILED_ADDR}
    BY DEF GcDirty, volatile
<1>2. \A t \in Sector : sector'[t].kv = sector[t].kv
    <2>1. IsFlash(sector)
        BY DEF IInv, TypeInv
    <2>2. SecOf(gc.next) \in Sector
        BY AddrFacts DEF IInv, TypeInv, GcType, GcPc, GcDirty
    <2>3. QED BY <2>1, <2>2, MarksKv DEF DirtyMark, GcDirty
<1>3. QED BY <1>1, <1>2, QuietContents DEF IInv

LEMMA MarkDirtyContents ==
    ASSUME IInv, MarkDirty
    PROVE  ContentsInv' /\ \A t \in Sector : sector'[t].kv = sector[t].kv
<1>1. /\ pc = "dirty" /\ pc' = "data" /\ UNCHANGED <<empty_kv, cache, op, ctx, gc>>
      /\ sector' = Dirtied(sector, SecOf(ctx.new), "TRUE")
      /\ LiveInv /\ SettingInv /\ IsFlash(sector) /\ ctx.new \in Addr
    BY DEF MarkDirty, volatile, IInv, ContentsInv, TypeInv, OpType, Writing
<1>2. \A t \in Sector : sector'[t].kv = sector[t].kv
    BY <1>1, AddrFacts, MarksKv DEF DirtyMark
<1>3. LiveAddr' = LiveAddr /\ \A a \in Addr : KvAt(a)' = KvAt(a) /\ Has(a)' = Has(a)
    BY <1>2, KvSame
<1>4. LiveInv'
    <2>1. Twins = {}
        BY <1>1 DEF Twins
    <2>2. QED BY <1>1, <1>3, <2>1, LiveUnchanged, LiveHas
<1>5. KvAt(ctx.new)' = KvAt(ctx.new) /\ Has(ctx.new)'
    BY <1>1, <1>3 DEF SettingInv, Writing, Has
<1>6. ctx.old # FAILED_ADDR => KvAt(ctx.old)' = KvAt(ctx.old)
    BY <1>1, <1>3, LiveHas DEF SettingInv, Writing
<1>7. SettingInv'
    <2>1. \A a \in LiveAddr' : KvAt(a)'.key = op'.key => a = ctx'.old
        BY <1>1, <1>3, LiveHas DEF SettingInv, Writing
    <2>2. ctx'.old # FAILED_ADDR =>
            ctx'.old \in LiveAddr' /\ KvAt(ctx.old)'.key = op'.key
            /\ KvAt(ctx.old)'.status = "PRE_DELETE"
        BY <1>1, <1>3, <1>6 DEF SettingInv, Writing
    <2>3. /\ RecordEnd(ctx.new, Len[op.val])' = empty_kv' /\ KvAt(ctx.new)'.len = Len[op'.val]
          /\ KvAt(ctx.new)'.status = "PRE_WRITE" /\ KvAt(ctx.new)'.key = None
        BY <1>1, <1>5 DEF SettingInv, Writing, RecordEnd
    <2>4. QED BY <1>1, <1>5, <2>1, <2>2, <2>3 DEF SettingInv, Writing, Has
<1>8. MovingInv'
    BY <1>1 DEF MovingInv, Moving
<1>9. QED BY <1>2, <1>4, <1>7, <1>8 DEF ContentsInv

(* A step that changes one record.                                         *)
LEMMA LiveChanged ==
    ASSUME LiveInv, NEW p \in Addr, NEW rec, OneChanges(p, rec),
           rec.status \in Live => rec.key \in Key /\ rec.val \in Value,
           \A a, b \in LiveAddr \ {p} :
             KvAt(a).key = KvAt(b).key => a = b \/ {a, b} \subseteq Twins',
           rec.status \in Live =>
             \A b \in LiveAddr \ {p} : KvAt(b).key = rec.key => {p, b} \subseteq Twins',
           \A k \in Key : cache'[k] # FAILED_ADDR =>
             \/ cache'[k] = p /\ rec.status \in Live /\ rec.key = k
             \/ \E a \in LiveAddr \ {p} : cache'[k] = a /\ KvAt(a).key = k
    PROVE  LiveInv'
<1>1. /\ KvAt(p)' = rec
      /\ \A a \in LiveAddr \ {p} : KvAt(a)' = KvAt(a)
      /\ \A a \in LiveAddr' : (a = p /\ rec.status \in Live) \/ a \in LiveAddr \ {p}
      /\ \A a \in LiveAddr \ {p} : a \in LiveAddr'
      /\ rec.status \in Live => p \in LiveAddr'
    BY LiveHas DEF OneChanges
<1>2. \A a \in LiveAddr' : KvAt(a)'.key \in Key /\ KvAt(a)'.val \in Value
    BY <1>1 DEF LiveInv
<1>3. ASSUME NEW a \in LiveAddr', NEW b \in LiveAddr', KvAt(a)'.key = KvAt(b)'.key
      PROVE  a = b \/ {a, b} \subseteq Twins'
    <2>1. CASE a = p /\ b = p
        BY <2>1
    <2>2. CASE a = p /\ b # p
        BY <1>1, <1>3, <2>2
    <2>3. CASE a # p /\ b = p
        BY <1>1, <1>3, <2>3
    <2>4. CASE a # p /\ b # p
        BY <1>1, <1>3, <2>4
    <2>5. QED BY <2>1, <2>2, <2>3, <2>4
<1>4. ASSUME NEW k \in Key, cache'[k] # FAILED_ADDR
      PROVE  \E a \in LiveAddr' : cache'[k] = a /\ KvAt(a)'.key = k
    BY <1>1, <1>4
<1>5. \A k \in Key : cache'[k] # FAILED_ADDR => cache'[k] \in LiveAddr' /\ KvAt(cache[k])'.key = k
    <2>1. SUFFICES ASSUME NEW k \in Key, cache'[k] # FAILED_ADDR
                   PROVE  cache'[k] \in LiveAddr' /\ KvAt(cache[k])'.key = k
        OBVIOUS
    <2>2. PICK a \in LiveAddr' : cache'[k] = a /\ KvAt(a)'.key = k
        BY <1>4, <2>1
    <2>3. KvAt(cache[k])' = KvAt(a)'
        BY <2>2 DEF KvAt
    <2>4. QED BY <2>2, <2>3
<1>6. QED BY <1>2, <1>3, <1>5 DEF LiveInv

LEMMA MarkedChange ==
    ASSUME TypeInv, NEW p \in Addr, Has(p), NEW status \in Status, sector' = Marked(sector, p, status)
    PROVE  /\ OneChanges(p, WithStatus(KvAt(p), status)) /\ KvAt(p) \in KvRecord
           /\ WithStatus(KvAt(p), status).status = status
           /\ WithStatus(KvAt(p), status).len = KvAt(p).len
           /\ status # "DELETED" => /\ WithStatus(KvAt(p), status).key = KvAt(p).key
                                    /\ WithStatus(KvAt(p), status).val = KvAt(p).val
<1>1. IsMarked(sector', sector, p, status) /\ SecOf(p) \in Sector
    BY MarkedFacts, AddrFacts DEF TypeInv
<1>2. KvAt(p) \in KvRecord
    BY <1>1, SectorFacts DEF TypeInv, Has, KvAt
<1>3. OneChanges(p, WithStatus(KvAt(p), status))
    BY <1>1, KvPatched DEF IsMarked, KvAt
<1>4. QED BY <1>2, <1>3, WithStatusFacts

LEMMA FindOldContents ==
    ASSUME IInv, Conditions, FindOld
    PROVE  ContentsInv'
<1>1. /\ TypeInv /\ LiveInv /\ pc = "find" /\ op.key \in Key /\ Twins = {} /\ Twins' = {}
      /\ cache \in [Key -> Addr \cup {FAILED_ADDR}]
      /\ ctx \in [old : Addr \cup {FAILED_ADDR}, new : Addr \cup {FAILED_ADDR}]
    BY DEF IInv, ContentsInv, FindOld, TypeInv, RamType, OpType, SetPc, Twins, Returns
<1> PICK old : old = Find(op.key)
    OBVIOUS
<1> PICK k : k = op.key
    OBVIOUS
<1>2. old # FAILED_ADDR => old \in LiveAddr /\ KvAt(old).key = k
    BY <1>1, FindSound
<1>3. \A a \in LiveAddr : KvAt(a).key = k => a = old /\ old # FAILED_ADDR
    <2>1. \A a \in LiveAddr : KvAt(a).key = k => old # FAILED_ADDR
        BY <1>1, FindComplete
    <2>2. QED BY <1>1, <1>2, <2>1 DEF LiveInv
<1>4. MovingInv'
    BY DEF FindOld, Returns, MovingInv, Moving
<1>5. \A j \in Key : cache'[j] # FAILED_ADDR =>
        \/ cache'[j] = old /\ old # FAILED_ADDR /\ j = k /\ op.val # None
        \/ j # k /\ cache'[j] = cache[j]
    BY <1>1 DEF FindOld, Cached
<1>6. \A j \in Key : cache[j] # FAILED_ADDR => cache[j] \in LiveAddr /\ KvAt(cache[j]).key = j
    BY <1>1 DEF LiveInv
<1>7. \A a, b \in LiveAddr : KvAt(a).key = KvAt(b).key => a = b
    BY <1>1 DEF LiveInv
<1>8. CASE /\ sector' = sector
           /\ op.val = None => old = FAILED_ADDR
           /\ old # FAILED_ADDR => KvAt(old).status # "WRITE"
    <2>1. LiveAddr' = LiveAddr /\ \A a \in Addr : KvAt(a)' = KvAt(a)
        BY <1>8, KvSame
    <2>2. LiveInv'
        <3>1. \A a \in LiveAddr' : KvAt(a)'.key \in Key /\ KvAt(a)'.val \in Value
            BY <1>1, <2>1, LiveHas DEF LiveInv
        <3>2. \A a, b \in LiveAddr' : KvAt(a)'.key = KvAt(b)'.key => a = b
            BY <1>7, <2>1, LiveHas
        <3>3. ASSUME NEW j \in Key, cache'[j] # FAILED_ADDR
              PROVE  cache'[j] \in LiveAddr' /\ KvAt(cache[j])'.key = j
            <4>1. cache'[j] \in LiveAddr /\ KvAt(cache'[j]).key = j
                BY <1>2, <1>5, <1>6, <3>3
            <4>2. KvAt(cache[j])' = KvAt(cache'[j])
                BY <1>8 DEF KvAt
            <4>3. QED BY <2>1, <4>1, <4>2
        <3>4. QED BY <3>1, <3>2, <3>3 DEF LiveInv
    <2>3. SettingInv'
        <3>1. CASE op.val = None
            BY <3>1 DEF FindOld, Returns, SettingInv, Writing
        <3>2. CASE op.val # None
            <4>1. pc' = "header" /\ op' = op /\ ctx'.old = old
                BY <1>1, <3>2 DEF FindOld
            <4>2. \A a \in LiveAddr' : KvAt(a)'.key = op'.key => a = ctx'.old
                BY <1>3, <2>1, <4>1, LiveHas
            <4>3. ctx'.old # FAILED_ADDR =>
                    /\ ctx'.old \in LiveAddr' /\ KvAt(ctx.old)'.key = op'.key
                    /\ KvAt(ctx.old)'.status = "PRE_DELETE"
                <5>1. SUFFICES ASSUME old # FAILED_ADDR
                               PROVE  /\ old \in LiveAddr' /\ KvAt(ctx.old)'.key = k
                                      /\ KvAt(ctx.old)'.status = "PRE_DELETE"
                    BY <4>1
                <5>2. KvAt(ctx.old)' = KvAt(old)
                    BY <1>8, <4>1 DEF KvAt
                <5>3. KvAt(old).status \in Live /\ KvAt(old).status # "WRITE"
                    BY <1>2, <1>8, <5>1, LiveHas
                <5>4. QED BY <1>2, <2>1, <5>1, <5>2, <5>3 DEF Live
            <4>4. QED BY <4>1, <4>2, <4>3 DEF SettingInv, Writing
        <3>3. QED BY <3>1, <3>2
    <2>4. QED BY <1>4, <2>2, <2>3 DEF ContentsInv
<1>9. CASE op.val = None /\ old # FAILED_ADDR
    <2>1. sector' = Marked(sector, old, "DELETED") /\ pc' = "idle"
        BY <1>9 DEF FindOld, Returns
    <2>2. old \in Addr /\ Has(old)
        BY <1>2, <1>9, LiveHas
    <2> PICK rec : rec = WithStatus(KvAt(old), "DELETED")
        OBVIOUS
    <2>3. OneChanges(old, rec) /\ rec.status = "DELETED"
        BY <1>1, <2>1, <2>2, MarkedChange DEF Status
    <2>4. \A j \in Key : cache'[j] # FAILED_ADDR =>
            \E a \in LiveAddr \ {old} : cache'[j] = a /\ KvAt(a).key = j
        BY <1>2, <1>5, <1>6, <1>9
    <2>5. LiveInv'
        BY <1>1, <1>7, <2>2, <2>3, <2>4, LiveChanged DEF Live
    <2>6. SettingInv'
        BY <2>1 DEF SettingInv, Writing
    <2>7. QED BY <1>4, <2>5, <2>6 DEF ContentsInv
<1>10. CASE op.val # None /\ old # FAILED_ADDR /\ KvAt(old).status = "WRITE"
    <2>1. /\ sector' = Marked(sector, old, "PRE_DELETE") /\ pc' = "header" /\ op' = op
          /\ ctx'.old = old
        BY <1>1, <1>10 DEF FindOld, PreDeleted
    <2>2. old \in Addr /\ Has(old) /\ old \in LiveAddr /\ KvAt(old).key = k
        BY <1>2, <1>10, LiveHas
    <2> PICK rec : rec = WithStatus(KvAt(old), "PRE_DELETE")
        OBVIOUS
    <2>3. /\ OneChanges(old, rec) /\ rec.status = "PRE_DELETE"
          /\ rec.key = KvAt(old).key /\ rec.val = KvAt(old).val
        BY <1>1, <2>1, <2>2, MarkedChange DEF Status
    <2>4. \A j \in Key : cache'[j] # FAILED_ADDR =>
            \/ cache'[j] = old /\ rec.key = j
            \/ \E a \in LiveAddr \ {old} : cache'[j] = a /\ KvAt(a).key = j
        BY <1>2, <1>5, <1>6, <1>10, <2>3
    <2>5. rec.key \in Key /\ rec.val \in Value
        BY <1>1, <2>2, <2>3 DEF LiveInv
    <2>6. \A b \in LiveAddr \ {old} : KvAt(b).key # rec.key
        BY <1>3, <2>2, <2>3
    <2>7. LiveInv'
        BY <1>1, <1>7, <2>2, <2>3, <2>4, <2>5, <2>6, LiveChanged DEF Live
    <2>8. \A a \in LiveAddr' : KvAt(a)'.key = op'.key => a = ctx'.old
        BY <1>3, <2>1, <2>3, LiveHas DEF OneChanges
    <2>9. KvAt(ctx.old)' = rec
        BY <2>1, <2>3 DEF OneChanges, KvAt
    <2>10. old \in LiveAddr'
        BY <2>2, <2>3 DEF OneChanges, Live
    <2>11. SettingInv'
        BY <2>1, <2>2, <2>3, <2>8, <2>9, <2>10 DEF SettingInv, Writing
    <2>12. QED BY <1>4, <2>7, <2>11 DEF ContentsInv
<1>11. QED BY <1>8, <1>9, <1>10 DEF FindOld

LEMMA GetContents ==
    ASSUME IInv, NEW k \in Key, kv_get(k)
    PROVE  ContentsInv' /\ sector' = sector
<1>1. TypeInv /\ LiveInv /\ pc = "idle" /\ pc' = "idle" /\ cache \in [Key -> Addr \cup {FAILED_ADDR}]
    BY DEF IInv, ContentsInv, kv_get, TypeInv, RamType
<1>2. Find(k) # FAILED_ADDR => Find(k) \in LiveAddr /\ KvAt(Find(k)).key = k
    BY <1>1, FindSound
<1>3. Find(k) # FAILED_ADDR => Whole(KvAt(Find(k)))
    BY <1>2, KvAssumption DEF Whole
<1>4. sector' = sector /\ cache' = [cache EXCEPT ![k] = Find(k)]
    BY <1>3 DEF kv_get
<1>5. LiveAddr' = LiveAddr /\ \A a \in Addr : KvAt(a)' = KvAt(a)
    BY <1>4, KvSame
<1>6. Twins = {} /\ Twins' = {}
    BY <1>1 DEF Twins
<1>7. \A j \in Key : cache'[j] # FAILED_ADDR =>
        cache'[j] \in LiveAddr' /\ KvAt(cache[j])'.key = j
    <2>1. SUFFICES ASSUME NEW j \in Key, cache'[j] # FAILED_ADDR
                   PROVE  cache'[j] \in LiveAddr' /\ KvAt(cache[j])'.key = j
        OBVIOUS
    <2>2. cache'[j] \in LiveAddr /\ KvAt(cache'[j]).key = j
        BY <1>1, <1>2, <1>4, <2>1 DEF LiveInv
    <2>3. KvAt(cache[j])' = KvAt(cache'[j])
        BY <1>4 DEF KvAt
    <2>4. QED BY <1>5, <2>2, <2>3
<1>8. \A a \in LiveAddr' : KvAt(a)' = KvAt(a) /\ a \in LiveAddr
    BY <1>5, LiveHas
<1>9. LiveInv'
    BY <1>1, <1>6, <1>7, <1>8 DEF LiveInv
<1>10. SettingInv' /\ MovingInv'
    BY <1>1 DEF SettingInv, MovingInv, Writing, Moving
<1>11. QED BY <1>4, <1>9, <1>10 DEF ContentsInv

LEMMA CheckContents ==
    ASSUME IInv, check_all_kv
    PROVE  /\ ContentsInv' /\ LiveAddr' = LiveAddr /\ \A a \in LiveAddr : KvAt(a)' = KvAt(a)
           /\ \/ sector' = sector
              \/ \E a \in Addr : Has(a) /\ sector' = Marked(sector, a, "DELETED")
<1>1. /\ TypeInv /\ LiveInv /\ pc = "check" /\ pc' \in {"idle", "check"} /\ cache' = cache
      /\ IsFlash(sector) /\ oldest_addr \in Sector /\ ContentsInv
    BY DEF IInv, ContentsInv, check_all_kv, TypeInv, RamType, volatile
<1>2. SettingInv' /\ MovingInv'
    BY <1>1 DEF SettingInv, MovingInv, Writing, Moving
<1>3. CASE Unfinished = {}
    <2>1. sector' = sector
        BY <1>3 DEF check_all_kv
    <2>2. LiveAddr' = LiveAddr /\ \A a \in LiveAddr : KvAt(a)' = KvAt(a)
        BY <2>1, KvSame, LiveHas
    <2>3. QED BY <1>1, <2>1, <2>2, QuietContents
<1>4. CASE Unfinished # {}
    <2>1. ASSUME NEW p \in Places
          PROVE  p \in Nat /\ AtPlace(p) \in Addr /\ Has(AtPlace(p))
        <3>1. PICK n \in 0..(SecNum - 1) : \E o \in Walk(sector, Nth(n)) : IsPlace(p, n, o)
            BY <1>1, PlacesFacts
        <3>2. PICK o \in Walk(sector, Nth(n)) : IsPlace(p, n, o)
            BY <3>1
        <3>3. QED BY <3>2 DEF IsPlace, Has
    <2>2. Unfinished \subseteq Places
        BY DEF Unfinished
    <2>3. PICK p \in Unfinished : p = Min(Unfinished)
        BY <1>4, <2>1, <2>2, MinIsLeast
    <2> PICK a : a = AtPlace(p)
        OBVIOUS
    <2>4. sector' = Marked(sector, a, "DELETED") /\ a \in Addr /\ Has(a)
        BY <1>4, <2>1, <2>2, <2>3 DEF check_all_kv
    <2>5. a \notin LiveAddr
        <3>1. KvAt(a).status = "PRE_WRITE" \/ ~Whole(KvAt(a))
            BY <2>3 DEF Unfinished
        <3>2. a \in LiveAddr => KvAt(a).key \in Key /\ KvAt(a).status \in Live
            BY <1>1, LiveHas DEF LiveInv
        <3>3. QED BY <3>1, <3>2, KvAssumption DEF Whole, Live
    <2> PICK rec : rec = WithStatus(KvAt(a), "DELETED")
        OBVIOUS
    <2>6. OneChanges(a, rec) /\ rec.status = "DELETED"
        BY <1>1, <2>4, MarkedChange DEF Status
    <2>7. LiveAddr' = LiveAddr /\ \A b \in LiveAddr : KvAt(b)' = KvAt(b)
        BY <2>5, <2>6, LiveHas DEF OneChanges, Live
    <2>8. Twins = {}
        BY <1>1 DEF Twins
    <2>9. LiveInv'
        BY <1>1, <2>7, <2>8, LiveUnchanged
    <2>10. QED BY <1>2, <2>4, <2>7, <2>9 DEF ContentsInv
<1>5. QED BY <1>3, <1>4

(* A record is written behind the others, in a sector marked as used.      *)
FreshlyWritten(a, rec) ==
    LET sec == sector[SecOf(a)]
    IN  /\ IsWritten(sector', sector, SecOf(a), OffOf(a), rec)
        /\ FreeAt(sec.kv, OffOf(a)) /\ Tiled(sec.kv) /\ sec.store \in {"USING", "FULL"}

LEMMA WriteHeaderContents ==
    ASSUME IInv, Conditions, WriteHeader
    PROVE  /\ ContentsInv' /\ LiveAddr' = LiveAddr /\ \A a \in LiveAddr : KvAt(a)' = KvAt(a)
           /\ \E rec : FreshlyWritten(ctx.new, rec)
<1>1. /\ TypeInv /\ LiveInv /\ SettingInv /\ pc = "header" /\ pc' \in {"dirty", "data"}
      /\ op.val \in Value /\ op.key \in Key /\ Len[op.val] \in KvLen /\ ctx.new \in Addr
      /\ Room(OffOf(ctx.new), Len[op.val])
      /\ cache' = cache /\ op' = op /\ ctx' = ctx /\ gc' = gc
      /\ empty_kv' = RecordEnd(ctx.new, Len[op.val]) /\ IsFlash(sector)
    BY Sizes DEF IInv, ContentsInv, WriteHeader, TypeInv, OpType, SetPc, volatile
<1>2. PICK c \in 0..(SecNum - 1), w \in Addr : Layout(c, w)
    BY DEF IInv, LayoutInv
<1>3. w = ctx.new /\ Ring(c, SecOf(w)) /\ Filling(c, w) /\ SecOf(w) \in Sector
      /\ OffOf(w) \in Nat
    BY <1>1, <1>2, AddrFacts DEF Layout, NextFree, Moving
<1> PICK rec : rec = [key |-> None, val |-> None, len |-> Len[op.val], status |-> "PRE_WRITE"]
    OBVIOUS
<1>4. /\ rec \in KvRecord /\ rec.len = Len[op.val] /\ rec.status = "PRE_WRITE" /\ rec.key = None
    BY <1>1 DEF KvRecord, Status
<1>5. IsWritten(sector', sector, SecOf(w), OffOf(w), rec)
    BY <1>1, <1>3, <1>4, RecordedFacts DEF WriteHeader
<1>6. ~Has(w)
    <2>1. Tiled(sector[SecOf(w)].kv) /\ FreeAt(sector[SecOf(w)].kv, OffOf(w))
        BY <1>3 DEF Ring, Filling
    <2>2. QED BY <1>1, <1>3, <1>4, <1>5, <2>1, WrittenTiled DEF Conditions, Has
<1>7. OneChanges(w, rec)
    BY <1>5, <1>6, KvWritten
<1>8. LiveAddr' = LiveAddr /\ \A a \in LiveAddr : KvAt(a)' = KvAt(a)
    BY <1>4, <1>6, <1>7, LiveHas DEF OneChanges, Live
<1>9. LiveInv'
    <2>1. Twins = {}
        BY <1>1 DEF Twins
    <2>2. QED BY <1>1, <1>8, <2>1, LiveUnchanged
<1>10. KvAt(ctx.new)' = rec /\ Has(ctx.new)'
    BY <1>1, <1>3, <1>7 DEF OneChanges, KvAt, Has
<1>11. SettingInv'
    <2>1. \A a \in LiveAddr' : KvAt(a)'.key = op'.key => a = ctx'.old
        BY <1>1, <1>8 DEF SettingInv
    <2>2. ctx'.old # FAILED_ADDR =>
            ctx'.old \in LiveAddr' /\ KvAt(ctx.old)'.key = op'.key
            /\ KvAt(ctx.old)'.status = "PRE_DELETE"
        <3>1. ctx.old # FAILED_ADDR =>
                 ctx.old \in LiveAddr /\ KvAt(ctx.old).key = op.key
                 /\ KvAt(ctx.old).status = "PRE_DELETE"
            BY <1>1 DEF SettingInv
        <3>2. ctx.old \in LiveAddr => KvAt(ctx.old)' = KvAt(ctx.old)
            <4>1. \A a \in LiveAddr : a = ctx.old => KvAt(ctx.old)' = KvAt(ctx.old)
                BY <1>1, <1>8 DEF KvAt
            <4>2. QED BY <4>1
        <3>3. QED BY <1>1, <1>8, <3>1, <3>2
    <2>3. RecordEnd(ctx.new, Len[op.val])' = empty_kv'
        BY <1>1 DEF RecordEnd
    <2>4. QED BY <1>1, <1>4, <1>10, <2>1, <2>2, <2>3 DEF SettingInv, Writing, Has
<1>12. MovingInv'
    BY <1>1 DEF MovingInv, Moving
<1>13. FreshlyWritten(ctx.new, rec)
    BY <1>1, <1>3, <1>5 DEF FreshlyWritten, Ring, Filling
<1>14. QED BY <1>8, <1>9, <1>11, <1>12, <1>13 DEF ContentsInv

LEMMA WriteDataContents ==
    ASSUME IInv, WriteData
    PROVE  /\ ContentsInv' /\ OneChanges(ctx.new, WithData(KvAt(ctx.new), op.key, op.val))
           /\ LiveAddr' = LiveAddr /\ \A a \in LiveAddr : KvAt(a)' = KvAt(a)
<1>1. /\ TypeInv /\ LiveInv /\ SettingInv /\ pc = "data" /\ pc' = "commit"
      /\ op.val \in Value /\ op.key \in Key /\ ctx.new \in Addr
      /\ cache' = cache /\ op' = op /\ ctx' = ctx /\ gc' = gc /\ empty_kv' = empty_kv
      /\ IsFlash(sector)
    BY DEF IInv, ContentsInv, WriteData, TypeInv, OpType, SetPc, Writing, volatile
<1>2. /\ Has(ctx.new) /\ KvAt(ctx.new).status = "PRE_WRITE" /\ KvAt(ctx.new).len = Len[op.val]
      /\ RecordEnd(ctx.new, Len[op.val]) = empty_kv /\ SecOf(ctx.new) \in Sector
    BY <1>1, AddrFacts DEF SettingInv, Writing, Has
<1>3. KvAt(ctx.new) \in KvRecord
    BY <1>1, <1>2, SectorFacts DEF KvAt, Has
<1> PICK w \in Addr : w = ctx.new
    BY <1>1
<1> PICK rec : rec = WithData(KvAt(w), op.key, op.val)
    OBVIOUS
<1>4. rec.status = "PRE_WRITE" /\ rec.len = Len[op.val] /\ rec.key = op.key /\ rec.val = op.val
    BY <1>2, <1>3 DEF WithData, KvRecord
<1>5. OneChanges(w, rec)
    <2>1. sector' = [sector EXCEPT ![SecOf(w)].kv[OffOf(w)] =
                       WithData(sector[SecOf(w)].kv[OffOf(w)], op.key, op.val)]
        BY <1>1, <1>2 DEF WriteData, WithData, IsFlash
    <2>2. IsPatched(sector', sector, SecOf(w), OffOf(w), rec)
        BY <1>1, <2>1, FilledFacts DEF KvAt
    <2>3. QED BY <1>2, <2>2, KvPatched
<1>6. w \notin LiveAddr
    BY <1>2, LiveHas DEF Live
<1>7. LiveAddr' = LiveAddr /\ \A a \in LiveAddr : KvAt(a)' = KvAt(a)
    BY <1>4, <1>5, <1>6, LiveHas DEF OneChanges, Live
<1>8. LiveInv'
    <2>1. Twins = {}
        BY <1>1 DEF Twins
    <2>2. QED BY <1>1, <1>7, <2>1, LiveUnchanged
<1>9. KvAt(ctx.new)' = rec /\ Has(ctx.new)'
    BY <1>1, <1>5 DEF OneChanges, KvAt, Has
<1>10. SettingInv'
    <2>1. \A a \in LiveAddr' : KvAt(a)'.key = op'.key => a = ctx'.old
        BY <1>1, <1>7 DEF SettingInv, Writing
    <2>2. ctx'.old # FAILED_ADDR =>
            ctx'.old \in LiveAddr' /\ KvAt(ctx.old)'.key = op'.key
            /\ KvAt(ctx.old)'.status = "PRE_DELETE"
        <3>1. ctx.old # FAILED_ADDR =>
                 ctx.old \in LiveAddr /\ KvAt(ctx.old).key = op.key
                 /\ KvAt(ctx.old).status = "PRE_DELETE"
            BY <1>1 DEF SettingInv, Writing
        <3>2. ctx.old \in LiveAddr => KvAt(ctx.old)' = KvAt(ctx.old)
            <4>1. \A a \in LiveAddr : a = ctx.old => KvAt(ctx.old)' = KvAt(ctx.old)
                BY <1>1, <1>7 DEF KvAt
            <4>2. QED BY <4>1
        <3>3. QED BY <1>1, <1>7, <3>1, <3>2
    <2>3. RecordEnd(ctx.new, Len[op.val])' = empty_kv'
        BY <1>1, <1>2 DEF RecordEnd
    <2>4. QED BY <1>1, <1>4, <1>9, <2>1, <2>2, <2>3 DEF SettingInv, Writing, Has
<1>11. MovingInv'
    BY <1>1 DEF MovingInv, Moving
<1>12. QED BY <1>5, <1>7, <1>8, <1>10, <1>11 DEF ContentsInv

(* The new record is valid beside the old one, until that is deleted.      *)
LEMMA NewFacts ==
    ASSUME IInv, pc \in {"commit", "delete_old"}
    PROVE  /\ ctx.new \in Addr /\ Has(ctx.new) /\ ctx.new # FAILED_ADDR
           /\ KvAt(ctx.new).key = op.key /\ KvAt(ctx.new).val = op.val
           /\ KvAt(ctx.new).status = IF pc = "commit" THEN "PRE_WRITE" ELSE "WRITE"
           /\ op.key \in Key /\ op.val \in Value
           /\ \A a \in LiveAddr :
                KvAt(a).key = op.key => a = ctx.old \/ (pc = "delete_old" /\ a = ctx.new)
           /\ ctx.old # FAILED_ADDR =>
                /\ ctx.old \in LiveAddr /\ ctx.old \in Addr /\ Has(ctx.old) /\ ctx.old # ctx.new
                /\ KvAt(ctx.old).key = op.key /\ KvAt(ctx.old).status = "PRE_DELETE"
           /\ pc = "delete_old" => ctx.old # FAILED_ADDR /\ ctx.new \in LiveAddr
           /\ pc = "commit" => ctx.new \notin LiveAddr
<1>1. /\ ctx.new \in Addr /\ op.key \in Key /\ op.val \in Value
      /\ pc = "delete_old" => ctx.old \in Addr
      /\ SettingInv
    BY DEF IInv, ContentsInv, TypeInv, OpType, SetPc, Writing
<1>2. /\ Has(ctx.new) /\ KvAt(ctx.new).key = op.key /\ KvAt(ctx.new).val = op.val
      /\ KvAt(ctx.new).status = IF pc = "commit" THEN "PRE_WRITE" ELSE "WRITE"
      /\ \A a \in LiveAddr :
           KvAt(a).key = op.key => a = ctx.old \/ (pc = "delete_old" /\ a = ctx.new)
      /\ ctx.old # FAILED_ADDR =>
           /\ ctx.old \in LiveAddr
           /\ KvAt(ctx.old).key = op.key /\ KvAt(ctx.old).status = "PRE_DELETE"
    BY <1>1 DEF SettingInv, Writing, Has
<1>3. ctx.old # FAILED_ADDR => ctx.old \in Addr /\ Has(ctx.old)
    BY <1>2, LiveHas
<1>4. ctx.old # FAILED_ADDR => ctx.old # ctx.new
    BY <1>2
<1>5. pc = "delete_old" => ctx.new \in LiveAddr
    BY <1>1, <1>2 DEF LiveAddr, LiveAt, Has, KvAt, Live
<1>6. pc = "commit" => ctx.new \notin LiveAddr
    BY <1>2, LiveHas DEF Live
<1>7. ctx.new # FAILED_ADDR /\ (pc = "delete_old" => ctx.old # FAILED_ADDR)
    BY <1>1, AddrFacts
<1>8. QED BY <1>1, <1>2, <1>3, <1>4, <1>5, <1>6, <1>7

LEMMA CommitContents ==
    ASSUME IInv, Commit
    PROVE  ContentsInv' /\ OneChanges(ctx.new, WithStatus(KvAt(ctx.new), "WRITE"))
<1>1. /\ TypeInv /\ LiveInv /\ pc = "commit" /\ Twins = {}
      /\ cache \in [Key -> Addr \cup {FAILED_ADDR}]
      /\ sector' = Marked(sector, ctx.new, "WRITE") /\ empty_kv' = empty_kv
    BY DEF IInv, ContentsInv, Commit, TypeInv, RamType, Twins
<1> PICK p : p = ctx.new
    OBVIOUS
<1> PICK old : old = ctx.old
    OBVIOUS
<1> PICK k : k = op.key
    OBVIOUS
<1>2. /\ p \in Addr /\ Has(p) /\ p \notin LiveAddr /\ k \in Key /\ op.val \in Value
      /\ KvAt(p).key = k /\ KvAt(p).val = op.val
      /\ \A a \in LiveAddr : KvAt(a).key = k => a = old
      /\ old # FAILED_ADDR => /\ old \in LiveAddr /\ old # p
                              /\ KvAt(old).key = k /\ KvAt(old).status = "PRE_DELETE"
    BY <1>1, NewFacts
<1> PICK rec : rec = WithStatus(KvAt(p), "WRITE")
    OBVIOUS
<1>3. /\ OneChanges(p, rec) /\ rec.status = "WRITE" /\ rec.len = KvAt(p).len
      /\ rec.key = k /\ rec.val = op.val
    BY <1>1, <1>2, MarkedChange DEF Status
<1>4. /\ \A a \in LiveAddr \ {p} : KvAt(a)' = KvAt(a)
      /\ LiveAddr' = LiveAddr \cup {p} /\ KvAt(p)' = rec /\ Has(p)'
    BY <1>3, LiveHas DEF OneChanges, Live
<1>5. \A a, b \in LiveAddr : KvAt(a).key = KvAt(b).key => a = b
    BY <1>1 DEF LiveInv
<1>6. \A j \in Key : cache[j] # FAILED_ADDR => cache[j] \in LiveAddr /\ KvAt(cache[j]).key = j
    BY <1>1 DEF LiveInv
<1>7. MovingInv'
    BY DEF Commit, Returns, MovingInv, Moving
<1>8. CASE old # FAILED_ADDR
    <2>1. pc' = "delete_old" /\ cache' = cache /\ op' = op /\ ctx' = ctx
        BY <1>8 DEF Commit
    <2>2. Twins' = {old, p}
        BY <2>1 DEF Twins
    <2>3. LiveInv'
        <3>1. \A b \in LiveAddr \ {p} : KvAt(b).key = rec.key => {p, b} \subseteq Twins'
            BY <1>2, <1>3, <2>2
        <3>2. \A j \in Key : cache'[j] # FAILED_ADDR =>
                \E a \in LiveAddr \ {p} : cache'[j] = a /\ KvAt(a).key = j
            BY <1>2, <1>6, <2>1
        <3>3. rec.key \in Key /\ rec.val \in Value
            BY <1>2, <1>3
        <3>4. QED BY <1>1, <1>2, <1>3, <1>5, <3>1, <3>2, <3>3, LiveChanged
    <2>4. KvAt(ctx.new)' = rec /\ KvAt(ctx.old)' = KvAt(old)
        <3>1. KvAt(ctx.old)' = KvAt(old)'
            BY <2>1 DEF KvAt
        <3>2. KvAt(ctx.new)' = KvAt(p)'
            BY <2>1 DEF KvAt
        <3>3. QED BY <1>2, <1>4, <1>8, <3>1, <3>2
    <2>5. Has(ctx.new)'
        BY <1>4, <2>1 DEF Has
    <2>6. \A a \in LiveAddr' : KvAt(a)'.key = op'.key => a = ctx'.old \/ a = ctx'.new
        BY <1>2, <1>4, <2>1
    <2>7. KvAt(p).len = Len[op.val] /\ RecordEnd(ctx.new, Len[op.val]) = empty_kv
        BY <1>1 DEF SettingInv, Writing, IInv, ContentsInv
    <2>8. KvAt(ctx.new)'.len = Len[op'.val] /\ RecordEnd(ctx.new, Len[op.val])' = empty_kv'
        BY <1>1, <1>3, <2>1, <2>4, <2>7 DEF RecordEnd
    <2>9. SettingInv'
        BY <1>2, <1>3, <1>4, <1>8, <2>1, <2>4, <2>5, <2>6, <2>8 DEF SettingInv, Writing, Has
    <2>10. QED BY <1>3, <1>7, <2>3, <2>9 DEF ContentsInv
<1>9. CASE old = FAILED_ADDR
    <2>1. pc' = "idle" /\ cache' = [cache EXCEPT ![k] = p]
        BY <1>9 DEF Commit, Returns, Cached
    <2>2. \A b \in LiveAddr \ {p} : KvAt(b).key # rec.key
        BY <1>2, <1>3, <1>9, LiveHas, AddrFacts
    <2>3. \A j \in Key : cache'[j] # FAILED_ADDR =>
            \/ cache'[j] = p /\ rec.key = j
            \/ \E a \in LiveAddr \ {p} : cache'[j] = a /\ KvAt(a).key = j
        BY <1>1, <1>2, <1>3, <1>6, <2>1
    <2>4. rec.key \in Key /\ rec.val \in Value
        BY <1>2, <1>3
    <2>5. LiveInv'
        BY <1>1, <1>2, <1>3, <1>5, <2>2, <2>3, <2>4, LiveChanged DEF Live
    <2>6. SettingInv'
        BY <2>1 DEF SettingInv, Writing
    <2>7. QED BY <1>3, <1>7, <2>5, <2>6 DEF ContentsInv
<1>10. QED BY <1>8, <1>9

LEMMA DeleteOldContents ==
    ASSUME IInv, DeleteOld
    PROVE  ContentsInv' /\ OneChanges(ctx.old, WithStatus(KvAt(ctx.old), "DELETED"))
<1>1. /\ TypeInv /\ LiveInv /\ pc = "delete_old" /\ pc' = "idle" /\ Twins = {ctx.old, ctx.new}
      /\ cache \in [Key -> Addr \cup {FAILED_ADDR}]
      /\ sector' = Marked(sector, ctx.old, "DELETED")
      /\ cache' = [cache EXCEPT ![op.key] = ctx.new]
    BY DEF IInv, ContentsInv, DeleteOld, TypeInv, RamType, Twins, Returns, Cached
<1> PICK p : p = ctx.old
    OBVIOUS
<1> PICK new : new = ctx.new
    OBVIOUS
<1> PICK k : k = op.key
    OBVIOUS
<1>2. /\ p \in Addr /\ Has(p) /\ p \in LiveAddr /\ p # new /\ new \in LiveAddr /\ k \in Key
      /\ KvAt(p).key = k /\ KvAt(new).key = k
      /\ \A a \in LiveAddr : KvAt(a).key = k => a = p \/ a = new
    BY <1>1, NewFacts
<1> PICK rec : rec = WithStatus(KvAt(p), "DELETED")
    OBVIOUS
<1>3. OneChanges(p, rec) /\ rec.status = "DELETED"
    BY <1>1, <1>2, MarkedChange DEF Status
<1>4. \A a, b \in LiveAddr \ {p} : KvAt(a).key = KvAt(b).key => a = b
    BY <1>1 DEF LiveInv
<1>5. \A j \in Key : cache'[j] # FAILED_ADDR =>
        \E a \in LiveAddr \ {p} : cache'[j] = a /\ KvAt(a).key = j
    <2>1. \A j \in Key : cache[j] # FAILED_ADDR => cache[j] \in LiveAddr /\ KvAt(cache[j]).key = j
        BY <1>1 DEF LiveInv
    <2>2. QED BY <1>1, <1>2, <2>1
<1>6. LiveInv'
    BY <1>1, <1>2, <1>3, <1>4, <1>5, LiveChanged DEF Live
<1>7. SettingInv' /\ MovingInv'
    BY <1>1 DEF SettingInv, MovingInv, Writing, Moving
<1>8. QED BY <1>3, <1>6, <1>7 DEF ContentsInv

(* The record that is moved.                                               *)
LEMMA MovedIs ==
    ASSUME TypeInv, gc.off \in DOMAIN From.kv
    PROVE  /\ Moved \in Addr /\ SecOf(Moved) = oldest_addr /\ OffOf(Moved) = gc.off
           /\ Has(Moved) /\ KvAt(Moved) = From.kv[gc.off]
           /\ LiveAt(oldest_addr, gc.off) <=> Moved \in LiveAddr
<1>1. Moved \in Addr /\ SecOf(Moved) = oldest_addr /\ OffOf(Moved) = gc.off
    BY MovedLen
<1>2. Has(Moved) /\ KvAt(Moved) = From.kv[gc.off]
    BY <1>1 DEF Has, KvAt, From
<1>3. QED BY <1>1, <1>2 DEF LiveAddr

LEMMA PreDeletedContents ==
    ASSUME TypeInv, LiveInv, pc \in {"gc_scan", "gc_pre_delete"}, pc' = "gc_header",
           gc' = gc, cache' = cache, oldest_addr' = oldest_addr, gc.off \in DOMAIN From.kv,
           LiveAt(oldest_addr, gc.off), sector' = Marked(sector, Moved, "PRE_DELETE")
    PROVE  /\ ContentsInv' /\ Moved \in LiveAddr /\ LiveAddr' = LiveAddr
           /\ OneChanges(Moved, WithStatus(KvAt(Moved), "PRE_DELETE"))
<1>1. Moved \in Addr /\ Has(Moved) /\ Moved \in LiveAddr
    BY MovedIs
<1> PICK p \in LiveAddr : p = Moved
    BY <1>1
<1> PICK rec : rec = WithStatus(KvAt(p), "PRE_DELETE")
    OBVIOUS
<1>2. /\ OneChanges(p, rec) /\ rec.status = "PRE_DELETE"
      /\ rec.key = KvAt(p).key /\ rec.val = KvAt(p).val
    BY <1>1, MarkedChange DEF Status
<1>3. LiveAddr' = LiveAddr
    BY <1>2 DEF OneChanges, Live
<1>4. \A a \in LiveAddr : KvAt(a)'.key = KvAt(a).key /\ KvAt(a)'.val = KvAt(a).val
    BY <1>2, LiveHas DEF OneChanges
<1>5. Twins = {}
    BY DEF Twins
<1>6. LiveInv'
    BY <1>3, <1>4, <1>5, LiveUnchanged
<1>7. From'.kv[gc.off].status = "PRE_DELETE"
    BY MovedFacts DEF Status
<1>8. SettingInv'
    BY DEF SettingInv, Writing
<1>9. MovingInv'
    BY <1>7 DEF MovingInv, Moving
<1>10. QED BY <1>1, <1>2, <1>3, <1>6, <1>8, <1>9 DEF ContentsInv

LEMMA GcPrepareContents ==
    ASSUME IInv, GcPrepare
    PROVE  /\ ContentsInv'
           /\ \/ \A t \in Sector : sector'[t].kv = sector[t].kv
              \/ /\ Moved \in LiveAddr /\ LiveAddr' = LiveAddr
                 /\ OneChanges(Moved, WithStatus(KvAt(Moved), "PRE_DELETE"))
<1>1. /\ TypeInv /\ LiveInv /\ ContentsInv /\ pc = "gc_scan" /\ gc' = gc /\ cache' = cache
      /\ oldest_addr' = oldest_addr /\ gc.off \in DOMAIN From.kv /\ LiveAt(oldest_addr, gc.off)
      /\ IsFlash(sector) /\ SecOf(gc.next) \in Sector
    BY AddrFacts DEF IInv, ContentsInv, GcPrepare, AtEnd, LiveAt, From, TypeInv, GcType, GcPc, volatile
<1>2. CASE pc' = "gc_next" /\ sector' = IF sector[SecOf(gc.next)].store = "USING"
                         THEN Stored(sector, SecOf(gc.next), "FULL") ELSE sector
    <2>1. \A t \in Sector : sector'[t].kv = sector[t].kv
        BY <1>1, <1>2, MarksKv DEF StoreMark
    <2>2. QED BY <1>1, <1>2, <2>1, QuietContents
<1>3. CASE pc' = "gc_header" /\ sector' = Marked(sector, Moved, "PRE_DELETE")
    BY <1>1, <1>3, PreDeletedContents
<1>4. QED BY <1>2, <1>3 DEF GcPrepare, PreDeleted

LEMMA GcPreDeleteContents ==
    ASSUME IInv, GcPreDelete
    PROVE  /\ ContentsInv' /\ Moved \in LiveAddr /\ LiveAddr' = LiveAddr
           /\ OneChanges(Moved, WithStatus(KvAt(Moved), "PRE_DELETE"))
<1>1. /\ TypeInv /\ LiveInv /\ pc = "gc_pre_delete" /\ pc' = "gc_header"
      /\ gc' = gc /\ cache' = cache /\ oldest_addr' = oldest_addr
      /\ sector' = Marked(sector, Moved, "PRE_DELETE")
    BY DEF IInv, ContentsInv, GcPreDelete, PreDeleted, volatile
<1>2. gc.off \in DOMAIN From.kv /\ LiveAt(oldest_addr, gc.off)
    BY <1>1 DEF TypeInv, GcType, IInv, LayoutInv, Collecting
<1>3. QED BY <1>1, <1>2, PreDeletedContents

(* What is known of the copy while a record is moved.                      *)
LEMMA CopyFacts ==
    ASSUME IInv, pc \in {"gc_header", "gc_commit", "gc_delete"}
    PROVE  /\ Moved \in Addr /\ Has(Moved) /\ Moved \in LiveAddr
           /\ KvAt(Moved) = From.kv[gc.off] /\ KvAt(Moved) \in KvRecord
           /\ KvAt(Moved).status = "PRE_DELETE"
           /\ KvAt(Moved).key \in Key /\ KvAt(Moved).val \in Value
           /\ \A a \in LiveAddr : KvAt(a).key = KvAt(Moved).key =>
                a = Moved \/ (pc = "gc_delete" /\ a = gc.next)
           /\ gc.next \in Addr
           /\ pc # "gc_header" =>
                /\ Has(gc.next) /\ gc.next # Moved
                /\ KvAt(gc.next).key = KvAt(Moved).key /\ KvAt(gc.next).val = KvAt(Moved).val
                /\ KvAt(gc.next).len = KvAt(Moved).len /\ KvAt(gc.next) \in KvRecord
                /\ KvAt(gc.next).status = IF pc = "gc_commit" THEN "PRE_WRITE" ELSE "WRITE"
           /\ pc = "gc_commit" => gc.next \notin LiveAddr
           /\ pc = "gc_delete" => gc.next \in LiveAddr
<1>1. TypeInv /\ LiveInv /\ MovingInv /\ Collecting /\ gc.next \in Addr /\ gc.off \in DOMAIN From.kv
    BY DEF IInv, ContentsInv, LayoutInv, TypeInv, GcType, GcPc, Moving
<1>2. /\ Moved \in Addr /\ Has(Moved) /\ Moved \in LiveAddr /\ KvAt(Moved) = From.kv[gc.off]
      /\ KvAt(Moved) \in KvRecord
    BY <1>1, MovedIs, MovedLen DEF Collecting
<1>3. KvAt(Moved).status = "PRE_DELETE"
    BY <1>1, <1>2 DEF MovingInv
<1>4. KvAt(Moved).key \in Key /\ KvAt(Moved).val \in Value
    BY <1>1, <1>2 DEF LiveInv
<1>5. \A a \in LiveAddr : KvAt(a).key = KvAt(Moved).key =>
                a = Moved \/ (pc = "gc_delete" /\ a = gc.next)
    BY <1>1, <1>2 DEF LiveInv, Twins
<1>6. ASSUME pc # "gc_header"
      PROVE  /\ Has(gc.next)
             /\ KvAt(gc.next) = [KvAt(Moved) EXCEPT
                            !.status = IF pc = "gc_commit" THEN "PRE_WRITE" ELSE "WRITE"]
    BY <1>1, <1>2, <1>6 DEF MovingInv, Moving, Has
<1>7. ASSUME pc # "gc_header"
      PROVE  /\ KvAt(gc.next).key = KvAt(Moved).key /\ KvAt(gc.next).val = KvAt(Moved).val
             /\ KvAt(gc.next).len = KvAt(Moved).len /\ KvAt(gc.next) \in KvRecord
             /\ KvAt(gc.next).status = IF pc = "gc_commit" THEN "PRE_WRITE" ELSE "WRITE"
    BY <1>2, <1>6, <1>7 DEF KvRecord, Status
<1>8. pc # "gc_header" => gc.next # Moved
    BY <1>3, <1>7
<1>9. pc = "gc_commit" => gc.next \notin LiveAddr
    BY <1>7, LiveHas DEF Live
<1>10. pc = "gc_delete" => gc.next \in LiveAddr
    BY <1>1, <1>6, <1>7 DEF LiveAddr, LiveAt, Has, KvAt, Live
<1>11. QED BY <1>1, <1>2, <1>3, <1>4, <1>5, <1>6, <1>7, <1>8, <1>9, <1>10

LEMMA GcWriteContents ==
    ASSUME IInv, Conditions, GcWrite
    PROVE  /\ ContentsInv' /\ LiveAddr' = LiveAddr /\ \A a \in LiveAddr : KvAt(a)' = KvAt(a)
           /\ \E rec : FreshlyWritten(gc.next, rec)
<1>1. /\ TypeInv /\ LiveInv /\ pc = "gc_header" /\ pc' = "gc_commit" /\ IsFlash(sector)
      /\ oldest_addr' = oldest_addr /\ cache' = cache /\ gc' = gc
      /\ Room(OffOf(gc.next), From.kv[gc.off].len)
    BY DEF IInv, ContentsInv, GcWrite, TypeInv, GcType, volatile
<1>2. PICK c \in 0..(SecNum - 1), w \in Addr : Layout(c, w)
    BY DEF IInv, LayoutInv
<1>3. w = gc.next /\ Ring(c, SecOf(w)) /\ Filling(c, w) /\ SecOf(w) \in Sector /\ OffOf(w) \in Nat
    BY <1>1, <1>2, AddrFacts DEF Layout, NextFree, Moving
<1>4. /\ Moved \in Addr /\ Has(Moved) /\ Moved \in LiveAddr /\ KvAt(Moved) = From.kv[gc.off]
      /\ KvAt(Moved) \in KvRecord /\ KvAt(Moved).status = "PRE_DELETE"
    BY <1>1, CopyFacts
<1> PICK rec : rec = [From.kv[gc.off] EXCEPT !.status = "PRE_WRITE"]
    OBVIOUS
<1>5. rec \in KvRecord /\ rec.len = From.kv[gc.off].len /\ rec.status = "PRE_WRITE"
    BY <1>4 DEF KvRecord, Status
<1>6. IsWritten(sector', sector, SecOf(w), OffOf(w), rec)
    BY <1>1, <1>3, <1>5, RecordedFacts DEF GcWrite
<1>7. ~Has(w)
    <2>1. Tiled(sector[SecOf(w)].kv) /\ FreeAt(sector[SecOf(w)].kv, OffOf(w))
        BY <1>3 DEF Ring, Filling
    <2>2. QED BY <1>1, <1>3, <1>5, <1>6, <2>1, WrittenTiled DEF Conditions, Has
<1>8. OneChanges(w, rec)
    BY <1>6, <1>7, KvWritten
<1>9. LiveAddr' = LiveAddr /\ \A a \in LiveAddr : KvAt(a)' = KvAt(a)
    BY <1>5, <1>7, <1>8, LiveHas DEF OneChanges, Live
<1>10. Twins = {}
    BY <1>1 DEF Twins
<1>11. LiveInv'
    BY <1>1, <1>9, <1>10, LiveUnchanged
<1>12. From'.kv[gc'.off] = From.kv[gc.off]
    <2>1. KvAt(Moved)' = KvAt(Moved)
        <3>1. Moved' = Moved
            BY <1>1 DEF Moved
        <3> PICK m \in LiveAddr : m = Moved
            BY <1>4
        <3>2. KvAt(m)' = KvAt(m)
            BY <1>9
        <3>3. KvAt(Moved)' = KvAt(m)'
            BY <3>1 DEF KvAt
        <3>4. QED BY <3>2, <3>3
    <2>2. KvAt(Moved)' = From'.kv[gc'.off]
        <3>1. SecOf(Moved) = oldest_addr /\ OffOf(Moved) = gc.off /\ Moved' = Moved
            BY <1>1, MovedIs DEF TypeInv, GcType, Moved
        <3>2. QED BY <1>1, <3>1 DEF KvAt, From
    <2>3. QED BY <1>4, <2>1, <2>2
<1>13. KvAt(gc.next)' = rec /\ Has(gc.next)'
    BY <1>1, <1>3, <1>8 DEF OneChanges, KvAt, Has
<1>14. MovingInv'
    BY <1>1, <1>4, <1>12, <1>13 DEF MovingInv, Moving, Has
<1>15. SettingInv'
    BY <1>1 DEF SettingInv, Writing
<1>16. FreshlyWritten(gc.next, rec)
    BY <1>1, <1>3, <1>6 DEF FreshlyWritten, Ring, Filling
<1>17. QED BY <1>9, <1>11, <1>14, <1>15, <1>16 DEF ContentsInv

LEMMA GcCommitContents ==
    ASSUME IInv, GcCommit
    PROVE  ContentsInv' /\ OneChanges(gc.next, WithStatus(KvAt(gc.next), "WRITE"))
<1>1. /\ TypeInv /\ LiveInv /\ pc = "gc_commit" /\ pc' = "gc_delete" /\ Twins = {}
      /\ oldest_addr' = oldest_addr /\ cache' = cache /\ gc' = gc
      /\ sector' = Marked(sector, gc.next, "WRITE")
    BY DEF IInv, ContentsInv, GcCommit, Twins, volatile
<1> PICK p : p = gc.next
    OBVIOUS
<1> PICK m : m = Moved
    OBVIOUS
<1>2. /\ m \in Addr /\ Has(m) /\ m \in LiveAddr /\ KvAt(m) = From.kv[gc.off]
      /\ KvAt(m) \in KvRecord /\ KvAt(m).status = "PRE_DELETE"
      /\ KvAt(m).key \in Key /\ KvAt(m).val \in Value
      /\ \A a \in LiveAddr : KvAt(a).key = KvAt(m).key => a = m
      /\ p \in Addr /\ Has(p) /\ p # m /\ p \notin LiveAddr
      /\ KvAt(p).key = KvAt(m).key /\ KvAt(p).val = KvAt(m).val
      /\ KvAt(p).len = KvAt(m).len
    BY <1>1, CopyFacts
<1> PICK rec : rec = WithStatus(KvAt(p), "WRITE")
    OBVIOUS
<1>3. /\ OneChanges(p, rec) /\ rec.status = "WRITE" /\ rec.len = KvAt(p).len
      /\ rec.key = KvAt(p).key /\ rec.val = KvAt(p).val /\ KvAt(p) \in KvRecord
    BY <1>1, <1>2, MarkedChange DEF Status
<1>4. KvAt(p)' = rec /\ Has(p)' /\ KvAt(m)' = KvAt(m)
    BY <1>2, <1>3 DEF OneChanges
<1>5. Moved' = m /\ Twins' = {m, p}
    BY <1>1 DEF Twins, Moved
<1>6. LiveInv'
    <2>1. \A a, b \in LiveAddr \ {p} : KvAt(a).key = KvAt(b).key => a = b
        BY <1>1 DEF LiveInv
    <2>2. \A b \in LiveAddr \ {p} : KvAt(b).key = rec.key => {p, b} \subseteq Twins'
        BY <1>2, <1>3, <1>5
    <2>3. \A j \in Key : cache'[j] # FAILED_ADDR =>
            \E a \in LiveAddr \ {p} : cache'[j] = a /\ KvAt(a).key = j
        BY <1>1, <1>2 DEF LiveInv
    <2>4. rec.key \in Key /\ rec.val \in Value
        BY <1>2, <1>3
    <2>5. QED BY <1>1, <1>2, <1>3, <2>1, <2>2, <2>3, <2>4, LiveChanged
<1>7. From'.kv[gc'.off] = KvAt(m)
    <2>1. KvAt(m)' = From'.kv[gc'.off]
        <3>1. SecOf(m) = oldest_addr /\ OffOf(m) = gc.off
            BY <1>1, MovedIs DEF TypeInv, GcType, Moving
        <3>2. QED BY <1>1, <3>1 DEF KvAt, From
    <2>2. QED BY <1>4, <2>1
<1>8. rec = [KvAt(m) EXCEPT !.status = "WRITE"]
    <2>1. rec \in KvRecord
        BY <1>3, WithStatusFacts DEF Status
    <2>2. QED BY <1>2, <1>3, <2>1 DEF KvRecord
<1>9. KvAt(gc.next)' = rec /\ Has(gc.next)'
    BY <1>1, <1>4 DEF KvAt, Has
<1>10. MovingInv'
    BY <1>1, <1>2, <1>7, <1>8, <1>9 DEF MovingInv, Moving, Has
<1>11. SettingInv'
    BY <1>1 DEF SettingInv, Writing
<1>12. QED BY <1>3, <1>6, <1>10, <1>11 DEF ContentsInv

LEMMA GcDeleteContents ==
    ASSUME IInv, GcDelete
    PROVE  ContentsInv' /\ OneChanges(Moved, WithStatus(KvAt(Moved), "DELETED"))
<1>1. /\ TypeInv /\ LiveInv /\ pc = "gc_delete" /\ pc' = "gc_dirty"
      /\ oldest_addr' = oldest_addr /\ gc' = gc
      /\ cache \in [Key -> Addr \cup {FAILED_ADDR}]
      /\ cache' = [cache EXCEPT ![From.kv[gc.off].key] = gc.next]
      /\ sector' = Marked(sector, Moved, "DELETED")
    BY DEF IInv, ContentsInv, GcDelete, TypeInv, RamType, Cached
<1> PICK p : p = gc.next
    OBVIOUS
<1> PICK m : m = Moved
    OBVIOUS
<1> PICK k : k = From.kv[gc.off].key
    OBVIOUS
<1>2. /\ m \in Addr /\ Has(m) /\ m \in LiveAddr /\ k \in Key /\ KvAt(m).key = k
      /\ \A a \in LiveAddr : KvAt(a).key = k => a = m \/ a = p
      /\ p \in Addr /\ Has(p) /\ p # m /\ p \in LiveAddr /\ KvAt(p).key = k
    BY <1>1, CopyFacts
<1> PICK rec : rec = WithStatus(KvAt(m), "DELETED")
    OBVIOUS
<1>3. OneChanges(m, rec) /\ rec.status = "DELETED"
    BY <1>1, <1>2, MarkedChange DEF Status
<1>4. LiveInv'
    <2>1. Twins = {m, p}
        BY <1>1 DEF Twins
    <2>2. \A a, b \in LiveAddr \ {m} : KvAt(a).key = KvAt(b).key => a = b
        BY <1>1, <2>1 DEF LiveInv
    <2>3. \A j \in Key : cache'[j] # FAILED_ADDR =>
            \E a \in LiveAddr \ {m} : cache'[j] = a /\ KvAt(a).key = j
        <3>1. \A j \in Key : cache[j] # FAILED_ADDR => cache[j] \in LiveAddr /\ KvAt(cache[j]).key = j
            BY <1>1 DEF LiveInv
        <3>2. QED BY <1>1, <1>2, <3>1
    <2>4. QED BY <1>1, <1>2, <1>3, <2>2, <2>3, LiveChanged DEF Live
<1>5. Has(gc.next)'
    BY <1>1, <1>2, <1>3 DEF OneChanges, Has
<1>6. MovingInv'
    BY <1>1, <1>5 DEF MovingInv, Moving, Has
<1>7. SettingInv'
    BY <1>1 DEF SettingInv, Writing
<1>8. QED BY <1>3, <1>4, <1>6, <1>7 DEF ContentsInv

(* No valid record is left where the sector is erased.                     *)
LEMMA GcEraseContents ==
    ASSUME IInv, GcErase
    PROVE  /\ ContentsInv' /\ LiveAddr' = LiveAddr
           /\ \A a \in LiveAddr : KvAt(a)' = KvAt(a)
           /\ \A t \in Sector : sector'[t].kv \in {<< >>, sector[t].kv}
<1>1. /\ TypeInv /\ LiveInv /\ Collecting /\ pc = "gc_scan" /\ pc' = "gc_format"
      /\ oldest_addr' = oldest_addr /\ cache' = cache /\ AtEnd
      /\ IsFlash(sector) /\ oldest_addr \in Sector /\ Twins = {}
      /\ sector' = [sector EXCEPT ![oldest_addr] = Erased]
    BY DEF IInv, ContentsInv, LayoutInv, GcErase, TypeInv, RamType, Twins, volatile
<1>2. PICK c \in 0..(SecNum - 1), w \in Addr : Layout(c, w)
    BY DEF IInv, LayoutInv
<1>3. Tiled(From.kv)
    BY <1>1, <1>2 DEF Layout, Ring, From
<1>4. \A o \in DOMAIN From.kv :
        /\ o \in Nat /\ From.kv[o].len \in Nat /\ From.kv[o].len > 2 /\ o > 0
        /\ o + From.kv[o].len + KV_HDR_DATA_SIZE <= sec_size
    BY <1>1, SectorFacts, Sizes DEF From, Room
<1>5. ASSUME NEW o \in DOMAIN From.kv, LiveAt(oldest_addr, o)
      PROVE  FALSE
    <2>1. o >= gc.off /\ Follow(From.kv, gc.off)
        BY <1>1, <1>5 DEF Collecting, GcPc
    <2>2. CASE gc.off \notin DOMAIN From.kv
        BY <1>3, <1>4, <2>1, <2>2, NoneBeyond
    <2>3. CASE gc.off \in DOMAIN From.kv
        <3>1. gc.off >= sec_size - KV_HDR_DATA_SIZE
            BY <1>1, <2>3 DEF AtEnd
        <3>2. gc.off + From.kv[gc.off].len + KV_HDR_DATA_SIZE <= sec_size
            BY <1>4, <2>3
        <3>3. QED BY <1>4, <2>3, <3>1, <3>2, Sizes DEF KV_HDR_DATA_SIZE
    <2>4. QED BY <2>2, <2>3
<1>6. \A t \in Sector : sector'[t] = IF t = oldest_addr THEN Erased ELSE sector[t]
    BY <1>1, ReplacedFacts, Formatted
<1>7. \A a \in Addr : SecOf(a) \in Sector
    BY AddrFacts
<1>8. \A a \in LiveAddr : SecOf(a) # oldest_addr
    BY <1>5 DEF LiveAddr, LiveAt, From
<1>9. \A a \in LiveAddr : KvAt(a)' = KvAt(a) /\ LiveAt(SecOf(a), OffOf(a))'
    <2>1. SUFFICES ASSUME NEW a \in LiveAddr
                   PROVE  KvAt(a)' = KvAt(a) /\ LiveAt(SecOf(a), OffOf(a))'
        OBVIOUS
    <2>2. sector'[SecOf(a)] = sector[SecOf(a)] /\ LiveAt(SecOf(a), OffOf(a))
        BY <1>6, <1>7, <1>8 DEF LiveAddr
    <2>3. QED BY <2>2 DEF KvAt, LiveAt
<1>10. LiveAddr' = LiveAddr
    <2>1. ASSUME NEW a \in Addr, LiveAt(SecOf(a), OffOf(a))'
          PROVE  LiveAt(SecOf(a), OffOf(a))
        <3>1. OffOf(a) \in DOMAIN sector'[SecOf(a)].kv
            BY <2>1 DEF LiveAt
        <3>2. SecOf(a) # oldest_addr
            BY <1>6, <1>7, <3>1 DEF Erased
        <3>3. sector'[SecOf(a)] = sector[SecOf(a)]
            BY <1>6, <1>7, <3>2
        <3>4. QED BY <2>1, <3>3 DEF LiveAt
    <2>2. QED BY <1>9, <2>1 DEF LiveAddr
<1>11. LiveInv'
    BY <1>1, <1>9, <1>10, LiveUnchanged
<1>12. From'.kv = << >>
    BY <1>1, <1>6 DEF From, Erased
<1>13. SettingInv' /\ MovingInv'
    BY <1>1, <1>12 DEF SettingInv, MovingInv, Writing, Moving
<1>14. \A t \in Sector : sector'[t].kv \in {<< >>, sector[t].kv}
    BY <1>6 DEF Erased
<1>15. QED BY <1>9, <1>10, <1>11, <1>13, <1>14 DEF ContentsInv

LEMMA GcFormatContents ==
    ASSUME IInv, GcFormat
    PROVE  ContentsInv' /\ \A t \in Sector : sector'[t].kv = sector[t].kv
<1>1. /\ TypeInv /\ ContentsInv /\ pc = "gc_format" /\ pc' \in {"alloc", "check"} /\ cache' = cache
      /\ IsFlash(sector) /\ oldest_addr \in Sector /\ From.kv = << >>
      /\ sector' = [sector EXCEPT ![oldest_addr] = Empty]
    BY DEF IInv, ContentsInv, MovingInv, GcFormat, TypeInv, RamType, OpType, GcPc
<1>2. \A t \in Sector : sector'[t] = IF t = oldest_addr THEN Empty ELSE sector[t]
    BY <1>1, ReplacedFacts, Formatted
<1>3. \A t \in Sector : sector'[t].kv = sector[t].kv
    BY <1>1, <1>2 DEF Empty, From
<1>4. ContentsInv'
    BY <1>1, <1>3, QuietContents
<1>5. QED BY <1>3, <1>4

LEMMA ContentsInit == Init => ContentsInv
<1> SUFFICES ASSUME Init PROVE ContentsInv
    OBVIOUS
<1>2. LiveAddr = {}
    BY AddrFacts DEF LiveAddr, LiveAt, Init, Empty
<1>3. LiveInv
    BY <1>2 DEF LiveInv, Init
<1>4. SettingInv /\ MovingInv
    BY DEF SettingInv, MovingInv, Writing, Moving, Init
<1>5. QED BY <1>3, <1>4 DEF ContentsInv

LEMMA ContentsStutter == ContentsInv /\ UNCHANGED vars => ContentsInv'
<1> SUFFICES ASSUME ContentsInv, UNCHANGED vars PROVE ContentsInv'
    OBVIOUS
<1>2. /\ sector' = sector /\ oldest_addr' = oldest_addr /\ empty_kv' = empty_kv /\ cache' = cache
      /\ pc' = pc /\ op' = op /\ ctx' = ctx /\ gc' = gc
    BY DEF vars, volatile
<1>3. LiveAddr' = LiveAddr
    BY <1>2 DEF LiveAddr, LiveAt
<1>4. LiveInv'
    BY <1>2, <1>3 DEF ContentsInv, LiveInv, Twins, Moved, KvAt
<1>5. SettingInv'
    BY <1>2, <1>3 DEF ContentsInv, SettingInv, KvAt, RecordEnd
<1>6. MovingInv'
    BY <1>2 DEF ContentsInv, MovingInv, KvAt, From
<1>7. QED BY <1>4, <1>5, <1>6 DEF ContentsInv

LEMMA ContentsStep == IInv /\ Conditions /\ [Next]_vars => ContentsInv'
<1> SUFFICES ASSUME IInv, Conditions, [Next]_vars PROVE ContentsInv'
    OBVIOUS
<1>1. CASE \E k \in Key, v \in Value \cup {None} : kv_set(k, v)
    BY <1>1, SetContents
<1>2. CASE \E k \in Key : kv_get(k)
    BY <1>2, GetContents
<1>3. CASE alloc_kv \/ alloc_kv_next \/ FindOld \/ WriteHeader \/ MarkDirty \/ WriteData
    BY <1>3, AllocContents, AllocNextContents, FindOldContents, WriteHeaderContents,
       MarkDirtyContents, WriteDataContents
<1>4. CASE WriteFails \/ Commit \/ DeleteOld
    BY <1>4, WriteFailsContents, CommitContents, DeleteOldContents
<1>5. CASE GcBegin \/ GcSkip \/ GcPrepare \/ GcNextSector \/ GcPreDelete \/ GcWrite
    BY <1>5, GcBeginContents, GcSkipContents, GcPrepareContents, GcNextSectorContents,
       GcPreDeleteContents, GcWriteContents
<1>6. CASE GcCommit \/ GcDelete \/ GcDirty \/ GcErase \/ GcFormat
    BY <1>6, GcCommitContents, GcDeleteContents, GcDirtyContents, GcEraseContents,
       GcFormatContents
<1>7. CASE Reset \/ flashdb_init \/ check_all_kv
    BY <1>7, ResetContents, StartContents, CheckContents
<1>8. CASE UNCHANGED vars
    BY <1>8, ContentsStutter DEF IInv
<1>9. QED BY <1>1, <1>2, <1>3, <1>4, <1>5, <1>6, <1>7, <1>8 DEF Next

(* The invariant of the store, where the conditions hold.                  *)
THEOREM Invariance == Conditions => (Spec => []IInv)
<1> SUFFICES ASSUME Conditions PROVE Spec => []IInv
    OBVIOUS
<1>1. Init => IInv
    BY TypeInit, LayoutInit, ContentsInit DEF IInv
<1>2. IInv /\ [Next]_vars => IInv'
    BY TypeStep, LayoutStep, ContentsStep DEF IInv
<1>3. QED BY <1>1, <1>2, PTL DEF Spec

(* The records follow each other in a ring of full, filling and empty      *)
(* sectors, and the collection never runs out of flash.                    *)
THEOREM RingInOrder == Conditions => (Spec => []LayoutInv)
<1>1. Conditions => (Spec => []IInv)
    BY Invariance
<1>2. IInv => LayoutInv
    BY DEF IInv
<1>3. QED BY <1>1, <1>2, PTL

(* A key has one valid record but while the older is being dropped, and    *)
(* the cache names it.                                                     *)
THEOREM OneRecordPerKey == Conditions => (Spec => []ContentsInv)
<1>1. Conditions => (Spec => []IInv)
    BY Invariance
<1>2. IInv => ContentsInv
    BY DEF IInv
<1>3. QED BY <1>1, <1>2, PTL

-----------------------------------------------------------------------------
(* The map.                                                                *)

LEMMA LiveRecordsAre ==
    ASSUME TypeInv
    PROVE  LiveRecords = {KvAt(a) : a \in LiveAddr}
<1>1. ASSUME NEW kv \in LiveRecords
      PROVE  \E a \in LiveAddr : kv = KvAt(a)
    <2>1. PICK s \in Sector : \E o \in DOMAIN sector[s].kv :
            kv = sector[s].kv[o] /\ kv.status \in Live
        BY <1>1 DEF LiveRecords
    <2>2. PICK o \in DOMAIN sector[s].kv : kv = sector[s].kv[o] /\ kv.status \in Live
        BY <2>1
    <2> PICK a : a = AddrOf(s, o)
        OBVIOUS
    <2>3. o \in 1..(sec_size - KV_HDR_DATA_SIZE)
        BY SectorFacts DEF TypeInv
    <2>4. a \in Addr /\ SecOf(a) = s /\ OffOf(a) = o
        BY <2>3, AddrOfFacts
    <2>5. QED BY <2>2, <2>4 DEF LiveAddr, LiveAt, KvAt
<1>2. ASSUME NEW a \in LiveAddr
      PROVE  KvAt(a) \in LiveRecords
    BY LiveFacts DEF LiveRecords, KvAt
<1>3. QED BY <1>1, <1>2

(* The flash holds v for k: a record that is replaced counts until then.   *)
Holds(k, v) ==
    \/ v = None /\ \A a \in LiveAddr : KvAt(a).key # k
    \/ \E a \in LiveAddr :
         /\ KvAt(a).key = k /\ KvAt(a).val = v
         /\ \A b \in LiveAddr : KvAt(b).key = k =>
              b = a \/ (KvAt(a).status = "PRE_DELETE" /\ KvAt(b).status = "WRITE")

LEMMA StoreHolds ==
    ASSUME TypeInv, NEW k \in Key, NEW v, Holds(k, v)
    PROVE  Store[k] = v
<1> DEFINE mine == {kv \in LiveRecords : kv.key = k}
           P(kv) == kv.status = "PRE_DELETE" \/ \A other \in mine : other.status = "WRITE"
<1>1. Store[k] = IF mine = {} THEN None ELSE (CHOOSE kv \in mine : P(kv)).val
    BY DEF Store
<1>2. \A kv \in mine : \E a \in LiveAddr : kv = KvAt(a) /\ KvAt(a).key = k
    BY LiveRecordsAre
<1>3. \A a \in LiveAddr : KvAt(a).key = k => KvAt(a) \in mine
    BY LiveRecordsAre
<1>4. CASE v = None /\ \A a \in LiveAddr : KvAt(a).key # k
    <2>1. mine = {}
        BY <1>2, <1>4
    <2>2. QED BY <1>1, <1>4, <2>1
<1>5. CASE \E a \in LiveAddr :
             /\ KvAt(a).key = k /\ KvAt(a).val = v
             /\ \A b \in LiveAddr : KvAt(b).key = k =>
                  b = a \/ (KvAt(a).status = "PRE_DELETE" /\ KvAt(b).status = "WRITE")
    <2>1. PICK a \in LiveAddr :
             /\ KvAt(a).key = k /\ KvAt(a).val = v
             /\ \A b \in LiveAddr : KvAt(b).key = k =>
                  b = a \/ (KvAt(a).status = "PRE_DELETE" /\ KvAt(b).status = "WRITE")
        BY <1>5
    <2> PICK kva : kva = KvAt(a)
        OBVIOUS
    <2>2. kva \in mine /\ kva.val = v /\ kva.status \in Live
        BY <1>3, <2>1, LiveHas
    <2>3. \A kv \in mine : kv = kva \/ (kva.status = "PRE_DELETE" /\ kv.status = "WRITE")
        BY <1>2, <2>1
    <2>4. P(kva)
        BY <2>2, <2>3 DEF Live
    <2>5. \A kv \in mine : P(kv) => kv = kva
        BY <2>2, <2>3
    <2> HIDE DEF P, mine
    <2>6. (CHOOSE kv \in mine : P(kv)) = kva
        BY <2>2, <2>4, <2>5
    <2>7. QED BY <1>1, <2>2, <2>6
<1>6. QED BY <1>4, <1>5 DEF Holds

LEMMA ReadsHere == IInv => ReadsTheMap
<1> SUFFICES ASSUME IInv, pc = "idle", NEW k \in Key
             PROVE  IF Find(k) = FAILED_ADDR THEN Store[k] = None
                    ELSE KvAt(Find(k)).val = Store[k] /\ Whole(KvAt(Find(k)))
    BY DEF ReadsTheMap
<1>1. TypeInv /\ LiveInv /\ Twins = {}
    BY DEF IInv, ContentsInv, Twins
<1>2. CASE Find(k) = FAILED_ADDR
    <2>1. \A a \in LiveAddr : KvAt(a).key # k
        BY <1>2, FindComplete
    <2>2. Holds(k, None)
        BY <2>1 DEF Holds
    <2>3. QED BY <1>1, <1>2, <2>2, StoreHolds
<1>3. CASE Find(k) # FAILED_ADDR
    <2> PICK a : a = Find(k)
        OBVIOUS
    <2>1. a \in LiveAddr /\ KvAt(a).key = k
        BY <1>1, <1>3, FindSound
    <2>2. \A b \in LiveAddr : KvAt(b).key = k => b = a
        BY <1>1, <2>1 DEF LiveInv
    <2>3. Holds(k, KvAt(a).val)
        BY <2>1, <2>2 DEF Holds
    <2>4. Store[k] = KvAt(a).val
        BY <1>1, <2>3, StoreHolds
    <2>5. Whole(KvAt(a))
        BY <2>1, KvAssumption DEF Whole
    <2>6. QED BY <1>3, <2>4, <2>5
<1>4. QED BY <1>2, <1>3

(* kv_get returns what the map has.                                        *)
THEOREM GetReadsTheMap == Conditions => (Spec => []ReadsTheMap)
<1>1. Conditions => (Spec => []IInv)
    BY Invariance
<1>2. IInv => ReadsTheMap
    BY ReadsHere
<1>3. QED BY <1>1, <1>2, PTL

-----------------------------------------------------------------------------
(* Nothing is programmed twice.                                            *)

Programmed(s) ==
    \/ sector'[s].kv \in {<< >>, sector[s].kv}
    \/ /\ sector'[s].store \in {"USING", "FULL"}
       /\ \A o \in DOMAIN sector'[s].kv : \A p \in DOMAIN sector[s].kv :
            \/ /\ o = p
               /\ \/ sector'[s].kv[o].status = "DELETED"
                  \/ ~Whole(sector[s].kv[p])
                  \/ /\ sector'[s].kv[o].val = sector[s].kv[p].val
                     /\ sector'[s].kv[o].key = sector[s].kv[p].key
            \/ o < p \/ o >= p + sector[s].kv[p].len

LEMMA QuietProgrammed ==
    ASSUME \A t \in Sector : sector'[t].kv \in {<< >>, sector[t].kv}
    PROVE  \A t \in Sector : Programmed(t)
BY DEF Programmed

(* Where there is a record, the sector is marked as used.                  *)
LEMMA UsedFacts ==
    ASSUME IInv, NEW s \in Sector, DOMAIN sector[s].kv # {}
    PROVE  /\ sector[s].store \in {"USING", "FULL"} /\ Tiled(sector[s].kv)
           /\ \A o \in DOMAIN sector[s].kv : o \in Nat /\ sector[s].kv[o].len \in Nat
<1>1. PICK c \in 0..(SecNum - 1), w \in Addr : Layout(c, w)
    BY DEF IInv, LayoutInv
<1>2. /\ Ring(c, SecOf(w)) /\ Filling(c, w) /\ c \in Nat /\ IsFlash(sector)
      /\ oldest_addr \in Sector
    BY <1>1 DEF Layout, IInv, TypeInv, RamType
<1>3. Dist(oldest_addr, s) \in 0..(SecNum - 1)
    BY <1>2, DistFacts
<1>4. sector[s] # Empty /\ sector[s] # Erased
    BY DEF Empty, Erased
<1>5. ASSUME Dist(oldest_addr, s) < c PROVE sector[s].store \in {"USING", "FULL"}
    BY <1>2, <1>4, <1>5 DEF Ring
<1>6. ASSUME Dist(oldest_addr, s) = c PROVE sector[s].store \in {"USING", "FULL"}
    <2>1. s = SecOf(w)
        BY <1>2, <1>6 DEF Ring
    <2>2. QED BY <1>2, <1>4, <2>1 DEF Filling, Ring
<1>7. ASSUME Dist(oldest_addr, s) > c PROVE sector[s].store \in {"USING", "FULL"}
    BY <1>2, <1>4, <1>7 DEF Ring
<1>8. sector[s].store \in {"USING", "FULL"} /\ Tiled(sector[s].kv)
    <2>1. sector[s].store \in {"USING", "FULL"}
        BY <1>2, <1>3, <1>5, <1>6, <1>7, Sizes
    <2>2. QED BY <1>2, <2>1 DEF Ring
<1>9. QED BY <1>2, <1>8, SectorFacts

LEMMA PatchProgrammed ==
    ASSUME IInv, NEW a \in Addr, Has(a), NEW rec,
           IsPatched(sector', sector, SecOf(a), OffOf(a), rec),
           \/ rec.status = "DELETED" \/ KvAt(a).key = None
           \/ rec.key = KvAt(a).key /\ rec.val = KvAt(a).val
    PROVE  \A t \in Sector : Programmed(t)
<1>1. ASSUME NEW t \in Sector, t = SecOf(a)
      PROVE  Programmed(t)
    <2>1. /\ sector[t].store \in {"USING", "FULL"} /\ Tiled(sector[t].kv)
          /\ \A o \in DOMAIN sector[t].kv : o \in Nat /\ sector[t].kv[o].len \in Nat
        BY <1>1, UsedFacts DEF Has
    <2>2. /\ sector'[t].store = sector[t].store /\ DOMAIN sector'[t].kv = DOMAIN sector[t].kv
          /\ \A o \in DOMAIN sector[t].kv :
               sector'[t].kv[o] = IF o = OffOf(a) THEN rec ELSE sector[t].kv[o]
        BY <1>1 DEF IsPatched
    <2>3. \A o, p \in DOMAIN sector[t].kv : o = p \/ o < p \/ o >= p + sector[t].kv[p].len
        BY <2>1 DEF Tiled
    <2>4. ASSUME NEW o \in DOMAIN sector[t].kv
          PROVE  \/ sector'[t].kv[o].status = "DELETED" \/ ~Whole(sector[t].kv[o])
                 \/ /\ sector'[t].kv[o].val = sector[t].kv[o].val
                    /\ sector'[t].kv[o].key = sector[t].kv[o].key
        BY <1>1, <2>2 DEF Whole, KvAt
    <2>5. QED BY <2>1, <2>2, <2>3, <2>4 DEF Programmed
<1>2. ASSUME NEW t \in Sector, t # SecOf(a)
      PROVE  Programmed(t)
    BY <1>2 DEF IsPatched, Programmed
<1>3. QED BY <1>1, <1>2

LEMMA MarkProgrammed ==
    ASSUME IInv, NEW a \in Addr, Has(a), NEW status \in Status, sector' = Marked(sector, a, status)
    PROVE  \A t \in Sector : Programmed(t)
<1>1. TypeInv /\ IsFlash(sector)
    BY DEF IInv, TypeInv
<1> PICK rec : rec = WithStatus(KvAt(a), status)
    OBVIOUS
<1>2. IsPatched(sector', sector, SecOf(a), OffOf(a), rec)
    BY <1>1, MarkedFacts DEF IsMarked, KvAt
<1>3. rec.status = "DELETED" \/ (rec.key = KvAt(a).key /\ rec.val = KvAt(a).val)
    BY <1>1, MarkedChange
<1>4. QED BY <1>2, <1>3, PatchProgrammed

LEMMA WriteProgrammed ==
    ASSUME TypeInv, NEW a \in Addr, NEW rec, IsWritten(sector', sector, SecOf(a), OffOf(a), rec),
           FreeAt(sector[SecOf(a)].kv, OffOf(a)), Tiled(sector[SecOf(a)].kv),
           sector[SecOf(a)].store \in {"USING", "FULL"}
    PROVE  \A t \in Sector : Programmed(t)
<1>1. ASSUME NEW t \in Sector, t = SecOf(a)
      PROVE  Programmed(t)
    <2>1. \A o \in DOMAIN sector[t].kv :
            /\ o \in Nat /\ sector[t].kv[o].len \in Nat
            /\ o + sector[t].kv[o].len <= OffOf(a)
        BY <1>1, SectorFacts DEF TypeInv, FreeAt
    <2>2. /\ sector'[t].store = sector[t].store
          /\ DOMAIN sector'[t].kv = DOMAIN sector[t].kv \cup {OffOf(a)}
          /\ \A o \in DOMAIN sector[t].kv : o # OffOf(a) => sector'[t].kv[o] = sector[t].kv[o]
        BY <1>1 DEF IsWritten
    <2>3. OffOf(a) \in Nat
        BY AddrFacts
    <2>4. ASSUME NEW o \in DOMAIN sector'[t].kv, NEW p \in DOMAIN sector[t].kv
          PROVE  \/ o = p /\ sector'[t].kv[o] = sector[t].kv[o]
                 \/ o < p \/ o >= p + sector[t].kv[p].len
        <3>1. CASE o = OffOf(a)
            BY <2>1, <2>3, <3>1
        <3>2. CASE o # OffOf(a)
            <4>1. o \in DOMAIN sector[t].kv /\ sector'[t].kv[o] = sector[t].kv[o]
                BY <2>2, <3>2
            <4>2. p < o => p + sector[t].kv[p].len <= o
                BY <1>1, <4>1 DEF Tiled
            <4>3. QED BY <2>1, <4>1, <4>2
        <3>3. QED BY <3>1, <3>2
    <2>5. QED BY <1>1, <2>2, <2>4 DEF Programmed
<1>2. ASSUME NEW t \in Sector, t # SecOf(a)
      PROVE  Programmed(t)
    BY <1>2 DEF IsWritten, Programmed
<1>3. QED BY <1>1, <1>2

(* What FindOld does with the record it finds.                             *)
LEMMA FindOldCases ==
    ASSUME IInv, FindOld, NEW old, old = Find(op.key)
    PROVE  /\ op.key \in Key /\ op.val \in Value \cup {None} /\ TypeInv /\ LiveInv /\ Twins = {}
           /\ old = FAILED_ADDR => \A a \in LiveAddr : KvAt(a).key # op.key
           /\ old # FAILED_ADDR =>
                old \in Addr /\ Has(old) /\ old \in LiveAddr /\ KvAt(old).key = op.key
           /\ \/ /\ sector' = sector
                 /\ op.val = None => old = FAILED_ADDR
              \/ /\ op.val = None /\ old # FAILED_ADDR
                 /\ sector' = Marked(sector, old, "DELETED")
              \/ /\ op.val # None /\ old # FAILED_ADDR
                 /\ sector' = Marked(sector, old, "PRE_DELETE")
<1>1. /\ TypeInv /\ LiveInv /\ pc = "find" /\ op.key \in Key /\ op.val \in Value \cup {None}
      /\ Twins = {}
    BY DEF IInv, ContentsInv, FindOld, TypeInv, OpType, SetPc, Twins
<1>2. old # FAILED_ADDR => old \in LiveAddr /\ KvAt(old).key = op.key
    BY <1>1, FindSound
<1>3. old # FAILED_ADDR => old \in Addr /\ Has(old)
    BY <1>2, LiveHas
<1>4. old = FAILED_ADDR => \A a \in LiveAddr : KvAt(a).key # op.key
    BY <1>1, FindComplete
<1>5. \/ /\ sector' = sector
         /\ op.val = None => old = FAILED_ADDR
      \/ /\ op.val = None /\ old # FAILED_ADDR
         /\ sector' = Marked(sector, old, "DELETED")
      \/ /\ op.val # None /\ old # FAILED_ADDR
         /\ sector' = Marked(sector, old, "PRE_DELETE")
    BY DEF FindOld, PreDeleted
<1>6. QED BY <1>1, <1>2, <1>3, <1>4, <1>5

LEMMA StepProgrammed ==
    ASSUME IInv, Conditions, Next
    PROVE  \A t \in Sector : Programmed(t)
<1> DEFINE Same == \A t \in Sector : sector'[t].kv = sector[t].kv
<1>0. Same => \A t \in Sector : Programmed(t)
    BY DEF Programmed
<1>1. CASE \E k \in Key, v \in Value \cup {None} : kv_set(k, v)
    BY <1>0, <1>1, SetContents
<1>2. CASE \E k \in Key : kv_get(k)
    BY <1>0, <1>2, GetContents
<1>3. CASE alloc_kv \/ alloc_kv_next \/ MarkDirty \/ WriteFails
    BY <1>0, <1>3, AllocContents, AllocNextContents, MarkDirtyContents, WriteFailsContents
<1>4. CASE FindOld
    <2>1. CASE sector' = sector
        BY <1>0, <2>1
    <2>2. CASE sector' # sector
        BY <1>4, <2>2, FindOldCases, MarkProgrammed DEF Status
    <2>3. QED BY <2>1, <2>2
<1>5. CASE WriteHeader
    <2>1. TypeInv /\ ctx.new \in Addr
        BY <1>5 DEF IInv, TypeInv, OpType, WriteHeader
    <2>2. PICK rec : FreshlyWritten(ctx.new, rec)
        BY <1>5, WriteHeaderContents
    <2>3. QED BY <2>1, <2>2, WriteProgrammed DEF FreshlyWritten
<1>6. CASE WriteData
    <2>1. /\ TypeInv /\ IsFlash(sector) /\ ctx.new \in Addr /\ op.key \in Key /\ op.val \in Value
          /\ Has(ctx.new) /\ KvAt(ctx.new).key = None
        BY <1>6 DEF IInv, TypeInv, OpType, WriteData, SetPc, Writing, ContentsInv, SettingInv, Has
    <2>2. sector' = [sector EXCEPT ![SecOf(ctx.new)].kv[OffOf(ctx.new)] =
                      WithData(sector[SecOf(ctx.new)].kv[OffOf(ctx.new)], op.key, op.val)]
        BY <1>6, <2>1 DEF WriteData, WithData, IsFlash
    <2>3. IsPatched(sector', sector, SecOf(ctx.new), OffOf(ctx.new),
                    WithData(sector[SecOf(ctx.new)].kv[OffOf(ctx.new)], op.key, op.val))
        BY <2>1, <2>2, FilledFacts
    <2>4. QED BY <2>1, <2>3, PatchProgrammed
<1>7. CASE Commit
    <2>1. ctx.new \in Addr /\ Has(ctx.new) /\ sector' = Marked(sector, ctx.new, "WRITE")
        BY <1>7, NewFacts DEF Commit
    <2>2. QED BY <2>1, MarkProgrammed DEF Status
<1>8. CASE DeleteOld
    <2>1. ctx.old \in Addr /\ Has(ctx.old) /\ sector' = Marked(sector, ctx.old, "DELETED")
        BY <1>8, NewFacts DEF DeleteOld
    <2>2. QED BY <2>1, MarkProgrammed DEF Status
<1>9. CASE GcBegin \/ GcSkip \/ GcNextSector \/ GcDirty
    BY <1>0, <1>9, GcBeginContents, GcSkipContents, GcNextSectorContents, GcDirtyContents
<1>10. CASE GcPrepare \/ GcPreDelete
    <2>1. \/ Same
          \/ sector' = Marked(sector, Moved, "PRE_DELETE") /\ Moved \in LiveAddr
        <3>1. CASE GcPreDelete
            BY <3>1, GcPreDeleteContents DEF GcPreDelete, PreDeleted
        <3>2. CASE GcPrepare
            <4>1. \/ sector' = Marked(sector, Moved, "PRE_DELETE")
                  \/ sector' = sector
                  \/ sector' = Stored(sector, SecOf(gc.next), "FULL")
                BY <3>2 DEF GcPrepare, PreDeleted
            <4>2. IsFlash(sector) /\ SecOf(gc.next) \in Sector
                BY <3>2, AddrFacts DEF IInv, TypeInv, GcType, GcPc, GcPrepare
            <4>3. sector' = Marked(sector, Moved, "PRE_DELETE") => Moved \in LiveAddr
                BY <3>2, MovedIs DEF IInv, GcPrepare, AtEnd, LiveAt, From
            <4>4. QED BY <4>1, <4>2, <4>3, MarksKv DEF StoreMark
        <3>3. QED BY <1>10, <3>1, <3>2
    <2>2. QED BY <1>0, <2>1, LiveHas, MarkProgrammed DEF Status
<1>11. CASE GcWrite
    <2>1. TypeInv /\ gc.next \in Addr
        BY <1>11 DEF IInv, TypeInv, GcType, GcPc, GcWrite
    <2>2. PICK rec : FreshlyWritten(gc.next, rec)
        BY <1>11, GcWriteContents
    <2>3. QED BY <2>1, <2>2, WriteProgrammed DEF FreshlyWritten
<1>12. CASE GcCommit
    <2>1. gc.next \in Addr /\ Has(gc.next) /\ sector' = Marked(sector, gc.next, "WRITE")
        BY <1>12, CopyFacts DEF GcCommit
    <2>2. QED BY <2>1, MarkProgrammed DEF Status
<1>13. CASE GcDelete
    <2>1. Moved \in Addr /\ Has(Moved) /\ sector' = Marked(sector, Moved, "DELETED")
        BY <1>13, CopyFacts DEF GcDelete
    <2>2. QED BY <2>1, MarkProgrammed DEF Status
<1>14. CASE GcErase \/ GcFormat
    BY <1>0, <1>14, GcEraseContents, GcFormatContents, QuietProgrammed
<1>15. CASE Reset \/ flashdb_init
    BY <1>0, <1>15, ResetContents, StartContents
<1>16. CASE check_all_kv
    <2>1. CASE sector' = sector
        BY <1>0, <2>1
    <2>2. CASE \E a \in Addr : Has(a) /\ sector' = Marked(sector, a, "DELETED")
        BY <2>2, MarkProgrammed DEF Status
    <2>3. QED BY <1>16, <2>1, <2>2, CheckContents
<1>17. QED BY <1>1, <1>2, <1>3, <1>4, <1>5, <1>6, <1>7, <1>8, <1>9, <1>10, <1>11, <1>12,
             <1>13, <1>14, <1>15, <1>16 DEF Next

(* A record is written only where the flash is erased.                     *)
THEOREM NothingTwice == Conditions => (Spec => ProgramsErased)
<1> SUFFICES ASSUME Conditions PROVE Spec => ProgramsErased
    OBVIOUS
<1>1. Spec => []IInv
    BY Invariance
<1>2. IInv /\ [Next]_vars =>
        [\A s \in Sector :
         \/ sector'[s].kv \in {<< >>, sector[s].kv}
         \/ /\ sector'[s].store \in {"USING", "FULL"}
            /\ \A o \in DOMAIN sector'[s].kv : \A p \in DOMAIN sector[s].kv :
                 \/ /\ o = p
                    /\ \/ sector'[s].kv[o].status = "DELETED"
                       \/ ~Whole(sector[s].kv[p])
                       \/ /\ sector'[s].kv[o].val = sector[s].kv[p].val
                          /\ sector'[s].kv[o].key = sector[s].kv[p].key
                 \/ o < p \/ o >= p + sector[s].kv[p].len]_vars
    BY StepProgrammed DEF Programmed
<1>3. QED BY <1>1, <1>2, PTL DEF Spec, ProgramsErased

-----------------------------------------------------------------------------
(* The store is a map.                                                     *)

StoreOK == \A k \in Key, v \in Value \cup {None} : Holds(k, v) => Store[k] = v

LEMMA StoreIsHeld == IInv => StoreOK
BY StoreHolds DEF IInv, StoreOK

LEMMA HoldsOne ==
    ASSUME IInv, NEW k \in Key
    PROVE  \E v \in Value \cup {None} : Holds(k, v)
<1>1. TypeInv /\ LiveInv
    BY DEF IInv, ContentsInv
<1>2. CASE \A a \in LiveAddr : KvAt(a).key # k
    BY <1>2 DEF Holds
<1>3. CASE \E a \in LiveAddr : KvAt(a).key = k
    <2>1. PICK a \in LiveAddr : KvAt(a).key = k
        BY <1>3
    <2>2. ASSUME NEW m \in LiveAddr, KvAt(m).key = k,
                 \A b \in LiveAddr : KvAt(b).key = k =>
                   b = m \/ (KvAt(m).status = "PRE_DELETE" /\ KvAt(b).status = "WRITE")
          PROVE  \E v \in Value \cup {None} : Holds(k, v)
        <3>1. KvAt(m).val \in Value
            BY <1>1 DEF LiveInv
        <3>2. Holds(k, KvAt(m).val)
            BY <2>2 DEF Holds
        <3>3. QED BY <3>1, <3>2
    <2>3. CASE pc = "delete_old" /\ k = op.key
        <3>1. /\ ctx.old \in LiveAddr /\ KvAt(ctx.old).key = k
              /\ KvAt(ctx.old).status = "PRE_DELETE" /\ KvAt(ctx.new).status = "WRITE"
              /\ \A b \in LiveAddr : KvAt(b).key = k => b = ctx.old \/ b = ctx.new
            BY <2>3, NewFacts
        <3>2. QED BY <2>2, <3>1
    <2>4. CASE pc = "gc_delete" /\ k = KvAt(Moved).key
        <3>1. /\ Moved \in LiveAddr /\ KvAt(Moved).key = k
              /\ KvAt(Moved).status = "PRE_DELETE" /\ KvAt(gc.next).status = "WRITE"
              /\ \A b \in LiveAddr : KvAt(b).key = k => b = Moved \/ b = gc.next
            BY <2>4, CopyFacts
        <3>2. QED BY <2>2, <3>1
    <2>5. CASE /\ ~(pc = "delete_old" /\ k = op.key)
               /\ ~(pc = "gc_delete" /\ k = KvAt(Moved).key)
        <3>1. pc = "delete_old" => KvAt(ctx.old).key = op.key /\ KvAt(ctx.new).key = op.key
            BY NewFacts
        <3>2. pc = "gc_delete" => KvAt(gc.next).key = KvAt(Moved).key
            BY CopyFacts
        <3>3. a \notin Twins
            BY <2>1, <2>5, <3>1, <3>2 DEF Twins
        <3>4. \A b \in LiveAddr : KvAt(b).key = k => b = a
            BY <1>1, <2>1, <3>3 DEF LiveInv
        <3>5. QED BY <2>1, <2>2, <3>4
    <2>6. QED BY <2>3, <2>4, <2>5
<1>4. QED BY <1>2, <1>3

LEMMA StoreSame ==
    ASSUME IInv, StoreOK, StoreOK',
           \A k \in Key, v \in Value \cup {None} : Holds(k, v) => Holds(k, v)'
    PROVE  Store' = Store
<1>1. \A k \in Key : Store'[k] = Store[k]
    BY HoldsOne DEF StoreOK
<1>2. Store = [k \in Key |-> Store[k]] /\ Store' = [k \in Key |-> Store'[k]]
    BY DEF Store
<1>3. QED BY <1>1, <1>2

LEMMA StoreApplied ==
    ASSUME IInv, StoreOK, StoreOK', NEW k \in Key, NEW v \in Value \cup {None}, Holds(k, v)',
           \A j \in Key, u \in Value \cup {None} : j # k /\ Holds(j, u) => Holds(j, u)'
    PROVE  Store' = [Store EXCEPT ![k] = v]
<1>1. \A j \in Key : j # k => Store'[j] = Store[j]
    BY HoldsOne DEF StoreOK
<1>2. Store'[k] = v
    BY DEF StoreOK
<1>3. Store = [j \in Key |-> Store[j]] /\ Store' = [j \in Key |-> Store'[j]]
    BY DEF Store
<1> PICK f : f = Store
    OBVIOUS
<1> PICK g : g = Store'
    OBVIOUS
<1>4. g = [f EXCEPT ![k] = v]
    <2>1. f = [j \in Key |-> f[j]] /\ g = [j \in Key |-> g[j]]
        BY <1>3
    <2>2. (\A j \in Key : j # k => g[j] = f[j]) /\ g[k] = v
        BY <1>1, <1>2
    <2>3. QED BY <2>1, <2>2
<1>5. QED BY <1>4

(* How the steps change what is held.                                      *)
LEMMA HoldsSame ==
    ASSUME LiveAddr' = LiveAddr, \A a \in LiveAddr : KvAt(a)' = KvAt(a)
    PROVE  \A k, v : Holds(k, v) => Holds(k, v)'
BY DEF Holds

LEMMA HoldsMarked ==
    ASSUME LiveAddr' = LiveAddr,
           \A a \in LiveAddr : KvAt(a)'.key = KvAt(a).key /\ KvAt(a)'.val = KvAt(a).val,
           \A a, b \in LiveAddr : KvAt(a).key = KvAt(b).key => a = b
    PROVE  \A k, v : Holds(k, v) => Holds(k, v)'
<1>1. ASSUME NEW k, NEW v, Holds(k, v) PROVE Holds(k, v)'
    <2>1. CASE v = None /\ \A a \in LiveAddr : KvAt(a).key # k
        BY <2>1 DEF Holds
    <2>2. CASE \E a \in LiveAddr : KvAt(a).key = k /\ KvAt(a).val = v
        <3>1. PICK a \in LiveAddr : KvAt(a).key = k /\ KvAt(a).val = v
            BY <2>2
        <3>2. a \in LiveAddr' /\ KvAt(a)'.key = k /\ KvAt(a)'.val = v
            BY <3>1
        <3>3. \A b \in LiveAddr' : KvAt(b)'.key = k => b = a
            BY <3>1
        <3>4. QED BY <3>2, <3>3 DEF Holds
    <2>3. QED BY <1>1, <2>1, <2>2 DEF Holds
<1>2. QED BY <1>1

LEMMA HoldsOther ==
    ASSUME NEW p \in Addr, NEW rec, OneChanges(p, rec), NEW k,
           p \in LiveAddr => KvAt(p).key # k, rec.status \in Live => rec.key # k
    PROVE  \A v : Holds(k, v) => Holds(k, v)'
<1>1. /\ \A a \in LiveAddr : KvAt(a).key = k => a \in LiveAddr' /\ KvAt(a)' = KvAt(a)
      /\ \A a \in LiveAddr' : KvAt(a)'.key = k =>
           a \in LiveAddr /\ KvAt(a)' = KvAt(a)
    BY LiveHas DEF OneChanges
<1>2. QED BY <1>1 DEF Holds

(* A valid copy beside the record it replaces.                             *)
LEMMA HoldsCopy ==
    ASSUME NEW p \in Addr, NEW rec, OneChanges(p, rec), p \notin LiveAddr, rec.status = "WRITE",
           NEW m \in LiveAddr, KvAt(m).status = "PRE_DELETE", KvAt(m).key = rec.key,
           \A a \in LiveAddr : KvAt(a).key = rec.key => a = m
    PROVE  \A k, v : Holds(k, v) => Holds(k, v)'
<1>1. /\ LiveAddr' = LiveAddr \cup {p} /\ KvAt(p)' = rec
      /\ \A a \in LiveAddr : KvAt(a)' = KvAt(a)
    BY LiveHas DEF OneChanges, Live
<1>2. ASSUME NEW v, Holds(rec.key, v) PROVE Holds(rec.key, v)'
    <2>1. KvAt(m).val = v
        BY <1>2 DEF Holds
    <2>2. m \in LiveAddr' /\ KvAt(m)' = KvAt(m)
        BY <1>1
    <2>3. \A b \in LiveAddr' : KvAt(b)'.key = rec.key => b = m \/ KvAt(b)'.status = "WRITE"
        BY <1>1
    <2>4. QED BY <2>1, <2>2, <2>3 DEF Holds
<1>3. ASSUME NEW k, NEW v, k # rec.key, Holds(k, v) PROVE Holds(k, v)'
    BY <1>3, HoldsOther
<1>4. QED BY <1>2, <1>3

(* A record that has a valid copy is deleted.                              *)
LEMMA HoldsMoved ==
    ASSUME NEW m \in Addr, m \in LiveAddr, NEW rec, OneChanges(m, rec), rec.status = "DELETED",
           NEW k, KvAt(m).key = k, NEW v,
           NEW p \in LiveAddr, p # m, KvAt(p).key = k, KvAt(p).val = v,
           \A a \in LiveAddr : KvAt(a).key = k => a = m \/ a = p
    PROVE  /\ Holds(k, v)'
           /\ \A j, u : j # k /\ Holds(j, u) => Holds(j, u)'
<1>1. /\ LiveAddr' = LiveAddr \ {m}
      /\ \A a \in LiveAddr' : KvAt(a)' = KvAt(a)
    BY LiveHas DEF OneChanges, Live
<1>2. Holds(k, v)'
    <2>1. p \in LiveAddr' /\ KvAt(p)'.key = k /\ KvAt(p)'.val = v
        BY <1>1
    <2>2. \A b \in LiveAddr' : KvAt(b)'.key = k => b = p
        BY <1>1
    <2>3. QED BY <2>1, <2>2 DEF Holds
<1>3. ASSUME NEW j, NEW u, j # k, Holds(j, u) PROVE Holds(j, u)'
    BY <1>3, HoldsOther DEF Live
<1>4. QED BY <1>2, <1>3

(* Most steps leave the map as it is.                                      *)
KeepsMap == \A k \in Key, v \in Value \cup {None} : Holds(k, v) => Holds(k, v)'

LEMMA SameKvKeeps ==
    ASSUME \A t \in Sector : sector'[t].kv = sector[t].kv
    PROVE  KeepsMap
<1>1. LiveAddr' = LiveAddr /\ \A a \in LiveAddr : KvAt(a)' = KvAt(a)
    BY KvSame, LiveHas
<1>2. QED BY <1>1, HoldsSame DEF KeepsMap

LEMMA PreDeleteKeeps ==
    ASSUME TypeInv, LiveInv, Twins = {}, NEW p \in LiveAddr,
           sector' = Marked(sector, p, "PRE_DELETE")
    PROVE  KeepsMap
<1>1. p \in Addr /\ Has(p)
    BY LiveHas
<1> PICK rec : rec = WithStatus(KvAt(p), "PRE_DELETE")
    OBVIOUS
<1>2. /\ OneChanges(p, rec) /\ rec.status = "PRE_DELETE"
      /\ rec.key = KvAt(p).key /\ rec.val = KvAt(p).val
    BY <1>1, MarkedChange DEF Status
<1>3. LiveAddr' = LiveAddr
    BY <1>2 DEF OneChanges, Live
<1>4. \A a \in LiveAddr : KvAt(a)'.key = KvAt(a).key /\ KvAt(a)'.val = KvAt(a).val
    BY <1>2, LiveHas DEF OneChanges
<1>5. \A a, b \in LiveAddr : KvAt(a).key = KvAt(b).key => a = b
    BY DEF LiveInv
<1>6. QED BY <1>3, <1>4, <1>5, HoldsMarked DEF KeepsMap

LEMMA GcKeeps ==
    ASSUME IInv, Conditions,
           \/ GcBegin \/ GcSkip \/ GcPrepare \/ GcNextSector \/ GcPreDelete \/ GcWrite
           \/ GcCommit \/ GcDelete \/ GcDirty \/ GcErase \/ GcFormat
    PROVE  KeepsMap
<1>1. TypeInv /\ LiveInv
    BY DEF IInv, ContentsInv
<1>2. CASE GcBegin \/ GcSkip \/ GcNextSector \/ GcDirty \/ GcFormat
    BY <1>2, GcBeginContents, GcSkipContents, GcNextSectorContents, GcDirtyContents,
       GcFormatContents, SameKvKeeps
<1>3. CASE GcPreDelete
    <2>1. Twins = {}
        BY <1>3 DEF GcPreDelete, Twins
    <2>2. Moved \in LiveAddr /\ sector' = Marked(sector, Moved, "PRE_DELETE")
        BY <1>3, GcPreDeleteContents DEF GcPreDelete, PreDeleted
    <2>3. QED BY <1>1, <2>1, <2>2, PreDeleteKeeps
<1>4. CASE GcPrepare
    <2>1. Twins = {}
        BY <1>4 DEF GcPrepare, Twins
    <2>2. \/ sector' = Marked(sector, Moved, "PRE_DELETE")
          \/ sector' = sector
          \/ sector' = Stored(sector, SecOf(gc.next), "FULL")
        BY <1>4 DEF GcPrepare, PreDeleted
    <2>3. IsFlash(sector) /\ SecOf(gc.next) \in Sector
        BY <1>4, AddrFacts DEF IInv, TypeInv, GcType, GcPc, GcPrepare
    <2>4. Moved \in LiveAddr
        BY <1>4, MovedIs DEF IInv, GcPrepare, AtEnd, LiveAt, From
    <2>5. CASE sector' = Marked(sector, Moved, "PRE_DELETE")
        BY <1>1, <2>1, <2>4, <2>5, PreDeleteKeeps
    <2>6. CASE sector' = sector \/ sector' = Stored(sector, SecOf(gc.next), "FULL")
        <3>1. \A t \in Sector : sector'[t].kv = sector[t].kv
            BY <2>3, <2>6, MarksKv DEF StoreMark
        <3>2. QED BY <3>1, SameKvKeeps
    <2>7. QED BY <2>2, <2>5, <2>6
<1>5. CASE GcWrite \/ GcErase
    <2>1. LiveAddr' = LiveAddr /\ \A a \in LiveAddr : KvAt(a)' = KvAt(a)
        BY <1>5, GcWriteContents, GcEraseContents
    <2>2. QED BY <2>1, HoldsSame DEF KeepsMap
<1>6. CASE GcCommit
    <2> PICK p : p = gc.next
        OBVIOUS
    <2> PICK m : m = Moved
        OBVIOUS
    <2>1. /\ p \in Addr /\ Has(p) /\ p \notin LiveAddr /\ m \in LiveAddr
          /\ KvAt(m).status = "PRE_DELETE" /\ KvAt(p).key = KvAt(m).key
          /\ \A a \in LiveAddr : KvAt(a).key = KvAt(m).key => a = m
          /\ sector' = Marked(sector, p, "WRITE")
        BY <1>6, CopyFacts DEF GcCommit
    <2> PICK rec : rec = WithStatus(KvAt(p), "WRITE")
        OBVIOUS
    <2>2. OneChanges(p, rec) /\ rec.status = "WRITE" /\ rec.key = KvAt(p).key
        BY <1>1, <2>1, MarkedChange DEF Status
    <2>3. QED BY <2>1, <2>2, HoldsCopy DEF KeepsMap
<1>7. CASE GcDelete
    <2> PICK p : p = gc.next
        OBVIOUS
    <2> PICK m : m = Moved
        OBVIOUS
    <2> PICK k : k = KvAt(m).key
        OBVIOUS
    <2> PICK v : v = KvAt(p).val
        OBVIOUS
    <2>1. /\ m \in Addr /\ Has(m) /\ m \in LiveAddr /\ p \in LiveAddr /\ p # m
          /\ KvAt(p).key = k /\ KvAt(m).val = v
          /\ KvAt(m).status = "PRE_DELETE"
          /\ \A a \in LiveAddr : KvAt(a).key = k => a = m \/ a = p
          /\ sector' = Marked(sector, m, "DELETED")
        BY <1>7, CopyFacts DEF GcDelete
    <2> PICK rec : rec = WithStatus(KvAt(m), "DELETED")
        OBVIOUS
    <2>2. OneChanges(m, rec) /\ rec.status = "DELETED"
        BY <1>1, <2>1, MarkedChange DEF Status
    <2>3. Holds(k, v)' /\ \A j, u : j # k /\ Holds(j, u) => Holds(j, u)'
        BY <2>1, <2>2, HoldsMoved
    <2>4. \A u : Holds(k, u) => u = v
        BY <2>1 DEF Holds
    <2>5. QED BY <2>3, <2>4 DEF KeepsMap
<1>8. QED BY <1>2, <1>3, <1>4, <1>5, <1>6, <1>7

LEMMA SetKeeps ==
    ASSUME IInv, Conditions,
           \/ alloc_kv \/ alloc_kv_next \/ WriteHeader \/ MarkDirty \/ WriteData \/ WriteFails
           \/ FindOld /\ (op.val # None \/ Find(op.key) = FAILED_ADDR)
           \/ Commit /\ ctx.old # FAILED_ADDR
    PROVE  KeepsMap
<1>1. TypeInv /\ LiveInv
    BY DEF IInv, ContentsInv
<1>2. CASE alloc_kv \/ alloc_kv_next \/ MarkDirty \/ WriteFails
    BY <1>2, AllocContents, AllocNextContents, MarkDirtyContents, WriteFailsContents, SameKvKeeps
<1>3. CASE WriteHeader \/ WriteData
    <2>1. LiveAddr' = LiveAddr /\ \A a \in LiveAddr : KvAt(a)' = KvAt(a)
        BY <1>3, WriteHeaderContents, WriteDataContents
    <2>2. QED BY <2>1, HoldsSame DEF KeepsMap
<1>4. CASE FindOld /\ (op.val # None \/ Find(op.key) = FAILED_ADDR)
    <2> PICK old : old = Find(op.key)
        OBVIOUS
    <2>1. CASE sector' = sector
        BY <2>1, SameKvKeeps
    <2>2. CASE sector' # sector
        <3>1. /\ Twins = {} /\ old \in LiveAddr
              /\ sector' = Marked(sector, old, "PRE_DELETE")
            BY <1>4, <2>2, FindOldCases
        <3>2. QED BY <1>1, <3>1, PreDeleteKeeps
    <2>3. QED BY <2>1, <2>2
<1>5. CASE Commit /\ ctx.old # FAILED_ADDR
    <2> PICK p : p = ctx.new
        OBVIOUS
    <2> PICK m : m = ctx.old
        OBVIOUS
    <2>1. /\ p \in Addr /\ Has(p) /\ p \notin LiveAddr /\ m \in LiveAddr
          /\ KvAt(m).status = "PRE_DELETE" /\ KvAt(p).key = op.key /\ KvAt(m).key = op.key
          /\ \A a \in LiveAddr : KvAt(a).key = op.key => a = m
          /\ sector' = Marked(sector, p, "WRITE")
        BY <1>5, NewFacts DEF Commit
    <2> PICK rec : rec = WithStatus(KvAt(p), "WRITE")
        OBVIOUS
    <2>2. OneChanges(p, rec) /\ rec.status = "WRITE" /\ rec.key = KvAt(p).key
        BY <1>1, <2>1, MarkedChange DEF Status
    <2>3. QED BY <2>1, <2>2, HoldsCopy DEF KeepsMap
<1>6. QED BY <1>2, <1>3, <1>4, <1>5

LEMMA OtherKeeps ==
    ASSUME IInv, Conditions,
           \/ \E k \in Key, v \in Value \cup {None} : kv_set(k, v)
           \/ \E k \in Key : kv_get(k)
           \/ Reset \/ flashdb_init \/ check_all_kv
    PROVE  KeepsMap
<1>1. CASE \E k \in Key, v \in Value \cup {None} : kv_set(k, v)
    BY <1>1, SetContents, SameKvKeeps
<1>2. CASE \E k \in Key : kv_get(k)
    <2>1. sector' = sector
        BY <1>2, GetContents
    <2>2. QED BY <2>1, SameKvKeeps
<1>3. CASE Reset \/ flashdb_init
    BY <1>3, ResetContents, StartContents, SameKvKeeps
<1>4. CASE check_all_kv
    <2>1. LiveAddr' = LiveAddr /\ \A a \in LiveAddr : KvAt(a)' = KvAt(a)
        BY <1>4, CheckContents
    <2>2. QED BY <2>1, HoldsSame DEF KeepsMap
<1>5. QED BY <1>1, <1>2, <1>3, <1>4

(* The three steps that change the map, each by the whole of what was      *)
(* called for.                                                             *)
LEMMA AppliedStep ==
    ASSUME IInv, Conditions, StoreOK, StoreOK',
           \/ FindOld /\ op.val = None /\ Find(op.key) # FAILED_ADDR
           \/ Commit /\ ctx.old = FAILED_ADDR
           \/ DeleteOld
    PROVE  Store' = [Store EXCEPT ![op.key] = op.val]
<1> PICK k : k = op.key
    OBVIOUS
<1> PICK v : v = op.val
    OBVIOUS
<1>1. TypeInv /\ LiveInv
    BY DEF IInv, ContentsInv
<1>2. CASE FindOld /\ op.val = None /\ Find(op.key) # FAILED_ADDR
    <2> PICK old : old = Find(op.key)
        OBVIOUS
    <2>1. /\ old \in Addr /\ Has(old) /\ old \in LiveAddr /\ KvAt(old).key = k /\ k \in Key
          /\ Twins = {}
        BY <1>2, FindOldCases
    <2>2. sector' = Marked(sector, old, "DELETED")
        BY <1>2 DEF FindOld
    <2> PICK rec : rec = WithStatus(KvAt(old), "DELETED")
        OBVIOUS
    <2>3. OneChanges(old, rec) /\ rec.status = "DELETED"
        BY <1>1, <2>1, <2>2, MarkedChange DEF Status
    <2>4. \A a \in LiveAddr : KvAt(a).key = k => a = old
        BY <1>1, <2>1 DEF LiveInv
    <2>5. \A a \in LiveAddr' : KvAt(a)'.key # k
        BY <2>3, <2>4, LiveHas DEF OneChanges, Live
    <2>6. Holds(k, v)'
        <3>1. v = None
            BY <1>2
        <3>2. QED BY <2>5, <3>1 DEF Holds
    <2>7. \A j \in Key, u \in Value \cup {None} : j # k /\ Holds(j, u) => Holds(j, u)'
        BY <2>1, <2>3, HoldsOther DEF Live
    <2>8. Store' = [Store EXCEPT ![k] = v]
        BY <1>2, <2>1, <2>6, <2>7, StoreApplied
    <2>9. QED BY <2>8
<1>3. CASE Commit /\ ctx.old = FAILED_ADDR
    <2> PICK p : p = ctx.new
        OBVIOUS
    <2>1. /\ p \in Addr /\ Has(p) /\ p \notin LiveAddr /\ KvAt(p).key = k /\ KvAt(p).val = v
          /\ k \in Key /\ v \in Value
          /\ \A a \in LiveAddr : KvAt(a).key # k
          /\ sector' = Marked(sector, p, "WRITE")
        <3>1. pc = "commit" /\ ctx.old = FAILED_ADDR /\ sector' = Marked(sector, p, "WRITE")
            BY <1>3 DEF Commit
        <3>2. \A a \in LiveAddr : a # FAILED_ADDR
            BY LiveHas, AddrFacts
        <3>3. QED BY <3>1, <3>2, NewFacts
    <2> PICK rec : rec = WithStatus(KvAt(p), "WRITE")
        OBVIOUS
    <2>2. /\ OneChanges(p, rec) /\ rec.status = "WRITE" /\ rec.key = k /\ rec.val = v
        BY <1>1, <2>1, MarkedChange DEF Status
    <2>3. /\ p \in LiveAddr' /\ KvAt(p)' = rec
          /\ \A a \in LiveAddr' : a # p => KvAt(a)'.key # k
        BY <2>1, <2>2, LiveHas DEF OneChanges, Live
    <2>4. Holds(k, v)'
        BY <2>2, <2>3 DEF Holds
    <2>5. \A j \in Key, u \in Value \cup {None} : j # k /\ Holds(j, u) => Holds(j, u)'
        BY <2>1, <2>2, HoldsOther
    <2>6. Store' = [Store EXCEPT ![k] = v]
        BY <2>1, <2>4, <2>5, StoreApplied
    <2>7. QED BY <2>6
<1>4. CASE DeleteOld
    <2> PICK p : p = ctx.new
        OBVIOUS
    <2> PICK m : m = ctx.old
        OBVIOUS
    <2>1. /\ m \in Addr /\ Has(m) /\ m \in LiveAddr /\ p \in LiveAddr /\ p # m
          /\ KvAt(p).key = k /\ KvAt(p).val = v /\ KvAt(m).key = k
          /\ \A a \in LiveAddr : KvAt(a).key = k => a = m \/ a = p
          /\ sector' = Marked(sector, m, "DELETED") /\ k \in Key /\ v \in Value
        BY <1>4, NewFacts DEF DeleteOld
    <2> PICK rec : rec = WithStatus(KvAt(m), "DELETED")
        OBVIOUS
    <2>2. OneChanges(m, rec) /\ rec.status = "DELETED"
        BY <1>1, <2>1, MarkedChange DEF Status
    <2>3. Holds(k, v)' /\ \A j, u : j # k /\ Holds(j, u) => Holds(j, u)'
        BY <2>1, <2>2, HoldsMoved
    <2>4. Store' = [Store EXCEPT ![k] = v]
        BY <2>1, <2>3, StoreApplied
    <2>5. QED BY <2>4
<1>5. QED BY <1>2, <1>3, <1>4

LEMMA MapStep ==
    ASSUME IInv, Conditions, StoreOK, StoreOK', [Next]_vars
    PROVE  [Map!Next]_<<op, reply, Store>>
<1>1. KeepsMap => Store' = Store
    BY StoreSame DEF KeepsMap
<1>2. ASSUME op' = op, reply' = reply, Store' = Store
      PROVE  [Map!Next]_<<op, reply, Store>>
    BY <1>2
<1>3. pc \in SetPc => op # None /\ op.val \in Value \cup {None}
    BY KvAssumption DEF IInv, TypeInv, OpType
<1>4. CASE \E k \in Key, v \in Value \cup {None} : kv_set(k, v)
    <2>1. Store' = Store
        BY <1>1, <1>4, OtherKeeps
    <2>2. op = None
        BY <1>4 DEF kv_set, IInv, TypeInv, OpType, SetPc, GcPc
    <2>3. Map!Call
        BY <1>4, <2>1, <2>2 DEF kv_set, Map!Call
    <2>4. QED BY <2>3 DEF Map!Next
<1>5. CASE (\E k \in Key : kv_get(k)) \/ flashdb_init \/ check_all_kv
    <2>1. Store' = Store
        BY <1>1, <1>5, OtherKeeps
    <2>2. op' = op /\ reply' = reply
        BY <1>5 DEF kv_get, flashdb_init, check_all_kv, volatile
    <2>3. QED BY <1>2, <2>1, <2>2
<1>6. CASE Reset
    <2>1. Store' = Store
        BY <1>1, <1>6, OtherKeeps
    <2>2. op' = None /\ reply' = reply
        BY <1>6 DEF Reset, NoOp
    <2>3. CASE op = None
        BY <1>2, <2>1, <2>2, <2>3
    <2>4. CASE op # None
        BY <2>1, <2>2, <2>4 DEF Map!Reset, Map!Next
    <2>5. QED BY <2>3, <2>4
<1>7. CASE \/ GcBegin \/ GcSkip \/ GcPrepare \/ GcNextSector \/ GcPreDelete \/ GcWrite
           \/ GcCommit \/ GcDelete \/ GcDirty \/ GcErase \/ GcFormat
    <2>1. Store' = Store
        BY <1>1, <1>7, GcKeeps
    <2>2. op' = op /\ reply' = reply
        BY <1>7 DEF GcBegin, GcSkip, GcPrepare, GcNextSector, GcPreDelete, GcWrite,
                    GcCommit, GcDelete, GcDirty, GcErase, GcFormat, volatile
    <2>3. QED BY <1>2, <2>1, <2>2
<1>8. CASE alloc_kv \/ WriteFails
    <2>1. Store' = Store /\ op # None
        BY <1>1, <1>3, <1>8, SetKeeps DEF alloc_kv, WriteFails, SetPc
    <2>2. (op' = op /\ reply' = reply) \/ (op' = None /\ reply' = FALSE)
        BY <1>8 DEF alloc_kv, WriteFails, Returns, NoOp
    <2>3. QED BY <1>2, <2>1, <2>2 DEF Map!Fail, Map!Next
<1>9. CASE alloc_kv_next \/ WriteHeader \/ MarkDirty \/ WriteData
    <2>1. Store' = Store
        BY <1>1, <1>9, SetKeeps
    <2>2. op' = op /\ reply' = reply
        BY <1>9 DEF alloc_kv_next, WriteHeader, MarkDirty, WriteData, volatile
    <2>3. QED BY <1>2, <2>1, <2>2
<1>10. CASE FindOld
    <2>1. op # None
        BY <1>3, <1>10 DEF FindOld, SetPc
    <2>2. CASE op.val # None
        <3>1. Store' = Store
            BY <1>1, <1>10, <2>2, SetKeeps
        <3>2. op' = op /\ reply' = reply
            BY <1>10, <2>2 DEF FindOld
        <3>3. QED BY <1>2, <3>1, <3>2
    <2>3. CASE op.val = None /\ Find(op.key) = FAILED_ADDR
        <3>1. Store' = Store
            BY <1>1, <1>10, <2>3, SetKeeps
        <3>2. op' = None /\ reply' = FALSE
            BY <1>10, <2>3 DEF FindOld, Returns, NoOp
        <3>3. QED BY <2>1, <3>1, <3>2 DEF Map!Fail, Map!Next
    <2>4. CASE op.val = None /\ Find(op.key) # FAILED_ADDR
        <3>1. Store' = [Store EXCEPT ![op.key] = op.val]
            BY <1>10, <2>4, AppliedStep
        <3>2. op' = None /\ reply' = TRUE
            BY <1>10, <2>4 DEF FindOld, Returns, NoOp
        <3>3. QED BY <2>1, <3>1, <3>2 DEF Map!Succeed, Map!Applied, Map!Next
    <2>5. QED BY <2>2, <2>3, <2>4
<1>11. CASE Commit
    <2>1. op # None
        BY <1>3, <1>11 DEF Commit, SetPc
    <2>2. CASE ctx.old # FAILED_ADDR
        <3>1. Store' = Store
            BY <1>1, <1>11, <2>2, SetKeeps
        <3>2. op' = op /\ reply' = reply
            BY <1>11, <2>2 DEF Commit
        <3>3. QED BY <1>2, <3>1, <3>2
    <2>3. CASE ctx.old = FAILED_ADDR
        <3>1. Store' = [Store EXCEPT ![op.key] = op.val]
            BY <1>11, <2>3, AppliedStep
        <3>2. op' = None /\ reply' = TRUE
            BY <1>11, <2>3 DEF Commit, Returns, NoOp
        <3>3. QED BY <2>1, <3>1, <3>2 DEF Map!Succeed, Map!Applied, Map!Next
    <2>4. QED BY <2>2, <2>3
<1>12. CASE DeleteOld
    <2>1. op # None
        BY <1>3, <1>12 DEF DeleteOld, SetPc
    <2>2. Store' = [Store EXCEPT ![op.key] = op.val]
        BY <1>12, AppliedStep
    <2>3. op' = None /\ reply' = TRUE
        BY <1>12 DEF DeleteOld, Returns, NoOp
    <2>4. QED BY <2>1, <2>2, <2>3 DEF Map!Succeed, Map!Applied, Map!Next
<1>13. CASE UNCHANGED vars
    <2>1. op' = op /\ reply' = reply /\ sector' = sector
        BY <1>13 DEF vars, volatile
    <2>2. Store' = Store
        BY <1>1, <2>1, SameKvKeeps
    <2>3. QED BY <1>2, <2>1, <2>2
<1>14. QED BY <1>4, <1>5, <1>6, <1>7, <1>8, <1>9, <1>10, <1>11, <1>12, <1>13 DEF Next

LEMMA MapInit == Init /\ IInv => Map!Init
<1> SUFFICES ASSUME Init, IInv PROVE Map!Init
    OBVIOUS
<1>1. LiveAddr = {}
    BY AddrFacts DEF LiveAddr, LiveAt, Init, Empty
<1>2. \A k \in Key : Holds(k, None)
    BY <1>1 DEF Holds
<1>3. \A k \in Key : Store[k] = None
    BY <1>2, StoreIsHeld DEF StoreOK
<1>4. Store = [k \in Key |-> Store[k]]
    BY DEF Store
<1>5. QED BY <1>3, <1>4 DEF Map!Init, Init

(* The store behaves as a map that changes by whole values.                *)
THEOREM StoreIsAMap == Conditions => (Spec => ImplementsStore)
<1> SUFFICES ASSUME Conditions PROVE Spec => ImplementsStore
    OBVIOUS
<1>1. Spec => []IInv
    BY Invariance
<1>2. IInv => StoreOK
    BY StoreIsHeld
<1>3. Init /\ IInv => Map!Init
    BY MapInit
<1>4. IInv /\ StoreOK /\ StoreOK' /\ [Next]_vars => [Map!Next]_<<op, reply, Store>>
    BY MapStep
<1>5. QED BY <1>1, <1>2, <1>3, <1>4, PTL DEF Spec, ImplementsStore, Map!Spec
=============================================================================
