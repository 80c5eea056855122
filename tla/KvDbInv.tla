------------------------------- MODULE KvDbInv -------------------------------
(***************************************************************************)
(* The inductive invariant of the key-value store: the types, the layout   *)
(* of the records in the ring of sectors, and which of them are valid.     *)
(***************************************************************************)
EXTENDS KvDb

KvLen    == {Len[v] : v \in Value}
KvRecord == [key : Key \cup {None}, val : Value \cup {None},
             len : KvLen, status : Status]
StoreMark == {"UNUSED", "EMPTY", "USING", "FULL"}
DirtyMark == {"UNUSED", "FALSE", "TRUE", "GC"}

(* Where a record may begin or end, and where n more units have room.      *)
Addr == {AddrOf(s, o) : s \in Sector, o \in 1..(sec_size - KV_HDR_DATA_SIZE)}
Room(off, n) == off + n + KV_HDR_DATA_SIZE <= sec_size

SetPc == {"alloc", "alloc_next", "find", "header", "dirty", "data", "commit", "delete_old"}
GcPc  == {"gc", "gc_scan", "gc_next", "gc_pre_delete", "gc_header", "gc_commit",
          "gc_delete", "gc_dirty", "gc_format"}
Writing == {"dirty", "data", "commit", "delete_old"}
Moving  == {"gc_commit", "gc_delete", "gc_dirty"}

IsSector(sec) ==
    /\ sec \in [store : StoreMark, dirty : DirtyMark, kv : {sec.kv}]
    /\ sec.kv \in [DOMAIN sec.kv -> KvRecord]
    /\ \A o \in DOMAIN sec.kv : o \in 1..sec_size /\ Room(o, sec.kv[o].len)

IsFlash(sec) == sec = [s \in Sector |-> sec[s]] /\ \A s \in Sector : IsSector(sec[s])

RamType ==
    /\ oldest_addr \in Sector /\ empty_kv \in Addr
    /\ cache \in [Key -> Addr \cup {FAILED_ADDR}]
    /\ pc \in {"idle", "init", "check"} \cup SetPc \cup GcPc
    /\ retry \in 0..2 /\ reply \in BOOLEAN /\ faults \in Nat
    /\ ctx \in [old : Addr \cup {FAILED_ADDR}, new : Addr \cup {FAILED_ADDR}]
    /\ gc \in [off : Nat, next : Addr \cup {0}, dirty : DirtyMark]

OpType ==
    /\ IF pc \in SetPc \/ back = "alloc"
       THEN op \in [key : Key, val : Value \cup {None}] ELSE op = None
    /\ (pc \in SetPc \ {"find"} \/ back = "alloc") => op.val \in Value
    /\ back \in IF pc \in GcPc THEN {"alloc", "check"} ELSE {"idle"}
    /\ pc = "find" => (op.val = None <=> ctx.new = FAILED_ADDR)
    /\ (pc = "find" /\ op.val # None) \/ pc = "header" =>
         ctx.new \in Addr /\ Room(OffOf(ctx.new), Len[op.val])
    /\ pc \in Writing => ctx.new \in Addr
    /\ pc = "delete_old" => ctx.old \in Addr

GcType ==
    /\ pc \in GcPc \ {"gc"} => gc.next \in Addr
    /\ pc \in {"gc_next", "gc_pre_delete", "gc_header"} \cup Moving =>
         gc.off \in DOMAIN From.kv
    /\ pc = "gc_pre_delete" => OffOf(gc.next) = SECTOR_HDR_DATA_SIZE
    /\ pc \in {"gc_header"} \cup Moving => Room(OffOf(gc.next), From.kv[gc.off].len)

TypeInv == IsFlash(sector) /\ RamType /\ OpType /\ GcType
-----------------------------------------------------------------------------
(* No sequence of records ends in the last two units of a sector, where    *)
(* alloc_kv, do_gc and find_kv disagree.                                   *)
Clear(ends) ==
    /\ SECTOR_HDR_DATA_SIZE \in ends
    /\ \A o \in ends, v \in Value :
         /\ o + Len[v] \notin {sec_size - KV_HDR_DATA_SIZE, sec_size - KV_HDR_DATA_SIZE + 1}
         /\ o + Len[v] < sec_size - KV_HDR_DATA_SIZE => o + Len[v] \in ends
ClearOfTheLimits == \E ends \in SUBSET (1..sec_size) : Clear(ends)
Ends == CHOOSE ends \in SUBSET (1..sec_size) : Clear(ends)

(* What the theorems ask of those who use the store: three sectors at      *)
(* least, such lengths, and no reset in the five windows.                  *)
Conditions ==
    /\ SecNum > 2 /\ ClearOfTheLimits
    /\ {"turning", "delete_old", "gc_commit", "gc_delete", "gc_format"} \subseteq Unsafe

(* The records of a sector follow each other from the first on.            *)
Follow(kv, o) == o = SECTOR_HDR_DATA_SIZE \/ \E p \in DOMAIN kv : p + kv[p].len = o
Tiled(kv) ==
    \A o \in DOMAIN kv :
      /\ o \in Ends /\ Follow(kv, o)
      /\ \A p \in DOMAIN kv : o < p => o + kv[o].len <= p
FreeAt(kv, off) == Follow(kv, off) /\ \A o \in DOMAIN kv : o + kv[o].len <= off

(* How far a sector is from the oldest in the ring.                        *)
Dist(a, s) == IF s >= a THEN s - a ELSE s - a + SecNum

(* c sectors are full, the next one is being filled, those behind are      *)
(* empty.  The oldest one is left out while it has no header.              *)
Ring(c, cur) ==
    \A s \in Sector :
      /\ Tiled(sector[s].kv)
      /\ Dist(oldest_addr, s) < c =>
           \/ sector[s].store = "FULL" /\ sector[s].dirty \in {"TRUE", "GC"}
           \/ s = oldest_addr /\ pc = "gc_format" /\ sector[s] = Erased
      /\ Dist(oldest_addr, s) = c => s = cur
      /\ Dist(oldest_addr, s) > c => sector[s] = Empty
      /\ sector[s].dirty = "GC" =>
           s = oldest_addr /\ pc \in GcPc \cup {"init"} /\ c > 0

(* Where the next record will go.                                          *)
NextFree ==
    CASE pc \in {"find", "header"} /\ ctx.new # FAILED_ADDR -> ctx.new
      [] pc \in {"gc_scan", "gc_next", "gc_pre_delete", "gc_header", "gc_format"} -> gc.next
      [] pc \in Moving -> gc.next + From.kv[gc.off].len
      [] OTHER -> empty_kv

Fresh == \/ pc \in {"find", "header"} /\ ctx.new # FAILED_ADDR
         \/ pc \in {"gc_pre_delete", "gc_header"}

Filling(c, w) ==
    LET cur == sector[SecOf(w)]
    IN  /\ FreeAt(cur.kv, OffOf(w))
        /\ \/ cur.store = "USING" /\ pc \notin {"alloc_next", "gc_next"}
           \/ cur.store = "FULL" /\ pc \in {"alloc_next", "gc_next"}
           \/ /\ cur = Empty /\ c = 0
              /\ \/ pc \in {"idle", "init", "check", "alloc"}
                 \/ pc = "find" /\ ctx.new = FAILED_ADDR
        /\ IF OffOf(w) = SECTOR_HDR_DATA_SIZE
           THEN cur.dirty = "FALSE" /\ (cur.store # "EMPTY" => Fresh)
           ELSE \/ cur.dirty = "TRUE"
                \/ cur.dirty = "FALSE" /\ pc = "dirty"
                \/ /\ cur.dirty = "FALSE" /\ pc \in Moving
                   /\ OffOf(gc.next) = SECTOR_HDR_DATA_SIZE

LiveAt(s, o) == o \in DOMAIN sector[s].kv /\ sector[s].kv[o].status \in Live

(* There is an empty sector left; while the collection fills the last one, *)
(* it stays behind the records it has yet to move.                         *)
Spare(c, w) ==
    /\ pc \notin GcPc \cup {"init"} => c < SecNum - 1
    /\ pc = "alloc_next" => c < SecNum - 2
    /\ pc = "gc_next" => c < SecNum - 1
    /\ pc \in GcPc => c > 0
    /\ c = SecNum - 1 /\ pc # "gc_format" =>
         /\ From.dirty = "GC"
         /\ \A o \in DOMAIN From.kv :
              LiveAt(oldest_addr, o) =>
                OffOf(w) <= o \/ (pc \in {"gc_commit", "gc_delete"} /\ o = gc.off)

Collecting ==
    /\ pc \in GcPc \ {"gc", "gc_format"} =>
         /\ From.dirty = "GC" /\ Follow(From.kv, gc.off)
         /\ \A o \in DOMAIN From.kv :
              LiveAt(oldest_addr, o) => o >= gc.off /\ (pc = "gc_dirty" => o > gc.off)
    /\ pc \in {"gc_next", "gc_pre_delete", "gc_header", "gc_commit", "gc_delete"} =>
         LiveAt(oldest_addr, gc.off)
    /\ pc \in {"gc_pre_delete", "gc_header"} \cup Moving =>
         (OffOf(gc.next) = SECTOR_HDR_DATA_SIZE => gc.dirty = "FALSE")

Layout(c, w) ==
    /\ pc # "init" => w = NextFree
    /\ Dist(oldest_addr, SecOf(w)) = c
    /\ Ring(c, SecOf(w)) /\ Filling(c, w) /\ Spare(c, w)

(* The ring is in order: from oldest_addr on full sectors, one that is     *)
(* being filled up to where the next record goes, and empty ones, in each  *)
(* the records without gaps or overlaps; an empty sector is left, or the   *)
(* collection writes behind all it still has to move.                      *)
LayoutInv == (\E c \in 0..(SecNum - 1), w \in Addr : Layout(c, w)) /\ Collecting
-----------------------------------------------------------------------------
LiveAddr == {a \in Addr : LiveAt(SecOf(a), OffOf(a))}

(* The two records there may be of one key.                                *)
Twins == CASE pc = "delete_old" -> {ctx.old, ctx.new}
           [] pc = "gc_delete"  -> {Moved, gc.next}
           [] OTHER -> {}

LiveInv ==
    /\ \A a \in LiveAddr : KvAt(a).key \in Key /\ KvAt(a).val \in Value
    /\ \A a, b \in LiveAddr : KvAt(a).key = KvAt(b).key => a = b \/ {a, b} \subseteq Twins
    /\ \A k \in Key : cache[k] # FAILED_ADDR => cache[k] \in LiveAddr /\ KvAt(cache[k]).key = k

SettingInv ==
    /\ pc \in {"header"} \cup Writing =>
         /\ \A a \in LiveAddr :
              KvAt(a).key = op.key => a = ctx.old \/ (pc = "delete_old" /\ a = ctx.new)
         /\ ctx.old # FAILED_ADDR =>
              ctx.old \in LiveAddr /\ KvAt(ctx.old).key = op.key /\ KvAt(ctx.old).status = "PRE_DELETE"
    /\ pc \in Writing =>
         /\ OffOf(ctx.new) \in DOMAIN sector[SecOf(ctx.new)].kv
         /\ RecordEnd(ctx.new, Len[op.val]) = empty_kv
         /\ KvAt(ctx.new).len = Len[op.val]
         /\ KvAt(ctx.new).status = IF pc = "delete_old" THEN "WRITE" ELSE "PRE_WRITE"
         /\ pc \in {"dirty", "data"} => KvAt(ctx.new).key = None
         /\ pc \in {"commit", "delete_old"} =>
              KvAt(ctx.new).key = op.key /\ KvAt(ctx.new).val = op.val

MovingInv ==
    /\ pc = "gc_format" => From.kv = << >>
    /\ pc \in {"gc_header", "gc_commit", "gc_delete"} => From.kv[gc.off].status = "PRE_DELETE"
    /\ pc \in Moving => OffOf(gc.next) \in DOMAIN sector[SecOf(gc.next)].kv
    /\ pc \in {"gc_commit", "gc_delete"} =>
         KvAt(gc.next) = [From.kv[gc.off] EXCEPT
                            !.status = IF pc = "gc_commit" THEN "PRE_WRITE" ELSE "WRITE"]

(* There is one valid record of a key, two only while kv_set or the        *)
(* collection drops the older; the cache has the address of the valid one; *)
(* and kv_set and the collection hold addresses of what they think.        *)
ContentsInv == LiveInv /\ SettingInv /\ MovingInv

IInv == TypeInv /\ LayoutInv /\ ContentsInv
=============================================================================
