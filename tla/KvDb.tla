-------------------------------- MODULE KvDb --------------------------------
(***************************************************************************)
(* The key-value store of Middlewares/mykvdb: kv_set, kv_get, the garbage  *)
(* collection and flashdb_init of fdb_kvdb.c, one step for each write to   *)
(* the flash, with resets and failing writes between them.  Addresses      *)
(* count the 16 bytes of a sector header.  A record is one key's value; of *)
(* its bytes only its length and whether they are all written are kept.    *)
(***************************************************************************)
EXTENDS Integers, FiniteSetsExt, TLC

CONSTANTS Key, Value, None,
          Len,               \* Len[v]: a record's length, header included
          sec_size, SecNum,
          Unsafe,            \* the steps before which no reset comes
          FailAt,            \* the steps whose write may fail
          MaxFaults          \* bounds failed writes and resets of a call

SECTOR_HDR_DATA_SIZE == 1
KV_HDR_DATA_SIZE     == 2
FAILED_ADDR          == -1
GC_EMPTY_SEC_THRESHOLD == 1

max_size == SecNum * sec_size
Sector   == 0..(SecNum - 1)
SecOf(addr) == addr \div sec_size
OffOf(addr) == addr % sec_size
AddrOf(s, off) == s * sec_size + off

ASSUME KvAssumption ==
    /\ sec_size \in Nat /\ sec_size > SECTOR_HDR_DATA_SIZE + KV_HDR_DATA_SIZE
    /\ SecNum \in Nat /\ SecNum > 1 /\ Len \in [Value -> Nat]
    /\ \A v \in Value : /\ Len[v] > KV_HDR_DATA_SIZE
                       /\ SECTOR_HDR_DATA_SIZE + Len[v] + KV_HDR_DATA_SIZE <= sec_size
    /\ None \notin Value /\ None \notin Key
    /\ None \notin [key : Key, val : Value \cup {None}]

VARIABLES
  sector,      \* flash: store and dirty marks and the records by offset
  oldest_addr, \* the sector garbage is collected from next
  empty_kv,    \* where the next record goes
  cache,       \* kv_cache_table: the address of a key's record
  pc,
  op,          \* the arguments of kv_set, None outside
  ctx,         \* kv_set's old_kv_addr and new_kv_addr
  retry,       \* alloc_kv's retey_cnt
  gc,          \* do_gc's from_offset, next_alloc_addr and sec_info.dirty
  back,        \* where do_gc returns to
  reply,       \* whether the last kv_set returned 0
  faults

volatile == <<cache, op, ctx, retry, gc, back>>
vars == <<sector, oldest_addr, empty_kv, volatile, pc, reply, faults>>

Status == {"PRE_WRITE", "WRITE", "PRE_DELETE", "DELETED"}
Live   == {"WRITE", "PRE_DELETE"}

Erased == [store |-> "UNUSED", dirty |-> "UNUSED", kv |-> << >>]
Empty  == [store |-> "EMPTY", dirty |-> "FALSE", kv |-> << >>]

(* The writes to the flash: a sector's marks, a record, a record's status. *)
(* Nobody looks at the contents of a deleted record, only at its length.   *)
Stored(sec, s, mark)  == [sec EXCEPT ![s].store = mark]
Dirtied(sec, s, mark) == [sec EXCEPT ![s].dirty = mark]
With(kv, off, rec) ==
    [o \in DOMAIN kv \cup {off} |-> IF o = off THEN rec ELSE kv[o]]
Recorded(sec, addr, rec) ==
    [sec EXCEPT ![SecOf(addr)].kv = With(@, OffOf(addr), rec)]
WithStatus(rec, status) ==
    [rec EXCEPT !.status = status,
                !.key = IF status = "DELETED" THEN None ELSE @,
                !.val = IF status = "DELETED" THEN None ELSE @]
Marked(sec, addr, status) ==
    [sec EXCEPT ![SecOf(addr)].kv[OffOf(addr)] = WithStatus(@, status)]

(* The checksum is that of the name and the value.                         *)
Whole(kv) == kv.key # None

(* Mutant: the old record is dropped before the new one is there.          *)
DeletedAtOnce(sec, addr) == Marked(sec, addr, "DELETED")
PreDeleted(sec, addr) == Marked(sec, addr, "PRE_DELETE")

(* Mutant: the cache keeps the address in the sector that is erased.       *)
NotCached(k, addr) == cache
Cached(k, addr) == [cache EXCEPT ![k] = addr]

(* Mutant: the room of name and value is not counted.                      *)
HeaderEnd(addr, len) == addr + KV_HDR_DATA_SIZE
RecordEnd(addr, len) == addr + len

(* Mutant: only the header is made room for.                               *)
HeaderFits(addr, size) == OffOf(addr) + KV_HDR_DATA_SIZE <= sec_size
Fits(addr, size) == OffOf(addr) + size + KV_HDR_DATA_SIZE <= sec_size

KvAt(addr) == sector[SecOf(addr)].kv[OffOf(addr)]
get_next_sec(s) == (s + 1) % SecNum

(* The offsets find_kv visits in a sector, and where it ends: it starts at *)
(* the first record and goes on by the lengths while a header would fit.   *)
Walk(sec, s) ==
    LET kv == sec[s].kv
        Follows(o) == o + kv[o].len
        Closed(W) == /\ SECTOR_HDR_DATA_SIZE \in DOMAIN kv => SECTOR_HDR_DATA_SIZE \in W
                     /\ \A o \in W : /\ Follows(o) \in DOMAIN kv
                                    /\ Follows(o) < sec_size - KV_HDR_DATA_SIZE
                                    => Follows(o) \in W
    IN  {o \in DOMAIN kv : \A W \in SUBSET DOMAIN kv : Closed(W) => o \in W}

End(sec, s) ==
    IF Walk(sec, s) = {} THEN SECTOR_HDR_DATA_SIZE
    ELSE LET o == Max(Walk(sec, s)) IN o + sec[s].kv[o].len

(* The sectors a lookup goes through: from the oldest up to an empty one.  *)
Nth(n) == (oldest_addr + n) % SecNum
Reached(n) == \A m \in 0..n : sector[Nth(m)].store # "EMPTY"

(* The records passed there, by their place in the order of the search.    *)
Places ==
    UNION {{n * sec_size + o : o \in Walk(sector, Nth(n))} :
             n \in {n \in 0..(SecNum - 1) : Reached(n)}}

AtPlace(place) == AddrOf(Nth(place \div sec_size), place % sec_size)

(* Mutant: a record prepared for deletion is passed over.                  *)
WrittenOnly(k) ==
    LET places == {p \in Places : /\ KvAt(AtPlace(p)).key = k
                                  /\ KvAt(AtPlace(p)).status = "WRITE"}
    IN  IF places = {} THEN FAILED_ADDR ELSE AtPlace(Min(places))

(* find_kv over the sectors, first without and then with the cache.        *)
Scanned(k) ==
    LET places == {p \in Places : /\ KvAt(AtPlace(p)).key = k
                                  /\ KvAt(AtPlace(p)).status \in Live}
    IN  IF places = {} THEN FAILED_ADDR ELSE AtPlace(Min(places))

Find(k) == IF cache[k] # FAILED_ADDR THEN cache[k] ELSE Scanned(k)

NoCtx == [old |-> FAILED_ADDR, new |-> FAILED_ADDR]
NoGc  == [off |-> 0, next |-> 0, dirty |-> "FALSE"]
NoOp  == op' = None /\ ctx' = NoCtx /\ retry' = 0

Init ==
    /\ sector = [s \in Sector |-> Empty]
    /\ oldest_addr = 0 /\ empty_kv = SECTOR_HDR_DATA_SIZE
    /\ cache = [k \in Key |-> FAILED_ADDR]
    /\ pc = "idle" /\ op = None /\ retry = 0
    /\ ctx = NoCtx
    /\ gc = NoGc /\ back = "idle"
    /\ reply = TRUE /\ faults = 0

Returns(ok) == pc' = "idle" /\ NoOp /\ reply' = ok

-----------------------------------------------------------------------------
(* kv_set, and kv_set with no value, which deletes.                        *)

kv_set(k, v) ==
    /\ pc = "idle"
    /\ op' = [key |-> k, val |-> v]
    /\ ctx' = NoCtx /\ retry' = 2 /\ reply' = TRUE
    /\ pc' = IF v = None THEN "find" ELSE "alloc"
    /\ UNCHANGED <<sector, oldest_addr, empty_kv, cache, gc, back, faults>>

calc_free_size ==
    LET oldest == AddrOf(oldest_addr, 0)
    IN  IF empty_kv > oldest THEN max_size - (empty_kv - oldest) ELSE oldest - empty_kv

(* Mutant: two empty sectors are asked for.                                *)
RoomyTwice(size) == calc_free_size - size > 2 * sec_size

(* Mutant: no sector is kept in reserve.                                   *)
NoReserve(size) == calc_free_size >= size

(* The difference is unsigned.                                             *)
Roomy(size) ==
    \/ calc_free_size < size
    \/ calc_free_size - size > GC_EMPTY_SEC_THRESHOLD * sec_size

alloc_kv ==
    /\ pc = "alloc"
    /\ LET size == Len[op.val]
           cur  == SecOf(empty_kv)
       IN  IF ~Roomy(size)
           THEN IF retry = 0
                THEN Returns(FALSE) /\ UNCHANGED <<sector, back>>
                ELSE /\ retry' = retry - 1 /\ pc' = "gc" /\ back' = "alloc"
                     /\ UNCHANGED <<sector, op, ctx, reply>>
           ELSE /\ retry' = 0 /\ UNCHANGED <<op, back, reply>>
                /\ IF ~Fits(empty_kv, size)
                   THEN IF sector[cur].store = "USING"
                        THEN /\ sector' = Stored(sector, cur, "FULL")
                             /\ pc' = "alloc_next" /\ UNCHANGED ctx
                        ELSE /\ ctx' = [ctx EXCEPT !.new = AddrOf(cur, SECTOR_HDR_DATA_SIZE)]
                             /\ pc' = "find" /\ UNCHANGED sector
                   ELSE /\ sector' = IF sector[cur].store = "EMPTY"
                                     THEN Stored(sector, cur, "USING") ELSE sector
                        /\ ctx' = [ctx EXCEPT !.new = empty_kv]
                        /\ pc' = "find"
    /\ UNCHANGED <<oldest_addr, empty_kv, cache, gc, faults>>

alloc_kv_next ==
    /\ pc = "alloc_next"
    /\ LET cur == get_next_sec(SecOf(empty_kv))
       IN  /\ sector' = Stored(sector, cur, "USING")
           /\ ctx' = [ctx EXCEPT !.new = AddrOf(cur, SECTOR_HDR_DATA_SIZE)]
    /\ pc' = "find"
    /\ UNCHANGED <<oldest_addr, empty_kv, cache, op, retry, gc, back, reply, faults>>

(* The old record is deleted, or prepared to be replaced.                  *)
FindOld ==
    /\ pc = "find"
    /\ LET old == Find(op.key)
       IN  IF op.val = None
           THEN /\ Returns(old # FAILED_ADDR)
                /\ sector' = IF old = FAILED_ADDR THEN sector ELSE Marked(sector, old, "DELETED")
                /\ cache' = Cached(op.key, FAILED_ADDR)
           ELSE /\ ctx' = [ctx EXCEPT !.old = old]
                /\ sector' = IF old # FAILED_ADDR /\ KvAt(old).status = "WRITE"
                             THEN PreDeleted(sector, old) ELSE sector
                /\ cache' = Cached(op.key, old)
                /\ pc' = "header" /\ UNCHANGED <<op, retry, reply>>
    /\ UNCHANGED <<oldest_addr, empty_kv, gc, back, faults>>

WriteHeader ==
    /\ pc = "header"
    /\ sector' = Recorded(sector, ctx.new,
                   [key |-> None, val |-> None, len |-> Len[op.val], status |-> "PRE_WRITE"])
    /\ empty_kv' = RecordEnd(ctx.new, Len[op.val])
    /\ pc' = IF OffOf(ctx.new) = SECTOR_HDR_DATA_SIZE THEN "dirty" ELSE "data"
    /\ UNCHANGED <<oldest_addr, volatile, reply, faults>>

MarkDirty ==
    /\ pc = "dirty"
    /\ sector' = Dirtied(sector, SecOf(ctx.new), "TRUE")
    /\ pc' = "data"
    /\ UNCHANGED <<oldest_addr, empty_kv, volatile, reply, faults>>

(* Name and value; if a write fails kv_set returns its error.              *)
WriteData ==
    /\ pc = "data"
    /\ sector' = [sector EXCEPT ![SecOf(ctx.new)].kv[OffOf(ctx.new)] =
                    [@ EXCEPT !.key = op.key, !.val = op.val]]
    /\ pc' = "commit"
    /\ UNCHANGED <<oldest_addr, empty_kv, volatile, reply, faults>>

WriteFails ==
    /\ pc = "data" /\ pc \in FailAt /\ faults < MaxFaults
    /\ Returns(FALSE) /\ faults' = faults + 1
    /\ UNCHANGED <<sector, oldest_addr, empty_kv, cache, gc, back>>

(* The new record is valid, and the old one is dropped.                    *)
Commit ==
    /\ pc = "commit"
    /\ sector' = Marked(sector, ctx.new, "WRITE")
    /\ IF ctx.old # FAILED_ADDR
       THEN pc' = "delete_old" /\ UNCHANGED <<cache, op, ctx, retry, reply>>
       ELSE Returns(TRUE) /\ cache' = Cached(op.key, ctx.new)
    /\ UNCHANGED <<oldest_addr, empty_kv, gc, back, faults>>

DeleteOld ==
    /\ pc = "delete_old"
    /\ sector' = Marked(sector, ctx.old, "DELETED")
    /\ cache' = Cached(op.key, ctx.new)
    /\ Returns(TRUE)
    /\ UNCHANGED <<oldest_addr, empty_kv, gc, back, faults>>

(* kv_get: a record that is not whole is dropped.                          *)
kv_get(k) ==
    /\ pc = "idle"
    /\ LET old == Find(k)
           bad == old # FAILED_ADDR /\ ~Whole(KvAt(old))
       IN  /\ sector' = IF bad THEN Marked(sector, old, "DELETED") ELSE sector
           /\ cache' = [cache EXCEPT ![k] = IF bad THEN FAILED_ADDR ELSE old]
    /\ UNCHANGED <<oldest_addr, empty_kv, pc, op, ctx, retry, gc, back, reply, faults>>
-----------------------------------------------------------------------------
(* do_gc: the live records of the oldest sector are moved behind the       *)
(* newest and the sector is erased.                                        *)

GcBegin ==
    /\ pc = "gc"
    /\ gc' = [off |-> SECTOR_HDR_DATA_SIZE, next |-> empty_kv,
              dirty |-> sector[oldest_addr].dirty]
    /\ sector' = IF sector[oldest_addr].dirty = "TRUE"
                 THEN Dirtied(sector, oldest_addr, "GC") ELSE sector
    /\ pc' = "gc_scan"
    /\ UNCHANGED <<oldest_addr, empty_kv, cache, op, ctx, retry, back, reply, faults>>

From  == sector[oldest_addr]
Moved == AddrOf(oldest_addr, gc.off)
AtEnd == gc.off >= sec_size - KV_HDR_DATA_SIZE \/ gc.off \notin DOMAIN From.kv

GcSkip ==
    /\ pc = "gc_scan" /\ ~AtEnd /\ From.kv[gc.off].status \notin Live
    /\ gc' = [gc EXCEPT !.off = @ + From.kv[gc.off].len]
    /\ UNCHANGED <<sector, oldest_addr, empty_kv, cache, pc, op, ctx, retry, back, reply, faults>>

GcPrepare ==
    /\ pc = "gc_scan" /\ ~AtEnd /\ From.kv[gc.off].status \in Live
    /\ IF OffOf(gc.next) + From.kv[gc.off].len + KV_HDR_DATA_SIZE >= sec_size
       THEN /\ sector' = IF sector[SecOf(gc.next)].store = "USING"
                         THEN Stored(sector, SecOf(gc.next), "FULL") ELSE sector
            /\ pc' = "gc_next"
       ELSE /\ sector' = PreDeleted(sector, Moved)
            /\ pc' = "gc_header"
    /\ UNCHANGED <<oldest_addr, empty_kv, volatile, reply, faults>>

GcNextSector ==
    /\ pc = "gc_next"
    /\ LET to == get_next_sec(SecOf(gc.next))
       IN  /\ sector' = IF sector[to].store = "EMPTY"
                        THEN Stored(sector, to, "USING") ELSE sector
           /\ gc' = [gc EXCEPT !.next = AddrOf(to, SECTOR_HDR_DATA_SIZE),
                               !.dirty = sector[to].dirty]
    /\ pc' = "gc_pre_delete"
    /\ UNCHANGED <<oldest_addr, empty_kv, cache, op, ctx, retry, back, reply, faults>>

GcPreDelete ==
    /\ pc = "gc_pre_delete"
    /\ sector' = PreDeleted(sector, Moved)
    /\ pc' = "gc_header"
    /\ UNCHANGED <<oldest_addr, empty_kv, volatile, reply, faults>>

GcWrite ==
    /\ pc = "gc_header"
    /\ sector' = Recorded(sector, gc.next, [From.kv[gc.off] EXCEPT !.status = "PRE_WRITE"])
    /\ pc' = "gc_commit"
    /\ UNCHANGED <<oldest_addr, empty_kv, volatile, reply, faults>>

GcCommit ==
    /\ pc = "gc_commit"
    /\ sector' = Marked(sector, gc.next, "WRITE")
    /\ pc' = "gc_delete"
    /\ UNCHANGED <<oldest_addr, empty_kv, volatile, reply, faults>>

GcDelete ==
    /\ pc = "gc_delete"
    /\ sector' = Marked(sector, Moved, "DELETED")
    /\ cache' = Cached(From.kv[gc.off].key, gc.next)
    /\ pc' = "gc_dirty"
    /\ UNCHANGED <<oldest_addr, empty_kv, op, ctx, retry, gc, back, reply, faults>>

GcDirty ==
    /\ pc = "gc_dirty"
    /\ sector' = IF OffOf(gc.next) = SECTOR_HDR_DATA_SIZE /\ gc.dirty = "FALSE"
                 THEN Dirtied(sector, SecOf(gc.next), "TRUE") ELSE sector
    /\ gc' = [gc EXCEPT !.off = @ + From.kv[gc.off].len,
                        !.next = @ + From.kv[gc.off].len]
    /\ pc' = "gc_scan"
    /\ UNCHANGED <<oldest_addr, empty_kv, cache, op, ctx, retry, back, reply, faults>>

GcErase ==
    /\ pc = "gc_scan" /\ AtEnd
    /\ sector' = [sector EXCEPT ![oldest_addr] = Erased]
    /\ pc' = "gc_format"
    /\ UNCHANGED <<oldest_addr, empty_kv, volatile, reply, faults>>

GcFormat ==
    /\ pc = "gc_format"
    /\ sector' = [sector EXCEPT ![oldest_addr] = Empty]
    /\ empty_kv' = gc.next /\ oldest_addr' = get_next_sec(oldest_addr)
    /\ pc' = back /\ back' = "idle" /\ gc' = NoGc
    /\ UNCHANGED <<cache, op, ctx, retry, reply, faults>>
-----------------------------------------------------------------------------
(* Resets and flashdb_init.                                                *)

(* No sector is yet marked as the one being filled.                        *)
Turning ==
    /\ \E s \in Sector : sector[s].store \in {"USING", "FULL"}
    /\ ~\E s \in Sector : sector[s].store = "USING" /\ sector[s].dirty = "TRUE"

Reset ==
    /\ pc \notin Unsafe /\ ("turning" \in Unsafe => ~Turning)
    /\ pc = "idle" \/ faults < MaxFaults
    /\ faults' = IF pc = "idle" THEN faults ELSE faults + 1
    /\ pc' = "init" /\ NoOp
    /\ cache' = [k \in Key |-> FAILED_ADDR]
    /\ gc' = NoGc /\ back' = "idle"
    /\ UNCHANGED <<sector, oldest_addr, empty_kv, reply>>

(* The scan over the sectors, those without a header already formatted:    *)
(* which is oldest (the last that begins a run of used ones, or that is    *)
(* being collected), where the next record goes, and what was counted.     *)
Scan(sec) ==
    LET headed == {s \in Sector : sec[s].store # "UNUSED"}
        Last(S) == IF S = {} THEN FAILED_ADDR ELSE Max(S)
        begins == {s \in headed :
                     /\ sec[s].store \in {"USING", "FULL"}
                     /\ \A t \in headed : \/ t >= s \/ sec[t].store = "EMPTY"
                                          \/ \E u \in headed : t < u /\ u < s}
        in_gc  == {s \in headed : sec[s].dirty = "GC"}
        filling == {s \in headed : /\ sec[s].store = "USING" /\ sec[s].dirty = "TRUE"
                                   /\ End(sec, s) < sec_size - KV_HDR_DATA_SIZE}
    IN  [oldest  |-> Last(begins \cup in_gc),
         empty   |-> IF filling = {} THEN FAILED_ADDR
                     ELSE AddrOf(Last(filling), End(sec, Last(filling))),
         using   |-> Cardinality(filling),
         full    |-> Cardinality({s \in headed : sec[s].store = "FULL"}),
         need_gc |-> in_gc # {}]

Headed(sec) == [s \in Sector |-> IF sec[s].store = "UNUSED" THEN Empty ELSE sec[s]]

flashdb_init ==
    /\ pc = "init"
    /\ LET r == Scan(sector)
           first_use  == r.using = 0 /\ r.full = 0
           format_all == ~first_use /\ (r.empty = FAILED_ADDR \/ r.oldest = FAILED_ADDR
                                        \/ r.using # 1)
       IN  /\ sector' = IF format_all THEN [s \in Sector |-> Empty] ELSE Headed(sector)
           /\ IF first_use \/ format_all
              THEN empty_kv' = SECTOR_HDR_DATA_SIZE /\ oldest_addr' = 0
              ELSE empty_kv' = r.empty /\ oldest_addr' = r.oldest
           /\ IF r.need_gc /\ ~format_all
              THEN pc' = "gc" /\ back' = "check" ELSE pc' = "check" /\ UNCHANGED back
    /\ UNCHANGED <<cache, op, ctx, retry, gc, reply, faults>>

(* check_all_kv drops, one by one, records whose writing was not finished. *)
Unfinished ==
    {p \in Places : LET kv == KvAt(AtPlace(p))
                    IN  kv.status = "PRE_WRITE" \/ (kv.status \in Live /\ ~Whole(kv))}

check_all_kv ==
    /\ pc = "check"
    /\ IF Unfinished = {} THEN pc' = "idle" /\ UNCHANGED sector
       ELSE sector' = Marked(sector, AtPlace(Min(Unfinished)), "DELETED") /\ UNCHANGED pc
    /\ UNCHANGED <<oldest_addr, empty_kv, volatile, reply, faults>>

Next ==
    \/ \E k \in Key, v \in Value \cup {None} : kv_set(k, v)
    \/ \E k \in Key : kv_get(k)
    \/ alloc_kv \/ alloc_kv_next \/ FindOld \/ WriteHeader \/ MarkDirty
    \/ WriteData \/ WriteFails \/ Commit \/ DeleteOld
    \/ GcBegin \/ GcSkip \/ GcPrepare \/ GcNextSector \/ GcPreDelete \/ GcWrite
    \/ GcCommit \/ GcDelete \/ GcDirty \/ GcErase \/ GcFormat
    \/ Reset \/ flashdb_init \/ check_all_kv

Spec == Init /\ [][Next]_vars
-----------------------------------------------------------------------------
TypeOK ==
    /\ oldest_addr \in Sector /\ empty_kv \in 0..max_size
    /\ \A s \in Sector :
         /\ sector[s].store \in {"UNUSED", "EMPTY", "USING", "FULL"}
         /\ sector[s].dirty \in {"UNUSED", "FALSE", "TRUE", "GC"}
         /\ \A o \in DOMAIN sector[s].kv :
              /\ o >= SECTOR_HDR_DATA_SIZE /\ o + sector[s].kv[o].len <= sec_size
              /\ sector[s].kv[o].status \in Status

(* The map the flash holds.  While a record is being replaced the old one  *)
(* counts, until it is deleted.                                            *)
LiveRecords ==
    UNION {{kv \in {sector[s].kv[o] : o \in DOMAIN sector[s].kv} : kv.status \in Live} :
             s \in Sector}

Store ==
    LET live == LiveRecords
    IN  [k \in Key |->
           LET mine == {kv \in live : kv.key = k}
           IN  IF mine = {} THEN None
               ELSE (CHOOSE kv \in mine :
                        \/ kv.status = "PRE_DELETE"
                        \/ \A other \in mine : other.status = "WRITE").val]

Map == INSTANCE KvStore WITH store <- Store

(* Every kv_set and every delete changes the map once and as a whole, an   *)
(* error leaves it as it was, and neither the garbage collection nor a     *)
(* reset and the start after it change it otherwise.                       *)
ImplementsStore == Map!Spec

(* A record is written only to flash that is erased, and inside a sector   *)
(* that is marked as used: nothing is programmed twice.                    *)
ProgramsErased ==
    [][\A s \in Sector :
         \/ sector'[s].kv \in {<< >>, sector[s].kv}
         \/ /\ sector'[s].store \in {"USING", "FULL"}
            /\ \A o \in DOMAIN sector'[s].kv : \A p \in DOMAIN sector[s].kv :
                 \/ /\ o = p
                    /\ \/ sector'[s].kv[o].status = "DELETED"
                       \/ ~Whole(sector[s].kv[p])
                       \/ /\ sector'[s].kv[o].val = sector[s].kv[p].val
                          /\ sector'[s].kv[o].key = sector[s].kv[p].key
                 \/ o < p \/ o >= p + sector[s].kv[p].len]_vars

(* kv_get returns what the map has, and it is whole: the search finds it   *)
(* and the address the cache has instead of searching is not a stale one.  *)
ReadsTheMap ==
    pc = "idle" =>
      \A k \in Key :
        IF Find(k) = FAILED_ADDR THEN Store[k] = None
        ELSE KvAt(Find(k)).val = Store[k] /\ Whole(KvAt(Find(k)))

(* A value that fits is never refused for want of space: two collections   *)
(* give room for one more record.                                          *)
NeverFull == [][pc = "alloc" => pc' # "idle"]_vars
=============================================================================
