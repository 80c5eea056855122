---------------------------- MODULE TimerProofs -----------------------------
(***************************************************************************)
(* The timers of Timer for every set of timers, every period the tick can  *)
(* express and every width of the tick.                                    *)
(***************************************************************************)
EXTENDS Timer, SequenceTheorems, FiniteSetTheorems, WellFoundedInduction, TLAPS

-----------------------------------------------------------------------------
(* Sequences, and the least of a set.                                      *)

LEMMA LeastExists ==
    ASSUME NEW S, S \subseteq Nat, S # {}
    PROVE  \E x \in S : \A y \in S : x <= y
<1> DEFINE R == {p \in Nat \X Nat : p[1] < p[2]}
<1>1. IsWellFoundedOn(R, Nat)
    BY NatLessThanWellFounded DEF OpToRel
<1>2. \A x, y \in Nat : y < x => <<y, x>> \in R
    OBVIOUS
<1> HIDE DEF R
<1>3. PICK x \in S : \A y \in S : ~(<<y, x>> \in R)
    BY <1>1, WFMin
<1>4. ASSUME NEW y \in S PROVE x <= y
    <2>1. x \in Nat /\ y \in Nat
        OBVIOUS
    <2>2. ~(y < x)
        BY <1>2, <1>3, <2>1
    <2>3. QED BY <2>1, <2>2
<1>5. QED BY <1>4

LEMMA MinIsLeast ==
    ASSUME NEW S, S \subseteq Nat, S # {}
    PROVE  Min(S) \in S /\ \A y \in S : Min(S) <= y
BY LeastExists DEF Min

IsInserted(r, s, i, e) ==
    /\ Len(r) = Len(s) + 1
    /\ \A j \in 1..(Len(s) + 1) :
           r[j] = IF j < i THEN s[j] ELSE IF j = i THEN e ELSE s[j - 1]

LEMMA InsertFacts ==
    ASSUME NEW T, NEW s \in Seq(T), NEW e \in T, NEW i \in 1..(Len(s) + 1)
    PROVE  InsertAt(s, i, e) \in Seq(T) /\ IsInserted(InsertAt(s, i, e), s, i, e)
<1> DEFINE a == SubSeq(s, 1, i - 1)
           b == SubSeq(s, i, Len(s))
           c == a \o <<e>>
<1>1. /\ a \in Seq(T) /\ Len(a) = i - 1
      /\ \A j \in 1..(i - 1) : a[j] = s[j]
    BY SubSeqProperties
<1>2. /\ b \in Seq(T) /\ Len(b) = Len(s) - i + 1
      /\ \A j \in 1..(Len(s) - i + 1) : b[j] = s[i + j - 1]
    BY SubSeqProperties
<1> HIDE DEF a, b
<1>3. c \in Seq(T) /\ Len(c) = i /\ \A j \in 1..i : c[j] = IF j < i THEN s[j] ELSE e
    BY <1>1, ConcatProperties
<1> HIDE DEF c
<1>4. /\ c \o b \in Seq(T) /\ Len(c \o b) = Len(s) + 1
      /\ \A j \in 1..(Len(s) + 1) : (c \o b)[j] = IF j <= i THEN c[j] ELSE b[j - i]
    BY <1>2, <1>3, ConcatProperties
<1>5. ASSUME NEW j \in 1..(Len(s) + 1)
      PROVE  (c \o b)[j] = IF j < i THEN s[j] ELSE IF j = i THEN e ELSE s[j - 1]
    BY <1>2, <1>3, <1>4
<1>6. QED BY <1>4, <1>5 DEF a, b, c, InsertAt, IsInserted

IsRemoved(r, s, i) ==
    /\ Len(r) = Len(s) - 1
    /\ \A j \in 1..(Len(s) - 1) : r[j] = IF j < i THEN s[j] ELSE s[j + 1]

LEMMA RemoveFacts ==
    ASSUME NEW T, NEW s \in Seq(T), NEW i \in 1..Len(s)
    PROVE  RemoveAt(s, i) \in Seq(T) /\ IsRemoved(RemoveAt(s, i), s, i)
<1> DEFINE a == SubSeq(s, 1, i - 1)
           b == SubSeq(s, i + 1, Len(s))
<1>1. /\ a \in Seq(T) /\ Len(a) = i - 1
      /\ \A j \in 1..(i - 1) : a[j] = s[j]
    BY SubSeqProperties
<1>2. /\ b \in Seq(T) /\ Len(b) = Len(s) - i
      /\ \A j \in 1..(Len(s) - i) : b[j] = s[i + j]
    BY SubSeqProperties
<1> HIDE DEF a, b
<1>3. /\ a \o b \in Seq(T) /\ Len(a \o b) = Len(a) + Len(b)
      /\ \A j \in 1..(Len(a) + Len(b)) :
           (a \o b)[j] = IF j <= Len(a) THEN a[j] ELSE b[j - Len(a)]
    BY <1>1, <1>2, ConcatProperties
<1>4. Len(a) + Len(b) = Len(s) - 1
    BY <1>1, <1>2
<1>5. ASSUME NEW j \in 1..(Len(s) - 1)
      PROVE  (a \o b)[j] = IF j < i THEN s[j] ELSE s[j + 1]
    <2>1. CASE j < i
        BY <1>1, <1>3, <1>4, <2>1
    <2>2. CASE ~(j < i)
        <3>1. /\ (a \o b)[j] = b[j - Len(a)] /\ Len(a) = i - 1
              /\ j - Len(a) \in 1..(Len(s) - i)
            BY <1>1, <1>3, <1>4, <2>2
        <3>2. b[j - Len(a)] = s[i + (j - Len(a))]
            BY <1>2, <3>1
        <3>3. i + (j - Len(a)) = j + 1
            BY <3>1
        <3>4. QED BY <2>2, <3>1, <3>2, <3>3
    <2>3. QED BY <2>1, <2>2
<1>6. QED BY <1>3, <1>4, <1>5 DEF a, b, RemoveAt, IsRemoved
-----------------------------------------------------------------------------

Tick == 0..RT_TICK_MAX

M == RT_TICK_MAX + 1

(* How far beyond its time a listed timer is, negative before.             *)
Late(t) == age[t] - init_tick[t]

TypeInv ==
    /\ tick \in Tick
    /\ list \in Seq(Timers)
    /\ called \in Timers \union {None}
    /\ onTemp \in BOOLEAN /\ checking \in BOOLEAN
    /\ onTemp => called # None
    /\ called # None => checking
    /\ checking => current_tick \in Tick

Distinct(s) == \A i, j \in DOMAIN s : s[i] = s[j] => i = j

ListInv ==
    /\ Distinct(list)
    /\ activated = Listed \union (IF onTemp /\ called \in Periodic THEN {called} ELSE {})
    /\ onTemp => called \notin Listed

(* Deadlines, which wrap, and ages, which do not, tell the same.           *)
AgeInv ==
    /\ timeout_tick \in [Listed -> Tick]
    /\ age \in [Listed -> Nat]
    /\ \A t \in Listed :
           /\ Late(t) <= MaxLag
           /\ Late(t) >= 0 => Minus(tick, timeout_tick[t]) = Late(t)
           /\ Late(t) < 0 => Minus(tick, timeout_tick[t]) = Late(t) + M

(* Nothing was started since rt_timer_check has read the tick.             *)
CheckInv ==
    checking /\ called = None => \A t \in Listed : Minus(tick, current_tick) <= age[t]

OrderInv == \A i, j \in DOMAIN list : i < j => Late(list[j]) <= Late(list[i])

IInv == TypeInv /\ ListInv /\ AgeInv /\ CheckInv /\ OrderInv

-----------------------------------------------------------------------------
(* Arithmetic of the tick *)

LEMMA Bounds ==
    /\ RT_TICK_MAX \in Nat /\ MaxLag \in Nat /\ M \in Nat \ {0} /\ Half \in Nat
    /\ Half + Half <= M
    /\ \A t \in Timers : init_tick[t] \in Nat \ {0} /\ init_tick[t] + MaxLag < Half
BY TimerAssumption DEF M, Half

LEMMA MinusIs ==
    ASSUME NEW a \in Tick, NEW b \in Tick
    PROVE  Minus(a, b) = IF b <= a THEN a - b ELSE a - b + M
BY Bounds DEF Minus, M, Tick

LEMMA SumIs ==
    ASSUME NEW a \in Tick, NEW n \in 0..RT_TICK_MAX
    PROVE  (a + n) % M = IF a + n <= RT_TICK_MAX THEN a + n ELSE a + n - M
BY Bounds DEF M, Tick

-----------------------------------------------------------------------------
(* Sequences without repetitions *)

LEMMA LengthIsCardinality ==
    ASSUME NEW T, NEW s \in Seq(T), Distinct(s)
    PROVE  Cardinality(ToSet(s)) = Len(s)
<1>1. s \in Bijection(1..Len(s), ToSet(s))
    BY DEF Bijection, Injection, IsInjective, Surjection, ToSet, Distinct
<1>2. ExistsBijection(1..Len(s), ToSet(s))
    BY <1>1 DEF ExistsBijection
<1>3. IsFiniteSet(1..Len(s)) /\ Cardinality(1..Len(s)) = Len(s)
    <2>1. Len(s) \in Nat
        OBVIOUS
    <2>2. /\ IsFiniteSet(1..Len(s))
          /\ Cardinality(1..Len(s)) = IF 1 > Len(s) THEN 0 ELSE Len(s) - 1 + 1
        BY <2>1, FS_Interval
    <2>3. QED BY <2>1, <2>2
<1>4. QED BY <1>2, <1>3, FS_Bijection

LEMMA InsertDistinct ==
    ASSUME NEW T, NEW s \in Seq(T), NEW e \in T, NEW i \in 1..(Len(s) + 1),
           Distinct(s), e \notin ToSet(s)
    PROVE  /\ Distinct(InsertAt(s, i, e))
           /\ ToSet(InsertAt(s, i, e)) = ToSet(s) \union {e}
<1> DEFINE r == InsertAt(s, i, e)
<1>1. /\ r \in Seq(T) /\ Len(r) = Len(s) + 1
      /\ \A j \in 1..(Len(s) + 1) :
           r[j] = IF j < i THEN s[j] ELSE IF j = i THEN e ELSE s[j - 1]
    <2>1. r \in Seq(T) /\ IsInserted(r, s, i, e)
        BY InsertFacts
    <2>2. QED BY <2>1 DEF IsInserted
<1> HIDE DEF r
<1>2. Distinct(r)
    <2>1. \A j \in 1..Len(s) : s[j] # e
        BY DEF ToSet
    <2>2. \A j, k \in 1..Len(s) : s[j] = s[k] => j = k
        BY DEF Distinct
    <2>3. ASSUME NEW j \in 1..(Len(s) + 1), NEW k \in 1..(Len(s) + 1), r[j] = r[k]
          PROVE  j = k
        <3>1. CASE j = i \/ k = i
            BY <1>1, <2>1, <2>3, <3>1
        <3>2. CASE j # i /\ k # i
            <4> DEFINE p(x) == IF x < i THEN x ELSE x - 1
            <4>1. /\ p(j) \in 1..Len(s) /\ p(k) \in 1..Len(s)
                  /\ r[j] = s[p(j)] /\ r[k] = s[p(k)]
                BY <1>1, <3>2
            <4>2. p(j) = p(k)
                BY <2>2, <2>3, <4>1
            <4>3. QED BY <3>2, <4>2
        <3>3. QED BY <3>1, <3>2
    <2>4. QED BY <1>1, <2>3 DEF Distinct
<1>3. ToSet(r) \subseteq ToSet(s) \union {e}
    BY <1>1 DEF ToSet
<1>4. e \in ToSet(r)
    <2>1. i \in DOMAIN r /\ r[i] = e
        BY <1>1
    <2>2. QED BY <2>1 DEF ToSet
<1>5. ToSet(s) \subseteq ToSet(r)
    <2> SUFFICES ASSUME NEW j \in DOMAIN s PROVE s[j] \in ToSet(r)
        BY DEF ToSet
    <2>1. CASE j < i
        BY <1>1, <2>1 DEF ToSet
    <2>2. CASE ~(j < i)
        <3>1. j + 1 \in DOMAIN r /\ r[j + 1] = s[j]
            BY <1>1, <2>2
        <3>2. QED BY <3>1 DEF ToSet
    <2>3. QED BY <2>1, <2>2
<1>6. QED BY <1>2, <1>3, <1>4, <1>5 DEF r

LEMMA RemoveDistinct ==
    ASSUME NEW T, NEW s \in Seq(T), NEW i \in 1..Len(s), Distinct(s)
    PROVE  /\ Distinct(RemoveAt(s, i))
           /\ ToSet(RemoveAt(s, i)) = ToSet(s) \ {s[i]}
<1> DEFINE r == RemoveAt(s, i)
<1>1. /\ r \in Seq(T) /\ Len(r) = Len(s) - 1
      /\ \A j \in 1..(Len(s) - 1) : r[j] = IF j < i THEN s[j] ELSE s[j + 1]
    <2>1. r \in Seq(T) /\ IsRemoved(r, s, i)
        BY RemoveFacts
    <2>2. QED BY <2>1 DEF IsRemoved
<1> HIDE DEF r
<1>2. Distinct(r)
    <2>1. \A j, k \in 1..Len(s) : s[j] = s[k] => j = k
        BY DEF Distinct
    <2>2. ASSUME NEW j \in 1..(Len(s) - 1), NEW k \in 1..(Len(s) - 1), r[j] = r[k]
          PROVE  j = k
        <3> DEFINE p(x) == IF x < i THEN x ELSE x + 1
        <3>1. /\ p(j) \in 1..Len(s) /\ p(k) \in 1..Len(s)
              /\ r[j] = s[p(j)] /\ r[k] = s[p(k)]
            BY <1>1
        <3>2. p(j) = p(k)
            BY <2>1, <2>2, <3>1
        <3>3. QED BY <3>2
    <2>3. QED BY <1>1, <2>2 DEF Distinct
<1>3. ToSet(r) \subseteq ToSet(s) \ {s[i]}
    BY <1>1 DEF ToSet, Distinct
<1>4. ASSUME NEW j \in DOMAIN s, s[j] # s[i] PROVE s[j] \in ToSet(r)
    <2>1. CASE j < i
        BY <1>1, <2>1 DEF ToSet
    <2>2. CASE j > i
        <3>1. j - 1 \in DOMAIN r /\ r[j - 1] = s[j]
            BY <1>1, <2>2
        <3>2. QED BY <3>1 DEF ToSet
    <2>3. QED BY <1>4, <2>1, <2>2
<1>5. ToSet(s) \ {s[i]} \subseteq ToSet(r)
    BY <1>4 DEF ToSet
<1>6. QED BY <1>2, <1>3, <1>5 DEF r

(* What is left of a list keeps its order.                                 *)
InOrderOf(r, s) ==
    \A j, k \in 1..(Len(s) - 1) : j < k =>
        \E m, n \in DOMAIN s : m < n /\ r[j] = s[m] /\ r[k] = s[n]

LEMMA RemoveKeepsOrder ==
    ASSUME NEW T, NEW s \in Seq(T), NEW i \in 1..Len(s)
    PROVE  InOrderOf(RemoveAt(s, i), s)
<1> SUFFICES ASSUME NEW j \in 1..(Len(s) - 1), NEW k \in 1..(Len(s) - 1), j < k
             PROVE  \E m, n \in DOMAIN s :
                      m < n /\ RemoveAt(s, i)[j] = s[m] /\ RemoveAt(s, i)[k] = s[n]
    BY DEF InOrderOf
<1> DEFINE p(x) == IF x < i THEN x ELSE x + 1
<1>1. RemoveAt(s, i)[j] = s[p(j)] /\ RemoveAt(s, i)[k] = s[p(k)]
    BY RemoveFacts DEF IsRemoved
<1>2. p(j) \in DOMAIN s /\ p(k) \in DOMAIN s /\ p(j) < p(k)
    OBVIOUS
<1>3. QED BY <1>1, <1>2

-----------------------------------------------------------------------------
(* The operations on the list *)

LEMMA RemovedFacts ==
    ASSUME TypeInv, ListInv, OrderInv, NEW t
    PROVE  /\ Removed(t) \in Seq(Timers) /\ Distinct(Removed(t))
           /\ ToSet(Removed(t)) = Listed \ {t}
           /\ \A j, k \in DOMAIN Removed(t) :
                j < k => Late(Removed(t)[k]) <= Late(Removed(t)[j])
<1>1. CASE t \notin Listed
    BY <1>1 DEF Removed, TypeInv, ListInv, OrderInv, Listed
<1>2. CASE t \in Listed
    <2> DEFINE i == CHOOSE x \in DOMAIN list : list[x] = t
    <2>1. i \in 1..Len(list) /\ list[i] = t /\ list \in Seq(Timers)
        BY <1>2 DEF Listed, ToSet, TypeInv
    <2>2. Removed(t) = RemoveAt(list, i)
        BY <1>2 DEF Removed
    <2> HIDE DEF i
    <2>3. /\ RemoveAt(list, i) \in Seq(Timers)
          /\ Len(RemoveAt(list, i)) = Len(list) - 1
        BY <2>1, RemoveFacts DEF IsRemoved
    <2>4. /\ Distinct(RemoveAt(list, i))
          /\ ToSet(RemoveAt(list, i)) = ToSet(list) \ {list[i]}
        BY <2>1, RemoveDistinct DEF ListInv
    <2>5. ASSUME NEW j \in DOMAIN RemoveAt(list, i), NEW k \in DOMAIN RemoveAt(list, i),
                 j < k
          PROVE  Late(RemoveAt(list, i)[k]) <= Late(RemoveAt(list, i)[j])
        <3>1. j \in 1..(Len(list) - 1) /\ k \in 1..(Len(list) - 1)
            BY <2>3
        <3>2. \E m, n \in DOMAIN list :
                m < n /\ RemoveAt(list, i)[j] = list[m] /\ RemoveAt(list, i)[k] = list[n]
            <4>1. InOrderOf(RemoveAt(list, i), list)
                BY <2>1, RemoveKeepsOrder
            <4>2. QED BY <2>5, <3>1, <4>1 DEF InOrderOf
        <3>3. QED BY <3>2 DEF OrderInv
    <2>6. QED BY <2>1, <2>2, <2>3, <2>4, <2>5 DEF Listed
<1>3. QED BY <1>1, <1>2

(* What the walk compares is what is left to each timer's time.            *)
LEMMA LaterIsLater ==
    ASSUME TypeInv, AgeInv, NEW t \in Timers, NEW u \in Listed, u \in Timers
    PROVE  Minus(timeout_tick[u], (tick + init_tick[t]) % (RT_TICK_MAX + 1)) \in 1..(Half - 1)
             <=> Late(u) < -init_tick[t]
<1> DEFINE d == (tick + init_tick[t]) % (RT_TICK_MAX + 1)
<1>1. /\ tick \in Tick /\ timeout_tick[u] \in Tick /\ age[u] \in Nat
      /\ init_tick[t] \in 0..RT_TICK_MAX /\ init_tick[t] < Half
      /\ init_tick[u] \in Nat /\ init_tick[u] < Half
      /\ Late(u) \in Int /\ Late(u) >= -init_tick[u] /\ Late(u) <= MaxLag
      /\ init_tick[t] + MaxLag < Half
    BY Bounds DEF TypeInv, AgeInv, M, Half, Late
<1>2. d = IF tick + init_tick[t] <= RT_TICK_MAX THEN tick + init_tick[t]
          ELSE tick + init_tick[t] - M
    BY <1>1, SumIs DEF M
<1>3. d \in Tick
    BY <1>1, <1>2, Bounds DEF Tick, M
<1>4. Minus(timeout_tick[u], d) = IF d <= timeout_tick[u] THEN timeout_tick[u] - d
                                  ELSE timeout_tick[u] - d + M
    BY <1>1, <1>3, MinusIs
<1>5. Minus(tick, timeout_tick[u]) = IF timeout_tick[u] <= tick THEN tick - timeout_tick[u]
                                     ELSE tick - timeout_tick[u] + M
    BY <1>1, MinusIs
<1>6. /\ Late(u) >= 0 => Minus(tick, timeout_tick[u]) = Late(u)
      /\ Late(u) < 0 => Minus(tick, timeout_tick[u]) = Late(u) + M
    BY DEF AgeInv
<1> HIDE DEF d
<1>7. Minus(timeout_tick[u], d) \in 1..(Half - 1) <=> Late(u) < -init_tick[t]
    BY ONLY <1>1, <1>2, <1>3, <1>4, <1>5, <1>6, Bounds DEF Tick, M
<1>8. QED BY <1>7 DEF d

(* A timer is put behind those that are not later and before the others.   *)
LEMMA InsertedFacts ==
    ASSUME TypeInv, AgeInv, NEW t \in Timers,
           NEW queue \in Seq(Timers), Distinct(queue), ToSet(queue) = Listed \ {t},
           \A j, k \in DOMAIN queue : j < k => Late(queue[k]) <= Late(queue[j])
    PROVE  \E i \in 1..(Len(queue) + 1) :
             /\ Inserted(queue, t, (tick + init_tick[t]) % (RT_TICK_MAX + 1))
                  = InsertAt(queue, i, t)
             /\ \A k \in DOMAIN queue : k < i => Late(queue[k]) >= -init_tick[t]
             /\ \A k \in DOMAIN queue : k >= i => Late(queue[k]) < -init_tick[t]
<1> DEFINE d == (tick + init_tick[t]) % (RT_TICK_MAX + 1)
           later == {k \in DOMAIN queue : Minus(timeout_tick[queue[k]], d) \in 1..(Half - 1)}
           i == IF later = {} THEN Len(queue) + 1 ELSE Min(later)
<1>1. \A k \in DOMAIN queue :
        /\ k \in later <=> Late(queue[k]) < -init_tick[t]
        /\ Late(queue[k]) \in Int
    <2> SUFFICES ASSUME NEW k \in DOMAIN queue
                 PROVE  /\ k \in later <=> Late(queue[k]) < -init_tick[t]
                        /\ Late(queue[k]) \in Int
        OBVIOUS
    <2>1. queue[k] \in Listed /\ queue[k] \in Timers
        BY DEF ToSet
    <2>2. Minus(timeout_tick[queue[k]], d) \in 1..(Half - 1) <=> Late(queue[k]) < -init_tick[t]
        BY <2>1, LaterIsLater
    <2>3. Late(queue[k]) \in Int
        BY <2>1, Bounds DEF AgeInv, Late
    <2>4. QED BY <2>2, <2>3
<1>2. Inserted(queue, t, d) = InsertAt(queue, i, t)
    BY DEF Inserted
<1>3. later \subseteq DOMAIN queue /\ later \subseteq Nat
    OBVIOUS
<1>4. init_tick[t] \in Nat
    BY Bounds
<1> HIDE DEF d, later
<1>5. CASE later = {}
    <2>1. i = Len(queue) + 1
        BY <1>5
    <2> HIDE DEF i
    <2>2. i \in 1..(Len(queue) + 1) /\ \A k \in DOMAIN queue : ~(k >= i)
        BY <2>1
    <2>3. \A k \in DOMAIN queue : Late(queue[k]) >= -init_tick[t]
        BY <1>1, <1>4, <1>5
    <2>4. QED BY <1>2, <2>2, <2>3 DEF d
<1>6. CASE later # {}
    <2>1. i \in later /\ \A k \in later : i <= k
        BY <1>3, <1>6, MinIsLeast
    <2> HIDE DEF i
    <2>2. i \in 1..Len(queue)
        BY <1>3, <2>1
    <2>3. \A k \in DOMAIN queue : k < i => Late(queue[k]) >= -init_tick[t]
        BY <1>1, <1>4, <2>1, <2>2
    <2>4. \A k \in DOMAIN queue : k >= i => Late(queue[k]) < -init_tick[t]
        <3>1. Late(queue[i]) < -init_tick[t] /\ Late(queue[i]) \in Int
            BY <1>1, <2>1, <2>2
        <3>2. QED BY <1>1, <1>4, <2>2, <3>1
    <2>5. QED BY <1>2, <2>2, <2>3, <2>4 DEF d
<1>7. QED BY <1>5, <1>6

LEMMA StartedKeeps ==
    ASSUME TypeInv, ListInv, AgeInv, OrderInv, NEW t \in Timers, Started(t), tick' = tick
    PROVE  /\ list' \in Seq(Timers) /\ Distinct(list') /\ Listed' = Listed \union {t}
           /\ AgeInv' /\ OrderInv'
           /\ age'[t] = 0 /\ \A u \in Listed \ {t} : age'[u] = age[u]
           /\ activated' = activated \union {t}
<1> DEFINE d == (tick + init_tick[t]) % (RT_TICK_MAX + 1)
           q == Removed(t)
           L(u) == age'[u] - init_tick[u]
<1>1. /\ q \in Seq(Timers) /\ Distinct(q) /\ ToSet(q) = Listed \ {t}
      /\ \A j, k \in DOMAIN q : j < k => Late(q[k]) <= Late(q[j])
    BY RemovedFacts
<1>2. PICK i \in 1..(Len(q) + 1) :
        /\ Inserted(q, t, d) = InsertAt(q, i, t)
        /\ \A k \in DOMAIN q : k < i => Late(q[k]) >= -init_tick[t]
        /\ \A k \in DOMAIN q : k >= i => Late(q[k]) < -init_tick[t]
    <2> HIDE DEF q
    <2>1. QED BY <1>1, InsertedFacts
<1>3. /\ list' = InsertAt(q, i, t)
      /\ timeout_tick' = [u \in DOMAIN timeout_tick \union {t} |->
                             IF u = t THEN d ELSE timeout_tick[u]]
      /\ age' = [u \in DOMAIN age \union {t} |-> IF u = t THEN 0 ELSE age[u]]
      /\ activated' = activated \union {t}
    BY <1>2 DEF Started
<1> HIDE DEF q
<1>4. /\ list' \in Seq(Timers) /\ Len(list') = Len(q) + 1
      /\ \A j \in 1..(Len(q) + 1) :
           list'[j] = IF j < i THEN q[j] ELSE IF j = i THEN t ELSE q[j - 1]
    <2>1. /\ InsertAt(q, i, t) \in Seq(Timers) /\ Len(InsertAt(q, i, t)) = Len(q) + 1
          /\ \A j \in 1..(Len(q) + 1) :
               InsertAt(q, i, t)[j] = IF j < i THEN q[j] ELSE IF j = i THEN t ELSE q[j - 1]
        <3>1. InsertAt(q, i, t) \in Seq(Timers) /\ IsInserted(InsertAt(q, i, t), q, i, t)
            BY <1>1, <1>2, InsertFacts
        <3>2. QED BY <3>1 DEF IsInserted
    <2>2. QED BY <1>3, <2>1
<1>5. Distinct(list') /\ ToSet(list') = ToSet(q) \union {t}
    <2>1. t \notin ToSet(q)
        BY <1>1
    <2>2. QED BY <1>1, <1>2, <1>3, <2>1, InsertDistinct
<1>6. Listed' = Listed \union {t}
    BY <1>1, <1>5 DEF Listed
<1>7. /\ age'[t] = 0 /\ \A u \in Listed \ {t} : age'[u] = age[u]
      /\ timeout_tick'[t] = d /\ \A u \in Listed \ {t} : timeout_tick'[u] = timeout_tick[u]
      /\ DOMAIN age = Listed /\ DOMAIN timeout_tick = Listed
    BY <1>3 DEF AgeInv
<1>8. /\ init_tick[t] \in Nat \ {0} /\ init_tick[t] < Half /\ Half + Half <= M /\ M \in Nat
      /\ RT_TICK_MAX \in Nat /\ MaxLag \in Nat /\ Half \in Nat
    BY Bounds
<1>9. d \in Tick /\ Minus(tick, d) = M - init_tick[t]
    <2>1. init_tick[t] \in 0..RT_TICK_MAX /\ tick \in Tick
        BY <1>8 DEF M, TypeInv
    <2>2. d = IF tick + init_tick[t] <= RT_TICK_MAX THEN tick + init_tick[t]
              ELSE tick + init_tick[t] - M
        BY <2>1, SumIs DEF M
    <2> HIDE DEF d
    <2>3. d \in Tick
        BY <1>8, <2>1, <2>2 DEF Tick, M
    <2>4. Minus(tick, d) = IF d <= tick THEN tick - d ELSE tick - d + M
        BY <2>1, <2>3, MinusIs
    <2>5. tick \in Int /\ d \in Int /\ init_tick[t] < M /\ M \in Int
        BY <1>8, <2>1, <2>3 DEF Tick, M
    <2>6. CASE tick + init_tick[t] <= RT_TICK_MAX
        BY ONLY <1>8, <2>2, <2>3, <2>4, <2>5, <2>6
    <2>7. CASE ~(tick + init_tick[t] <= RT_TICK_MAX)
        BY ONLY <1>8, <2>2, <2>3, <2>4, <2>5, <2>7
    <2>8. QED BY <2>6, <2>7
<1> HIDE DEF d
<1>10. L(t) = -init_tick[t] /\ \A u \in Listed \ {t} : L(u) = Late(u)
    BY <1>7, <1>8 DEF Late
<1>11. AgeInv'
    <2>1. timeout_tick' \in [Listed' -> Tick] /\ age' \in [Listed' -> Nat]
        BY <1>3, <1>6, <1>7, <1>9 DEF AgeInv
    <2>2. ASSUME NEW u \in Listed'
          PROVE  /\ L(u) <= MaxLag
                 /\ L(u) >= 0 => Minus(tick, timeout_tick'[u]) = L(u)
                 /\ L(u) < 0 => Minus(tick, timeout_tick'[u]) = L(u) + M
        <3>1. CASE u = t
            <4>1. L(u) = -init_tick[t] /\ timeout_tick'[u] = d
                BY <1>7, <1>10, <3>1
            <4>2. QED BY ONLY <1>8, <1>9, <4>1
        <3>2. CASE u # t
            BY <1>6, <1>7, <1>10, <3>2 DEF AgeInv
        <3>3. QED BY <3>1, <3>2
    <2>3. QED BY <2>1, <2>2 DEF AgeInv, Late
<1>12. OrderInv'
    <2>1. ASSUME NEW j \in 1..(Len(q) + 1), NEW k \in 1..(Len(q) + 1), j < k
          PROVE  L(list'[k]) <= L(list'[j])
        <3>1. \A n \in DOMAIN q : L(q[n]) = Late(q[n]) /\ Late(q[n]) \in Int
            <4> TAKE n \in DOMAIN q
            <4>1. q[n] \in Listed \ {t} /\ q[n] \in Timers
                BY <1>1 DEF ToSet
            <4>2. QED BY <1>10, <4>1, Bounds DEF AgeInv, Late
        <3>2. CASE j = i
            <4>1. list'[j] = t /\ list'[k] = q[k - 1] /\ k - 1 \in DOMAIN q /\ k - 1 >= i
                BY <1>1, <1>4, <2>1, <3>2
            <4>2. QED BY <1>2, <1>8, <1>10, <3>1, <4>1
        <3>3. CASE k = i
            <4>1. list'[k] = t /\ list'[j] = q[j] /\ j \in DOMAIN q /\ j < i
                BY <1>1, <1>2, <1>4, <2>1, <3>3
            <4>2. QED BY <1>2, <1>8, <1>10, <3>1, <4>1
        <3>4. CASE j # i /\ k # i
            <4> DEFINE p(x) == IF x < i THEN x ELSE x - 1
            <4>1. /\ list'[j] = q[p(j)] /\ list'[k] = q[p(k)]
                  /\ p(j) \in DOMAIN q /\ p(k) \in DOMAIN q /\ p(j) < p(k)
                BY <1>1, <1>4, <2>1, <3>4
            <4> HIDE DEF p
            <4>2. QED BY <1>1, <3>1, <4>1
        <3>5. QED BY <3>2, <3>3, <3>4
    <2>2. DOMAIN list' = 1..(Len(q) + 1)
        BY <1>4
    <2>3. QED BY <2>1, <2>2 DEF OrderInv, Late
<1>13. QED BY <1>3, <1>4, <1>5, <1>6, <1>7, <1>11, <1>12

LEMMA ForgottenKeeps ==
    ASSUME TypeInv, ListInv, AgeInv, OrderInv, NEW t,
           list' = Removed(t), Forgotten(t), tick' = tick
    PROVE  /\ list' \in Seq(Timers) /\ Distinct(list') /\ Listed' = Listed \ {t}
           /\ AgeInv' /\ OrderInv'
           /\ \A u \in Listed' : age'[u] = age[u]
<1> DEFINE q == Removed(t)
           L(u) == age'[u] - init_tick[u]
<1>1. /\ q \in Seq(Timers) /\ Distinct(q) /\ ToSet(q) = Listed \ {t}
      /\ \A j, k \in DOMAIN q : j < k => Late(q[k]) <= Late(q[j])
    BY RemovedFacts
<1>2. /\ DOMAIN age = Listed /\ DOMAIN timeout_tick = Listed
      /\ age' = [u \in Listed \ {t} |-> age[u]]
      /\ timeout_tick' = [u \in Listed \ {t} |-> timeout_tick[u]]
    BY DEF Forgotten, Restrict, AgeInv
<1>3. list' = q
    OBVIOUS
<1> HIDE DEF q
<1>4. list' \in Seq(Timers) /\ Distinct(list') /\ Listed' = Listed \ {t}
    BY <1>1, <1>3 DEF Listed
<1>5. \A u \in Listed \ {t} : /\ age'[u] = age[u] /\ L(u) = Late(u)
                              /\ timeout_tick'[u] = timeout_tick[u]
    BY <1>2 DEF Late
<1>6. AgeInv'
    BY <1>2, <1>4, <1>5 DEF AgeInv, Late
<1>7. OrderInv'
    <2>1. \A n \in DOMAIN q : L(q[n]) = Late(q[n])
        BY <1>1, <1>5 DEF ToSet
    <2>2. \A j, k \in DOMAIN q : j < k => L(q[k]) <= L(q[j])
        BY <1>1, <2>1
    <2>3. QED BY <1>3, <2>2 DEF OrderInv, Late
<1>8. QED BY <1>4, <1>5, <1>6, <1>7

LEMMA TailIsRemoved ==
    ASSUME TypeInv, ListInv, list # <<>>
    PROVE  /\ Tail(list) = Removed(Head(list))
           /\ Head(list) = list[1] /\ Head(list) \in Listed /\ Head(list) \in Timers
<1>1. list \in Seq(Timers) /\ Distinct(list) /\ 1 \in DOMAIN list /\ Head(list) = list[1]
    BY DEF TypeInv, ListInv
<1>2. Head(list) \in Listed /\ Head(list) \in Timers
    BY <1>1 DEF Listed, ToSet
<1>3. Removed(Head(list)) = RemoveAt(list, 1)
    <2> DEFINE i == CHOOSE x \in DOMAIN list : list[x] = Head(list)
    <2>1. i \in DOMAIN list /\ list[i] = list[1]
        BY <1>1
    <2>2. i = 1
        BY <1>1, <2>1 DEF Distinct
    <2>3. QED BY <1>2, <2>2 DEF Removed
<1>4. /\ RemoveAt(list, 1) \in Seq(Timers) /\ Len(RemoveAt(list, 1)) = Len(list) - 1
      /\ \A j \in 1..(Len(list) - 1) :
           RemoveAt(list, 1)[j] = IF j < 1 THEN list[j] ELSE list[j + 1]
    <2>1. list \in Seq(Timers) /\ 1 \in 1..Len(list)
        BY <1>1
    <2>2. QED BY <2>1, RemoveFacts DEF IsRemoved
<1>5. /\ Tail(list) \in Seq(Timers) /\ Len(Tail(list)) = Len(list) - 1
      /\ \A j \in 1..Len(Tail(list)) : Tail(list)[j] = list[j + 1]
    BY <1>1, HeadTailProperties
<1>6. Tail(list) = RemoveAt(list, 1)
    <2> DEFINE a == Tail(list)
               b == RemoveAt(list, 1)
    <2>1. a \in Seq(Timers) /\ b \in Seq(Timers) /\ Len(a) = Len(b)
        BY <1>4, <1>5
    <2>2. \A j \in 1..Len(a) : a[j] = b[j]
        BY <1>4, <1>5
    <2> HIDE DEF a, b
    <2>3. a = b
        BY <2>1, <2>2, SeqEqual
    <2>4. QED BY <2>3 DEF a, b
<1>7. QED BY <1>1, <1>2, <1>3, <1>6

-----------------------------------------------------------------------------
(* The steps *)

LEMMA InitIInv == Init => IInv
<1> SUFFICES ASSUME Init PROVE IInv
    OBVIOUS
<1>1. Listed = {} /\ DOMAIN list = {} /\ list \in Seq(Timers)
    BY DEF Init, Listed, ToSet
<1>2. TypeInv /\ ListInv /\ OrderInv /\ CheckInv
    BY <1>1, TimerAssumption
       DEF Init, TypeInv, ListInv, OrderInv, CheckInv, Tick, Distinct
<1>3. AgeInv
    BY <1>1 DEF Init, AgeInv
<1>4. QED BY <1>2, <1>3 DEF IInv

LEMMA SysTickStep == IInv /\ SysTick_Handler => IInv'
<1> SUFFICES ASSUME IInv, SysTick_Handler PROVE IInv'
    OBVIOUS
<1> USE DEF IInv
<1>1. /\ tick' = (tick + 1) % M /\ tick \in Tick
      /\ list' = list /\ timeout_tick' = timeout_tick /\ Listed' = Listed
      /\ called' = called /\ checking' = checking /\ current_tick' = current_tick
      /\ activated' = activated /\ onTemp' = onTemp
      /\ age' = [t \in Listed |-> age[t] + 1]
      /\ \A t \in Listed : t \in Timers /\ age[t] < init_tick[t] + MaxLag
    BY DEF SysTick_Handler, checkVars, TypeInv, M, Listed, ToSet
<1>2. tick' \in Tick /\ tick' = IF tick = RT_TICK_MAX THEN 0 ELSE tick + 1
    <2>1. CASE RT_TICK_MAX = 0
        BY <1>1, <2>1 DEF M, Tick
    <2>2. CASE RT_TICK_MAX # 0
        <3>1. 1 \in 0..RT_TICK_MAX
            BY <2>2, Bounds
        <3>2. (tick + 1) % M = IF tick + 1 <= RT_TICK_MAX THEN tick + 1 ELSE tick + 1 - M
            BY <1>1, <3>1, SumIs
        <3>3. QED BY <1>1, <3>2, Bounds DEF M, Tick
    <2>3. QED BY <2>1, <2>2
<1>3. \A b \in Tick : Minus(tick', b) = IF Minus(tick, b) = RT_TICK_MAX THEN 0
                                        ELSE Minus(tick, b) + 1
    <2> TAKE b \in Tick
    <2>1. Minus(tick, b) = IF b <= tick THEN tick - b ELSE tick - b + M
        BY <1>1, MinusIs
    <2>2. Minus(tick', b) = IF b <= tick' THEN tick' - b ELSE tick' - b + M
        BY <1>2, MinusIs
    <2>3. CASE tick = RT_TICK_MAX
        BY <1>1, <1>2, <2>1, <2>2, <2>3, Bounds DEF M, Tick
    <2>4. CASE tick # RT_TICK_MAX
        BY <1>1, <1>2, <2>1, <2>2, <2>4, Bounds DEF M, Tick
    <2>5. QED BY <2>3, <2>4
<1> DEFINE L(u) == age'[u] - init_tick[u]
<1>4. \A t \in Listed :
        /\ age[t] \in Nat /\ age'[t] = age[t] + 1 /\ L(t) = Late(t) + 1
        /\ Late(t) \in Int /\ Late(t) < MaxLag /\ Late(t) >= -init_tick[t]
        /\ init_tick[t] \in Nat /\ init_tick[t] < Half
    BY <1>1, Bounds DEF AgeInv, Late
<1>5. TypeInv' /\ ListInv'
    BY <1>1, <1>2 DEF TypeInv, ListInv
<1>6. AgeInv'
    <2>1. age' \in [Listed -> Nat]
        BY <1>1, <1>4
    <2>2. ASSUME NEW t \in Listed
          PROVE  /\ L(t) <= MaxLag
                 /\ L(t) >= 0 => Minus(tick', timeout_tick[t]) = L(t)
                 /\ L(t) < 0 => Minus(tick', timeout_tick[t]) = L(t) + M
        <3> DEFINE m == Minus(tick, timeout_tick[t])
                   l == Late(t)
        <3>1. Minus(tick', timeout_tick[t]) = IF m = RT_TICK_MAX THEN 0 ELSE m + 1
            BY <1>3 DEF AgeInv
        <3>2. (l >= 0 => m = l) /\ (l < 0 => m = l + M)
            BY DEF AgeInv
        <3>3. l \in Int /\ l < MaxLag /\ L(t) = l + 1 /\ l >= -Half
            BY <1>4, Bounds
        <3>4. MaxLag < Half
            BY <1>1, <1>4, Bounds
        <3> HIDE DEF m, l, L
        <3>5. QED BY <3>1, <3>2, <3>3, <3>4, Bounds DEF M
    <2>3. QED BY <1>1, <2>1, <2>2 DEF AgeInv, Late
<1>7. CheckInv'
    <2> SUFFICES ASSUME checking, called = None, NEW t \in Listed
                 PROVE  Minus(tick', current_tick) <= age[t] + 1
        BY <1>1, <1>4 DEF CheckInv
    <2>1. current_tick \in Tick /\ Minus(tick, current_tick) <= age[t]
        BY DEF TypeInv, CheckInv
    <2>2. Minus(tick, current_tick) \in Int
        BY <1>1, <2>1, MinusIs, Bounds DEF Tick, M
    <2>3. QED BY <1>3, <1>4, <2>1, <2>2
<1>8. OrderInv'
    <2>1. \A j \in DOMAIN list : list[j] \in Listed
        BY DEF Listed, ToSet
    <2>2. QED BY <1>1, <1>4, <2>1 DEF OrderInv, Late
<1>9. QED BY <1>5, <1>6, <1>7, <1>8

LEMMA StartStep == ASSUME IInv, NEW t \in Timers, rt_timer_start(t) PROVE IInv'
<1> USE DEF IInv
<1>1. /\ Started(t) /\ tick' = tick /\ onTemp' = (onTemp /\ t # called) /\ Caller
      /\ called' = called /\ checking' = checking /\ current_tick' = current_tick
    BY DEF rt_timer_start, LeavesTemp, checkVars
<1>2. /\ list' \in Seq(Timers) /\ Distinct(list') /\ Listed' = Listed \union {t}
      /\ AgeInv' /\ OrderInv' /\ activated' = activated \union {t}
    BY <1>1, StartedKeeps
<1>3. TypeInv'
    BY <1>1, <1>2 DEF TypeInv
<1>4. ListInv'
    BY <1>1, <1>2 DEF ListInv
<1>5. CheckInv'
    BY <1>1 DEF CheckInv, Caller
<1>6. QED BY <1>2, <1>3, <1>4, <1>5

LEMMA UnlistedStep == ASSUME IInv, NEW t \in Timers, Caller, Unlisted(t) PROVE IInv'
<1> USE DEF IInv
<1>1. /\ list' = Removed(t) /\ Forgotten(t) /\ tick' = tick
      /\ onTemp' = (onTemp /\ t # called) /\ activated' = activated \ {t}
      /\ called' = called /\ checking' = checking /\ current_tick' = current_tick
    BY DEF Unlisted, LeavesTemp, checkVars
<1>2. /\ list' \in Seq(Timers) /\ Distinct(list') /\ Listed' = Listed \ {t}
      /\ AgeInv' /\ OrderInv'
    BY <1>1, ForgottenKeeps
<1>3. TypeInv'
    BY <1>1, <1>2 DEF TypeInv
<1>4. ListInv'
    BY <1>1, <1>2 DEF ListInv
<1>5. CheckInv'
    BY <1>1 DEF CheckInv, Caller
<1>6. QED BY <1>2, <1>3, <1>4, <1>5

LEMMA BeginCheckStep == IInv /\ BeginCheck => IInv'
<1> SUFFICES ASSUME IInv, BeginCheck PROVE IInv'
    OBVIOUS
<1> USE DEF IInv
<1>1. /\ checking' = TRUE /\ current_tick' = tick /\ tick' = tick /\ list' = list
      /\ timeout_tick' = timeout_tick /\ activated' = activated /\ called' = called
      /\ onTemp' = onTemp /\ age' = age /\ Listed' = Listed
    BY DEF BeginCheck, Listed
<1>2. TypeInv' /\ ListInv' /\ AgeInv' /\ OrderInv'
    BY <1>1 DEF TypeInv, ListInv, AgeInv, OrderInv, Late
<1>3. Minus(tick, tick) = 0
    BY MinusIs, Bounds DEF TypeInv, Tick
<1>4. CheckInv'
    BY <1>1, <1>3 DEF CheckInv, AgeInv
<1>5. QED BY <1>2, <1>4

LEMMA CallStep == ASSUME IInv, NEW t \in Timers, Call(t) PROVE IInv'
<1> USE DEF IInv
<1>1. /\ list # <<>> /\ t = Head(list) /\ list' = Tail(list) /\ Forgotten(t)
      /\ activated' = (IF t \in Periodic THEN activated ELSE activated \ {t})
      /\ called = None /\ called' = t /\ onTemp' = TRUE /\ checking
      /\ tick' = tick /\ checking' = checking /\ current_tick' = current_tick
    BY DEF Call, HeadIsDue
<1>2. list' = Removed(t) /\ t \in Listed
    BY <1>1, TailIsRemoved
<1>3. /\ list' \in Seq(Timers) /\ Distinct(list') /\ Listed' = Listed \ {t}
      /\ AgeInv' /\ OrderInv'
    BY <1>1, <1>2, ForgottenKeeps
<1>4. t # None
    BY TimerAssumption
<1>5. TypeInv'
    BY <1>1, <1>3, <1>4 DEF TypeInv
<1>6. ListInv'
    BY <1>1, <1>2, <1>3 DEF ListInv, TypeInv
<1>7. CheckInv'
    BY <1>1, <1>4 DEF CheckInv
<1>8. QED BY <1>3, <1>5, <1>6, <1>7

LEMMA EndCheckStep == IInv /\ EndCheck => IInv'
<1> SUFFICES ASSUME IInv, EndCheck PROVE IInv'
    OBVIOUS
<1> USE DEF IInv
<1>1. /\ checking' = FALSE /\ called = None /\ tick' = tick /\ list' = list
      /\ timeout_tick' = timeout_tick /\ activated' = activated /\ called' = called
      /\ onTemp' = onTemp /\ age' = age /\ Listed' = Listed
    BY DEF EndCheck, Listed
<1>2. QED BY <1>1 DEF TypeInv, ListInv, AgeInv, CheckInv, OrderInv, Late

LEMMA FunctionReturnsStep == IInv /\ FunctionReturns => IInv'
<1> SUFFICES ASSUME IInv, FunctionReturns PROVE IInv'
    OBVIOUS
<1> USE DEF IInv
<1>1. /\ called # None /\ called' = None /\ current_tick' = tick /\ onTemp' = FALSE
      /\ tick' = tick /\ checking' = checking /\ checking /\ called \in Timers
    BY DEF FunctionReturns, Returns, TypeInv
<1>2. Minus(tick, tick) = 0
    BY MinusIs, Bounds DEF TypeInv, Tick
<1>3. CASE onTemp /\ called \in Periodic /\ called \in activated
    <2>1. Started(called)
        BY <1>3 DEF FunctionReturns
    <2>2. /\ list' \in Seq(Timers) /\ Distinct(list') /\ Listed' = Listed \union {called}
          /\ AgeInv' /\ OrderInv' /\ activated' = activated \union {called}
        BY <1>1, <2>1, StartedKeeps
    <2>3. TypeInv' /\ ListInv'
        BY <1>1, <1>3, <2>2 DEF TypeInv, ListInv
    <2>4. CheckInv'
        BY <1>1, <1>2, <2>2 DEF CheckInv, AgeInv
    <2>5. QED BY <2>2, <2>3, <2>4
<1>4. CASE ~(onTemp /\ called \in Periodic /\ called \in activated)
    <2>1. /\ list' = list /\ timeout_tick' = timeout_tick /\ activated' = activated
          /\ age' = age /\ Listed' = Listed
        BY <1>4 DEF FunctionReturns, Listed
    <2>2. TypeInv' /\ ListInv' /\ AgeInv' /\ OrderInv'
        BY <1>1, <1>4, <2>1 DEF TypeInv, ListInv, AgeInv, OrderInv, Late
    <2>3. CheckInv'
        BY <1>1, <1>2, <2>1 DEF CheckInv, AgeInv
    <2>4. QED BY <2>2, <2>3
<1>5. QED BY <1>3, <1>4

LEMMA StepIInv == IInv /\ [Next]_vars => IInv'
<1> SUFFICES ASSUME IInv, [Next]_vars PROVE IInv'
    OBVIOUS
<1>1. CASE SysTick_Handler
    BY <1>1, SysTickStep
<1>2. ASSUME NEW t \in Timers, rt_timer_start(t) PROVE IInv'
    BY <1>2, StartStep
<1>3. ASSUME NEW t \in Timers, rt_timer_stop(t) PROVE IInv'
    BY <1>3, UnlistedStep DEF rt_timer_stop
<1>4. ASSUME NEW t \in Timers, rt_timer_detach(t) PROVE IInv'
    BY <1>4, UnlistedStep DEF rt_timer_detach
<1>5. ASSUME NEW t \in Timers, Call(t) PROVE IInv'
    BY <1>5, CallStep
<1>6. CASE BeginCheck \/ EndCheck \/ FunctionReturns
    BY <1>6, BeginCheckStep, EndCheckStep, FunctionReturnsStep
<1>7. CASE UNCHANGED vars
    BY <1>7 DEF vars, IInv, TypeInv, ListInv, AgeInv, CheckInv, OrderInv, Listed, Late
<1>8. QED BY <1>1, <1>2, <1>3, <1>4, <1>5, <1>6, <1>7 DEF Next, CheckStep

LEMMA Invariant == Spec => []IInv
BY InitIInv, StepIInv, PTL DEF Spec

-----------------------------------------------------------------------------

(* The flags agree with the list, and no timer is in it twice, whatever    *)
(* the functions called by rt_timer_check do.                              *)
THEOREM FlagsAlwaysAgree == Spec => []FlagsAgree
<1>1. IInv => FlagsAgree
    BY LengthIsCardinality DEF IInv, TypeInv, ListInv, FlagsAgree, Listed
<1>2. QED BY <1>1, Invariant, PTL

(* Before its time a timer is not due, nor was it when the tick was read.  *)
LEMMA NotYetDue ==
    ASSUME NEW now \in Tick, NEW read \in Tick, NEW deadline \in Tick,
           NEW a \in Nat, NEW n \in Nat, n < Half, a < n,
           Minus(now, read) <= a, Minus(now, deadline) = a - n + M
    PROVE  Minus(read, deadline) >= Half
<1>1. Minus(now, read) = IF read <= now THEN now - read ELSE now - read + M
    BY MinusIs
<1>2. Minus(now, deadline) = IF deadline <= now THEN now - deadline ELSE now - deadline + M
    BY MinusIs
<1>3. Minus(read, deadline) = IF deadline <= read THEN read - deadline
                              ELSE read - deadline + M
    BY MinusIs
<1>4. now \in Int /\ read \in Int /\ deadline \in Int /\ M \in Int /\ Half \in Int
      /\ now >= 0 /\ now < M /\ read >= 0 /\ read < M /\ deadline >= 0 /\ deadline < M
      /\ Half + Half <= M
    BY Bounds DEF Tick, M
<1>5. QED BY ONLY <1>1, <1>2, <1>3, <1>4, a \in Nat, n \in Nat, n < Half, a < n,
                  Minus(now, read) <= a, Minus(now, deadline) = a - n + M

LEMMA CallFacts ==
    ASSUME IInv, NEW t \in Timers, Call(t)
    PROVE  /\ Late(t) >= 0
           /\ \A u \in Listed : Late(u) <= Late(t)
<1> USE DEF IInv
<1>1. /\ list # <<>> /\ t = list[1] /\ t \in Listed /\ checking /\ called = None
      /\ Minus(current_tick, timeout_tick[t]) < Half
    BY TailIsRemoved DEF Call, HeadIsDue, Due
<1>2. Late(t) >= 0
    <2>1. /\ tick \in Tick /\ current_tick \in Tick /\ timeout_tick[t] \in Tick
          /\ age[t] \in Nat /\ Minus(tick, current_tick) <= age[t]
        BY <1>1 DEF TypeInv, AgeInv, CheckInv
    <2>2. init_tick[t] \in Nat /\ init_tick[t] < Half
        BY Bounds
    <2>3. Late(t) < 0 => Minus(tick, timeout_tick[t]) = age[t] - init_tick[t] + M
        BY <1>1 DEF AgeInv, Late
    <2>4. SUFFICES ASSUME age[t] < init_tick[t] PROVE FALSE
        BY <2>1, <2>2 DEF Late
    <2>5. Minus(tick, timeout_tick[t]) = age[t] - init_tick[t] + M
        <3>1. Late(t) < 0
            BY <2>1, <2>2, <2>4 DEF Late
        <3>2. QED BY <2>3, <3>1
    <2>6. Minus(current_tick, timeout_tick[t]) >= Half
        BY <2>1, <2>2, <2>4, <2>5, NotYetDue
    <2>7. Minus(current_tick, timeout_tick[t]) \in Int
        BY <2>1, Bounds DEF Minus, Tick
    <2>8. QED BY <1>1, <2>6, <2>7, Bounds
<1>3. ASSUME NEW u \in Listed PROVE Late(u) <= Late(t)
    <2>1. PICK k \in DOMAIN list : u = list[k]
        BY DEF Listed, ToSet
    <2>2. CASE k = 1
        <3>1. Late(t) \in Int
            BY <1>1, Bounds DEF AgeInv, Late
        <3>2. QED BY <1>1, <2>1, <2>2, <3>1
    <2>3. CASE k # 1
        <3>1. 1 \in DOMAIN list /\ 1 < k
            BY <2>1, <2>3 DEF TypeInv
        <3>2. QED BY <1>1, <2>1, <3>1 DEF OrderInv
    <2>4. QED BY <2>2, <2>3
<1>4. QED BY <1>2, <1>3

(* The function of a timer is never called before its time, for every      *)
(* width of the tick and however late rt_timer_check comes.                *)
THEOREM CallsAreNeverEarly == Spec => NeverEarly
<1>1. IInv /\ [Next]_vars => [\A t \in Timers : Call(t) => age[t] >= init_tick[t]]_vars
    <2> SUFFICES ASSUME IInv, NEW t \in Timers, Call(t) PROVE age[t] >= init_tick[t]
        OBVIOUS
    <2>1. Late(t) >= 0
        BY CallFacts
    <2>2. t \in Listed
        BY TailIsRemoved DEF Call, HeadIsDue, IInv
    <2>3. QED BY <2>1, <2>2, Bounds DEF Late, IInv, AgeInv
<1>2. QED BY <1>1, Invariant, PTL DEF Spec, NeverEarly

(* The timer called is the one that has waited longest beyond its time.    *)
THEOREM CallsAreInOrder == Spec => InDeadlineOrder
<1>1. IInv /\ [Next]_vars =>
        [\A t \in Timers : Call(t) =>
             \A u \in Listed : age[u] - init_tick[u] <= age[t] - init_tick[t]]_vars
    BY CallFacts DEF Late
<1>2. QED BY <1>1, Invariant, PTL DEF Spec, InDeadlineOrder
=============================================================================
