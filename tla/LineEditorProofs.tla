-------------------------- MODULE LineEditorProofs --------------------------
(***************************************************************************)
(* The shell's line is a text with a cursor for every length of line and   *)
(* of history and every command table, while no line is filled to its end. *)
(***************************************************************************)
EXTENDS LineEditor, SequenceTheorems, WellFoundedInduction, TLAPS

-----------------------------------------------------------------------------
(* Sequences, and the least of a set.                                      *)

LEMMA LeastExists ==
    ASSUME NEW S, S \subseteq Nat, S # {}
    PROVE  \E x \in S : \A y \in S : x <= y
<1> DEFINE R == {p \in Nat \X Nat : p[1] < p[2]}
<1>1. IsWellFoundedOn(R, Nat)
    BY NatLessThanWellFounded DEF OpToRel
<1>2. \A x, y \in Nat : y < x => <<y, x>> \in R
    OBVIOUS
<1> HIDE DEF R
<1>3. PICK x \in S : \A y \in S : ~(<<y, x>> \in R)
    BY <1>1, WFMin
<1>4. ASSUME NEW y \in S PROVE x <= y
    <2>1. x \in Nat /\ y \in Nat
        OBVIOUS
    <2>2. ~(y < x)
        BY <1>2, <1>3, <2>1
    <2>3. QED BY <2>1, <2>2
<1>5. QED BY <1>4

IsInserted(r, s, i, e) ==
    /\ Len(r) = Len(s) + 1
    /\ \A j \in 1..(Len(s) + 1) :
           r[j] = IF j < i THEN s[j] ELSE IF j = i THEN e ELSE s[j - 1]

LEMMA InsertFacts ==
    ASSUME NEW T, NEW s \in Seq(T), NEW e \in T, NEW i \in 1..(Len(s) + 1)
    PROVE  InsertAt(s, i, e) \in Seq(T) /\ IsInserted(InsertAt(s, i, e), s, i, e)
<1> DEFINE a == SubSeq(s, 1, i - 1)
           b == SubSeq(s, i, Len(s))
           c == a \o <<e>>
<1>1. /\ a \in Seq(T) /\ Len(a) = i - 1
      /\ \A j \in 1..(i - 1) : a[j] = s[j]
    BY SubSeqProperties
<1>2. /\ b \in Seq(T) /\ Len(b) = Len(s) - i + 1
      /\ \A j \in 1..(Len(s) - i + 1) : b[j] = s[i + j - 1]
    BY SubSeqProperties
<1> HIDE DEF a, b
<1>3. c \in Seq(T) /\ Len(c) = i /\ \A j \in 1..i : c[j] = IF j < i THEN s[j] ELSE e
    BY <1>1, ConcatProperties
<1> HIDE DEF c
<1>4. /\ c \o b \in Seq(T) /\ Len(c \o b) = Len(s) + 1
      /\ \A j \in 1..(Len(s) + 1) : (c \o b)[j] = IF j <= i THEN c[j] ELSE b[j - i]
    BY <1>2, <1>3, ConcatProperties
<1>5. ASSUME NEW j \in 1..(Len(s) + 1)
      PROVE  (c \o b)[j] = IF j < i THEN s[j] ELSE IF j = i THEN e ELSE s[j - 1]
    BY <1>2, <1>3, <1>4
<1>6. QED BY <1>4, <1>5 DEF a, b, c, InsertAt, IsInserted

IsRemoved(r, s, i) ==
    /\ Len(r) = Len(s) - 1
    /\ \A j \in 1..(Len(s) - 1) : r[j] = IF j < i THEN s[j] ELSE s[j + 1]

LEMMA RemoveFacts ==
    ASSUME NEW T, NEW s \in Seq(T), NEW i \in 1..Len(s)
    PROVE  RemoveAt(s, i) \in Seq(T) /\ IsRemoved(RemoveAt(s, i), s, i)
<1> DEFINE a == SubSeq(s, 1, i - 1)
           b == SubSeq(s, i + 1, Len(s))
<1>1. /\ a \in Seq(T) /\ Len(a) = i - 1
      /\ \A j \in 1..(i - 1) : a[j] = s[j]
    BY SubSeqProperties
<1>2. /\ b \in Seq(T) /\ Len(b) = Len(s) - i
      /\ \A j \in 1..(Len(s) - i) : b[j] = s[i + j]
    BY SubSeqProperties
<1> HIDE DEF a, b
<1>3. /\ a \o b \in Seq(T) /\ Len(a \o b) = Len(a) + Len(b)
      /\ \A j \in 1..(Len(a) + Len(b)) :
           (a \o b)[j] = IF j <= Len(a) THEN a[j] ELSE b[j - Len(a)]
    BY <1>1, <1>2, ConcatProperties
<1>4. Len(a) + Len(b) = Len(s) - 1
    BY <1>1, <1>2
<1>5. ASSUME NEW j \in 1..(Len(s) - 1)
      PROVE  (a \o b)[j] = IF j < i THEN s[j] ELSE s[j + 1]
    <2>1. CASE j < i
        BY <1>1, <1>3, <1>4, <2>1
    <2>2. CASE ~(j < i)
        <3>1. /\ (a \o b)[j] = b[j - Len(a)] /\ Len(a) = i - 1
              /\ j - Len(a) \in 1..(Len(s) - i)
            BY <1>1, <1>3, <1>4, <2>2
        <3>2. b[j - Len(a)] = s[i + (j - Len(a))]
            BY <1>2, <3>1
        <3>3. i + (j - Len(a)) = j + 1
            BY <3>1
        <3>4. QED BY <2>2, <3>1, <3>2, <3>3
    <2>3. QED BY <2>1, <2>2
<1>6. QED BY <1>3, <1>4, <1>5 DEF a, b, RemoveAt, IsRemoved
-----------------------------------------------------------------------------

N == FINSH_CMD_SIZE

H == FINSH_HISTORY_LINES

(* A position is 16 bits wide.                                             *)
Short == ~LongLines /\ FINSH_CMD_SIZE <= UInt16Max

(* The array s holds n characters and nothing behind them.                 *)
Holds(s, n) == \A k \in DOMAIN s : IF k < n THEN s[k] \in Glyph ELSE s[k] = NUL

LineInv ==
    /\ line \in [0..N -> Char]
    /\ line_position \in 0..(N - 1)
    /\ line_curpos \in 0..line_position
    /\ Holds(line, line_position)

(* Every entry of the history ends before the array does.                  *)
Terminated(history, count) ==
    /\ history \in [0..(H - 1) -> [0..(N - 1) -> Char]]
    /\ \A i \in 0..(H - 1) : \E n \in 0..(N - 1) : Holds(history[i], n)
    /\ count \in 0..H

HistInv ==
    /\ Terminated(cmd_history, history_count)
    /\ current_history \in 0..history_count

IInv ==
    /\ LineInv /\ HistInv
    /\ stat \in {"NORMAL", "SPEC_KEY", "FUNC_KEY"}
    /\ ran \in Seq(Glyph)

(* What the operator sees.                                                 *)
Text == Chars(line, line_position)

Entry(s) == Chars(s, rt_strlen(s))

Entries(history, count) == [i \in 1..count |-> Entry(history[i - 1])]

Past == Entries(cmd_history, history_count)

-----------------------------------------------------------------------------
(* Strings in arrays *)

LEMMA Sizes ==
    /\ N \in Nat \ {0} /\ H \in Nat \ {0} /\ NUL \notin Glyph
    /\ \A name \in Commands : name \in Seq(Glyph) /\ Len(name) < N
BY EditorAssumption DEF N, H

LEMMA Width == UInt16Max \in Nat
BY DEF UInt16Max

LEMMA WidthKept ==
    ASSUME NEW n \in 0..UInt16Max
    PROVE  UInt16(n) = n
<1>1. n \in Nat /\ UInt16Max \in Nat /\ n <= UInt16Max
    BY Width
<1>2. QED BY ONLY <1>1 DEF UInt16

LEMMA StrlenIs ==
    ASSUME NEW m \in Nat, NEW s, DOMAIN s = 0..m, NEW n \in 0..m, Holds(s, n)
    PROVE  rt_strlen(s) = n
<1> DEFINE Ends(x) == s[x] = NUL /\ \A k \in 0..(x - 1) : s[k] # NUL
<1>1. \A k \in 0..m : (k < n => s[k] # NUL) /\ (k >= n => s[k] = NUL)
    BY Sizes DEF Holds
<1>2. Ends(n)
    BY <1>1
<1>3. ASSUME NEW x \in 0..m, Ends(x) PROVE x = n
    <2>1. CASE x < n
        BY <1>1, <1>3, <2>1
    <2>2. CASE n < x
        BY <1>1, <1>3, <2>2
    <2>3. QED BY <2>1, <2>2
<1>4. rt_strlen(s) = CHOOSE x \in 0..m : Ends(x)
    BY DEF rt_strlen
<1> HIDE DEF Ends
<1>5. QED BY <1>2, <1>3, <1>4

LEMMA CharsFacts ==
    ASSUME NEW s, NEW n \in Nat, 0..(n - 1) \subseteq DOMAIN s, Holds(s, n)
    PROVE  /\ Chars(s, n) \in Seq(Glyph) /\ Len(Chars(s, n)) = n
           /\ \A k \in 1..n : Chars(s, n)[k] = s[k - 1]
BY DEF Chars, Holds

LEMMA CharsAre ==
    ASSUME NEW s, NEW n \in Nat, 0..(n - 1) \subseteq DOMAIN s, Holds(s, n),
           NEW t \in Seq(Glyph), Len(t) = n, \A k \in 1..n : t[k] = s[k - 1]
    PROVE  Chars(s, n) = t
<1> DEFINE c == Chars(s, n)
<1>1. c \in Seq(Glyph) /\ Len(c) = n /\ \A k \in 1..n : c[k] = s[k - 1]
    BY CharsFacts
<1> HIDE DEF c
<1>2. c = t
    BY <1>1, SeqEqual
<1>3. QED BY <1>2 DEF c

LEMMA LineFacts ==
    ASSUME LineInv
    PROVE  /\ Text \in Seq(Glyph) /\ Len(Text) = line_position
           /\ \A k \in 1..line_position : Text[k] = line[k - 1]
           /\ rt_strlen(line) = line_position
           /\ Chars(line, rt_strlen(line)) = Text
<1>1. rt_strlen(line) = line_position
    <2>1. DOMAIN line = 0..N /\ N \in Nat /\ line_position \in 0..N
        BY Sizes DEF LineInv
    <2>2. QED BY <2>1, StrlenIs DEF LineInv
<1>2. line_position \in Nat /\ 0..(line_position - 1) \subseteq DOMAIN line
    BY Sizes DEF LineInv
<1>3. QED BY <1>1, <1>2, CharsFacts DEF LineInv, Text

(* A new line, given what it holds.                                        *)
LEMMA NewText ==
    ASSUME LineInv', NEW t \in Seq(Glyph), Len(t) = line_position',
           \A k \in 1..line_position' : t[k] = line'[k - 1]
    PROVE  Text' = t
<1>1. line_position' \in Nat /\ 0..(line_position' - 1) \subseteq DOMAIN line'
    BY Sizes DEF LineInv
<1>2. QED BY <1>1, CharsAre DEF LineInv, Text

LEMMA EntryFacts ==
    ASSUME NEW s \in [0..(N - 1) -> Char], NEW n \in 0..(N - 1), Holds(s, n)
    PROVE  /\ rt_strlen(s) = n /\ Entry(s) \in Seq(Glyph) /\ Len(Entry(s)) = n
           /\ \A k \in 1..n : Entry(s)[k] = s[k - 1]
<1>1. DOMAIN s = 0..(N - 1) /\ N - 1 \in Nat /\ n \in Nat /\ 0..(n - 1) \subseteq DOMAIN s
    BY Sizes
<1>2. rt_strlen(s) = n
    BY <1>1, StrlenIs
<1>3. QED BY <1>1, <1>2, CharsFacts DEF Entry

LEMMA EntriesFacts ==
    ASSUME NEW history, NEW count, Terminated(history, count)
    PROVE  /\ Entries(history, count) \in Seq(Seq(Glyph))
           /\ Len(Entries(history, count)) = count
           /\ \A i \in 1..count : Entries(history, count)[i] = Entry(history[i - 1])
<1>1. ASSUME NEW i \in 1..count PROVE Entry(history[i - 1]) \in Seq(Glyph)
    <2>1. i - 1 \in 0..(H - 1)
        BY Sizes DEF Terminated
    <2>2. PICK n \in 0..(N - 1) : Holds(history[i - 1], n)
        BY <2>1 DEF Terminated
    <2>3. history[i - 1] \in [0..(N - 1) -> Char]
        BY <2>1 DEF Terminated
    <2>4. QED BY <2>2, <2>3, EntryFacts
<1>2. count \in Nat
    BY DEF Terminated
<1>3. QED BY <1>1, <1>2 DEF Entries

-----------------------------------------------------------------------------
(* Keys that leave the history alone *)

LEMMA HistoryKept ==
    ASSUME HistInv, UNCHANGED histVars
    PROVE  HistInv' /\ Past' = Past
BY DEF histVars, HistInv, Terminated, Past, Entries, Entry, Holds

LEMMA EditIs ==
    ASSUME NEW next, Read(next), UNCHANGED histVars
    PROVE  Line!Edit
BY DEF Read, histVars, Line!Edit, Line!Runs

LEMMA KeptLine ==
    ASSUME LineInv, LineKept
    PROVE  LineInv' /\ Text' = Text
BY DEF LineKept, LineInv, Text, Holds

LEMMA QuietKey ==
    ASSUME IInv, NEW next \in {"NORMAL", "SPEC_KEY", "FUNC_KEY"},
           Read(next), LineKept, UNCHANGED histVars
    PROVE  IInv' /\ Line!LineNext
<1>1. IInv'
    BY HistoryKept, KeptLine DEF IInv, Read
<1>2. Line!NoEffect
    BY EditIs, KeptLine DEF Line!NoEffect, LineKept, Text, IInv
<1>3. QED BY <1>1, <1>2 DEF Line!LineNext

LEMMA CursorKey ==
    ASSUME IInv, FuncKey, UNCHANGED <<line, line_position>>, UNCHANGED histVars,
           line_curpos' \in {line_curpos - 1, line_curpos + 1} \intersect 0..line_position
    PROVE  IInv' /\ Line!LineNext
<1> USE DEF IInv
<1>1. LineInv' /\ Text' = Text
    BY DEF LineInv, Text, Holds
<1>2. IInv'
    BY <1>1, HistoryKept DEF FuncKey, Read
<1>3. Len(Text) = line_position
    BY LineFacts
<1>4. Line!Edit
    BY EditIs DEF FuncKey
<1>5. Line!MoveCursor
    BY <1>1, <1>3, <1>4 DEF Line!MoveCursor, Text
<1>6. QED BY <1>2, <1>5 DEF Line!LineNext

LEMMA LeftKeyStep == IInv /\ LeftKey => IInv' /\ Line!LineNext
<1> SUFFICES ASSUME IInv, LeftKey PROVE IInv' /\ Line!LineNext
    OBVIOUS
<1>1. CASE line_curpos > 0
    BY <1>1, CursorKey DEF LeftKey, IInv, LineInv
<1>2. CASE ~(line_curpos > 0)
    <2>1. line_curpos' = line_curpos
        BY <1>2 DEF LeftKey, IInv, LineInv
    <2>2. LineKept /\ Read("NORMAL") /\ UNCHANGED histVars
        BY <2>1 DEF LeftKey, FuncKey, LineKept
    <2>3. QED BY <2>2, QuietKey
<1>3. QED BY <1>1, <1>2

LEMMA RightKeyStep == IInv /\ RightKey => IInv' /\ Line!LineNext
<1> SUFFICES ASSUME IInv, RightKey PROVE IInv' /\ Line!LineNext
    OBVIOUS
<1>1. CASE line_curpos < line_position
    <2>1. line_curpos' \in {line_curpos - 1, line_curpos + 1} \intersect 0..line_position
        BY <1>1 DEF RightKey, IInv, LineInv
    <2>2. QED BY <2>1, CursorKey DEF RightKey
<1>2. CASE ~(line_curpos < line_position)
    <2>1. LineKept /\ Read("NORMAL") /\ UNCHANGED histVars
        BY <1>2 DEF RightKey, FuncKey, LineKept
    <2>2. QED BY <2>1, QuietKey
<1>3. QED BY <1>1, <1>2

LEMMA CharacterStep ==
    ASSUME IInv, Short, NEW ch \in Glyph, Character(ch)
    PROVE  IInv' /\ Line!LineNext
<1> USE DEF IInv
<1>1. /\ N \in Nat /\ line_position \in 0..(N - 1) /\ line_curpos \in 0..line_position
      /\ line \in [0..N -> Char] /\ Holds(line, line_position)
    BY Sizes DEF LineInv
<1>2. line_position + 1 < N
    BY <1>1 DEF Character, Short, N
<1>3. /\ line' = [k \in 0..N |->
                     IF k = line_curpos THEN ch
                     ELSE IF k > line_curpos /\ k <= line_position THEN line[k - 1] ELSE line[k]]
      /\ line_position' = line_position + 1 /\ line_curpos' = line_curpos + 1
      /\ Read("NORMAL") /\ UNCHANGED histVars
    <2>1. line_position < N /\ ~(line_position + 1 >= N) /\ ~(line_position >= N)
        BY <1>1, <1>2
    <2>2. (IF line_curpos < line_position THEN line_curpos ELSE line_position) = line_curpos
        BY <1>1
    <2>3. QED BY <2>1, <2>2 DEF Character, N
<1>4. LineInv'
    <2>1. line' \in [0..N -> Char]
        BY <1>1, <1>3 DEF Char
    <2>2. ASSUME NEW k \in 0..N
          PROVE  IF k < line_position' THEN line'[k] \in Glyph ELSE line'[k] = NUL
        <3>1. CASE k = line_curpos
            BY <1>1, <1>3, <3>1
        <3>2. CASE k > line_curpos /\ k <= line_position
            <4>1. line'[k] = line[k - 1] /\ k - 1 \in 0..N /\ k - 1 < line_position
                BY <1>1, <1>3, <3>2
            <4>2. QED BY <1>1, <1>3, <3>2, <4>1 DEF Holds
        <3>3. CASE k # line_curpos /\ ~(k > line_curpos /\ k <= line_position)
            <4>1. line'[k] = line[k]
                BY <1>1, <1>3, <3>3
            <4>2. QED BY <1>1, <1>3, <3>3, <4>1 DEF Holds
        <3>4. QED BY <3>1, <3>2, <3>3
    <2>3. QED BY <1>1, <1>2, <1>3, <2>1, <2>2 DEF LineInv, Holds
<1>5. IInv'
    BY <1>3, <1>4, HistoryKept DEF Read
<1>6. Text' = InsertAt(Text, line_curpos + 1, ch)
    <2> DEFINE t == InsertAt(Text, line_curpos + 1, ch)
    <2>1. /\ Text \in Seq(Glyph) /\ Len(Text) = line_position
          /\ \A k \in 1..line_position : Text[k] = line[k - 1]
        BY LineFacts
    <2>2. line_curpos + 1 \in 1..(Len(Text) + 1)
        BY <1>1, <2>1
    <2>3. t \in Seq(Glyph) /\ IsInserted(t, Text, line_curpos + 1, ch)
        BY <2>1, <2>2, InsertFacts
    <2> HIDE DEF t
    <2>4. /\ Len(t) = line_position + 1
          /\ \A j \in 1..(line_position + 1) :
               t[j] = IF j < line_curpos + 1 THEN Text[j]
                      ELSE IF j = line_curpos + 1 THEN ch ELSE Text[j - 1]
        BY <2>1, <2>3 DEF IsInserted
    <2>5. ASSUME NEW j \in 1..(line_position + 1) PROVE t[j] = line'[j - 1]
        <3>1. CASE j < line_curpos + 1
            BY <1>1, <1>2, <1>3, <2>1, <2>4, <3>1
        <3>2. CASE j = line_curpos + 1
            BY <1>1, <1>2, <1>3, <2>1, <2>4, <3>2
        <3>3. CASE j > line_curpos + 1
            <4>1. t[j] = Text[j - 1] /\ j - 1 \in 1..line_position
                BY <1>1, <2>4, <3>3
            <4>2. line'[j - 1] = line[j - 1 - 1]
                BY <1>1, <1>2, <1>3, <3>3
            <4>3. QED BY <2>1, <4>1, <4>2
        <3>4. QED BY <1>1, <3>1, <3>2, <3>3
    <2>6. Text' = t
        BY <1>3, <1>4, <2>3, <2>4, <2>5, NewText
    <2>7. QED BY <2>6 DEF t
<1>7. Line!Edit
    BY <1>3, EditIs
<1>8. Line!Type(ch)
    <2>1. line_curpos' = line_curpos + 1
        BY <1>3
    <2>2. QED BY ONLY <1>6, <1>7, <2>1 DEF Line!Type, Text, InsertAt, Line!InsertAt
<1>9. QED BY <1>5, <1>8 DEF Line!LineNext

LEMMA BackspaceStep ==
    ASSUME IInv, Short, BackspaceByte
    PROVE  IInv' /\ Line!LineNext
<1> USE DEF IInv
<1>1. /\ N \in Nat /\ N <= UInt16Max
      /\ line_position \in 0..(N - 1) /\ line_curpos \in 0..line_position
      /\ line \in [0..N -> Char] /\ Holds(line, line_position)
    BY Sizes DEF LineInv, Short, N
<1>2. CASE line_curpos = 0
    <2>1. LineKept /\ Read("NORMAL") /\ UNCHANGED histVars
        BY <1>2 DEF BackspaceByte
    <2>2. QED BY <2>1, QuietKey
<1>3. CASE line_curpos # 0
    <2>1. line_position' = line_position - 1 /\ line_curpos' = line_curpos - 1
        <3>1. line_position - 1 \in 0..UInt16Max
            BY Width, <1>1, <1>3
        <3>2. QED BY <1>3, <3>1, WidthKept DEF BackspaceByte
    <2>2. /\ line' = [k \in 0..N |->
                         IF k = line_position - 1 THEN NUL
                         ELSE IF k >= line_curpos - 1 /\ k < line_position - 1 /\ k < N
                         THEN line[k + 1] ELSE line[k]]
          /\ Read("NORMAL") /\ UNCHANGED histVars
        BY <1>3, <2>1 DEF BackspaceByte, N
    <2>3. LineInv'
        <3>1. line' \in [0..N -> Char]
            BY <1>1, <2>2 DEF Char
        <3>2. ASSUME NEW k \in 0..N
              PROVE  IF k < line_position - 1 THEN line'[k] \in Glyph ELSE line'[k] = NUL
            <4>1. CASE k = line_position - 1
                BY <1>1, <2>2, <4>1
            <4>2. CASE k >= line_curpos - 1 /\ k < line_position - 1
                <5>1. line'[k] = line[k + 1] /\ k + 1 \in 0..N /\ k + 1 < line_position
                    BY <1>1, <2>2, <4>2
                <5>2. QED BY <1>1, <4>2, <5>1 DEF Holds
            <4>3. CASE k # line_position - 1 /\ ~(k >= line_curpos - 1 /\ k < line_position - 1)
                <5>1. line'[k] = line[k]
                    BY <1>1, <2>2, <4>3
                <5>2. QED BY <1>1, <1>3, <4>3, <5>1 DEF Holds
            <4>4. QED BY <4>1, <4>2, <4>3
        <3>3. QED BY <1>1, <1>3, <2>1, <3>1, <3>2 DEF LineInv, Holds
    <2>4. IInv'
        BY <2>2, <2>3, HistoryKept DEF Read
    <2>5. Text' = RemoveAt(Text, line_curpos)
        <3> DEFINE t == RemoveAt(Text, line_curpos)
        <3>1. /\ Text \in Seq(Glyph) /\ Len(Text) = line_position
              /\ \A k \in 1..line_position : Text[k] = line[k - 1]
            BY LineFacts
        <3>2. line_curpos \in 1..Len(Text)
            BY <1>1, <1>3, <3>1
        <3>3. t \in Seq(Glyph) /\ IsRemoved(t, Text, line_curpos)
            BY <3>1, <3>2, RemoveFacts
        <3> HIDE DEF t
        <3>4. /\ Len(t) = line_position - 1
              /\ \A j \in 1..(line_position - 1) :
                   t[j] = IF j < line_curpos THEN Text[j] ELSE Text[j + 1]
            BY <3>1, <3>3 DEF IsRemoved
        <3>5. ASSUME NEW j \in 1..(line_position - 1) PROVE t[j] = line'[j - 1]
            <4>1. CASE j < line_curpos
                BY <1>1, <2>2, <3>1, <3>4, <4>1
            <4>2. CASE ~(j < line_curpos)
                <5>1. t[j] = Text[j + 1] /\ j + 1 \in 1..line_position
                    BY <1>1, <3>4, <4>2
                <5>2. line'[j - 1] = line[j]
                    <6>1. j - 1 \in 0..N /\ j - 1 # line_position - 1 /\ j - 1 >= line_curpos - 1
                          /\ j - 1 < line_position - 1 /\ j - 1 < N /\ (j - 1) + 1 = j
                        BY <1>1, <4>2
                    <6>2. QED BY <2>2, <6>1
                <5>3. Text[j + 1] = line[j]
                    <6>1. (j + 1) - 1 = j
                        OBVIOUS
                    <6>2. QED BY <3>1, <5>1, <6>1
                <5>4. QED BY ONLY <5>1, <5>2, <5>3
            <4>3. QED BY <4>1, <4>2
        <3>6. Text' = t
            BY <2>1, <2>3, <3>3, <3>4, <3>5, NewText
        <3>7. QED BY <3>6 DEF t
    <2>6. Line!Edit
        BY <2>2, EditIs
    <2>7. Line!Erase
        <3>1. line_curpos > 0
            BY <1>1, <1>3
        <3>2. QED BY ONLY <2>1, <2>5, <2>6, <3>1 DEF Line!Erase, Text, RemoveAt, Line!RemoveAt
    <2>8. QED BY <2>4, <2>7 DEF Line!LineNext
<1>4. QED BY <1>2, <1>3

(* The names that begin like the line share at least that, and less than   *)
(* fills the array.                                                        *)
LEMMA CommonFacts ==
    ASSUME NEW p \in Seq(Glyph), NEW names \in SUBSET Commands, names # {},
           \A name \in names : IsPrefix(p, name)
    PROVE  /\ LongestCommonPrefix(names) \in Seq(Glyph)
           /\ Len(LongestCommonPrefix(names)) >= Len(p)
           /\ Len(LongestCommonPrefix(names)) < N
<1> DEFINE C == CommonPrefixes(names)
           lens == {N - Len(c) : c \in C}
<1>1. \A c \in C : c \in Seq(Glyph) /\ Len(c) < N
    <2> SUFFICES ASSUME NEW c \in C PROVE c \in Seq(Glyph) /\ Len(c) < N
        OBVIOUS
    <2>1. PICK name \in names : c \in Prefixes(name)
        BY DEF CommonPrefixes
    <2>2. PICK l \in 0..Len(name) : c = SubSeq(name, 1, l)
        BY <2>1 DEF Prefixes
    <2>3. name \in Seq(Glyph) /\ Len(name) < N /\ N \in Nat
        BY Sizes
    <2>4. \A i \in 1..l : name[i] \in Glyph
        BY <2>2, <2>3
    <2>5. SubSeq(name, 1, l) \in Seq(Glyph) /\ Len(SubSeq(name, 1, l)) = l
        BY <2>2, <2>3, <2>4, SubSeqProperties
    <2>6. QED BY <2>2, <2>3, <2>5
<1>2. p \in C
    <2>1. PICK name \in names : TRUE
        OBVIOUS
    <2>2. IsPrefix(p, name) /\ name \in Seq(Glyph)
        BY <2>1, Sizes
    <2>3. Len(p) \in 0..Len(name) /\ SubSeq(p, 1, Len(p)) = SubSeq(name, 1, Len(p))
        BY <2>2 DEF IsPrefix
    <2>4. SubSeq(p, 1, Len(p)) = p
        BY SubSeqFull
    <2>5. p \in Prefixes(name)
        BY <2>3, <2>4 DEF Prefixes
    <2>6. QED BY <2>1, <2>5 DEF CommonPrefixes
<1> HIDE DEF C
<1>3. lens \subseteq Nat /\ lens # {}
    BY <1>1, <1>2, Sizes
<1>4. PICK least \in lens : \A y \in lens : least <= y
    BY <1>3, LeastExists
<1>5. PICK longest \in C : \A other \in C : Len(other) <= Len(longest)
    <2>1. PICK c \in C : least = N - Len(c)
        OBVIOUS
    <2>2. ASSUME NEW other \in C PROVE Len(other) <= Len(c)
        <3>1. N - Len(c) <= N - Len(other)
            BY <1>4, <2>1
        <3>2. QED BY <1>1, <3>1, Sizes
    <2>3. QED BY <2>2
<1>6. /\ LongestCommonPrefix(names) \in C
      /\ \A other \in C : Len(other) <= Len(LongestCommonPrefix(names))
    BY <1>5 DEF LongestCommonPrefix, C
<1>7. QED BY <1>1, <1>2, <1>6

LEMMA TabStep == IInv /\ TabByte => IInv' /\ Line!LineNext
<1> SUFFICES ASSUME IInv, TabByte PROVE IInv' /\ Line!LineNext
    OBVIOUS
<1> USE DEF IInv
<1> DEFINE names  == {name \in Commands : IsPrefix(Text, name)}
           common == LongestCommonPrefix(names)
<1>1. /\ N \in Nat /\ line_position \in 0..(N - 1) /\ line_curpos \in 0..line_position
      /\ line \in [0..N -> Char] /\ Holds(line, line_position)
    BY Sizes DEF LineInv
<1>2. /\ Text \in Seq(Glyph) /\ Len(Text) = line_position
      /\ \A k \in 1..line_position : Text[k] = line[k - 1]
      /\ rt_strlen(line) = line_position /\ Chars(line, rt_strlen(line)) = Text
    BY LineFacts
<1>3. /\ line' = IF Text = <<>> \/ names = {} THEN line
                 ELSE [k \in 0..N |-> IF k < Len(common) THEN common[k + 1] ELSE line[k]]
      /\ line_position' = rt_strlen(line') /\ line_curpos' = line_position'
      /\ Read("NORMAL") /\ UNCHANGED histVars
    BY <1>2 DEF TabByte, CursorAtEnd, N
<1> DEFINE t == IF Text = <<>> \/ names = {} THEN Text ELSE common
<1>4. LineInv' /\ Text' = t /\ line_curpos' = Len(t)
    <2>1. CASE Text = <<>> \/ names = {}
        <3>1. line' = line /\ line_position' = line_position /\ line_curpos' = line_position
            BY <1>2, <1>3, <2>1
        <3>2. LineInv' /\ Text' = Text
            BY <1>1, <3>1 DEF LineInv, Text
        <3>3. QED BY <1>2, <2>1, <3>1, <3>2
    <2>2. CASE ~(Text = <<>> \/ names = {})
        <3>1. common \in Seq(Glyph) /\ Len(common) >= Len(Text) /\ Len(common) < N
            BY <1>2, <2>2, CommonFacts
        <3> HIDE DEF names, common
        <3>2. line' = [k \in 0..N |-> IF k < Len(common) THEN common[k + 1] ELSE line[k]]
            BY <1>3, <2>2
        <3>3. Len(common) \in 0..N /\ Len(common) \in 0..(N - 1) /\ Len(common) >= line_position
            BY <1>1, <1>2, <3>1
        <3>4. line' \in [0..N -> Char]
            BY <1>1, <3>1, <3>2, <3>3 DEF Char
        <3>5. Holds(line', Len(common))
            <4>1. ASSUME NEW k \in 0..N
                  PROVE  IF k < Len(common) THEN line'[k] \in Glyph ELSE line'[k] = NUL
                BY <1>1, <3>1, <3>2, <3>3 DEF Holds
            <4>2. QED BY <3>4, <4>1 DEF Holds
        <3>6. rt_strlen(line') = Len(common)
            <4>1. DOMAIN line' = 0..N
                BY <3>4
            <4>2. QED BY <1>1, <3>3, <3>5, <4>1, StrlenIs
        <3>7. line_position' = Len(common) /\ line_curpos' = Len(common)
            BY <1>3, <3>6
        <3>8. LineInv'
            BY <3>3, <3>4, <3>5, <3>7 DEF LineInv
        <3>9. \A k \in 1..Len(common) : common[k] = line'[k - 1]
            BY <1>1, <3>2, <3>3
        <3>10. Text' = common
            BY <3>1, <3>7, <3>8, <3>9, NewText
        <3>11. QED BY <2>2, <3>7, <3>8, <3>10
    <2>3. QED BY <2>1, <2>2
<1>5. IInv'
    BY <1>3, <1>4, HistoryKept DEF Read
<1>6. Line!Edit
    BY <1>3, EditIs
<1>7. Line!Complete
    <2>1. Text' = t /\ line_curpos' = Len(Text')
        BY <1>4
    <2>2. names = {name \in Commands : Line!IsPrefix(Text, name)}
        BY DEF IsPrefix, Line!IsPrefix
    <2>3. common = Line!LongestCommonPrefix(names)
        BY DEF LongestCommonPrefix, Line!LongestCommonPrefix, CommonPrefixes,
               Line!CommonPrefixes, Prefixes, Line!Prefixes, IsPrefix, Line!IsPrefix
    <2> HIDE DEF names, common
    <2>4. QED BY <1>6, <2>1, <2>2, <2>3 DEF Line!Complete, Text
<1>8. QED BY <1>5, <1>7 DEF Line!LineNext

-----------------------------------------------------------------------------
(* The history *)

LEMMA RecalledFacts ==
    ASSUME LineInv, HistInv, NEW i \in 0..(history_count - 1),
           line' = Recalled(cmd_history[i]), CursorAtEnd
    PROVE  LineInv' /\ Text' = Past[i + 1] /\ line_curpos' = Len(Text')
<1> DEFINE s == cmd_history[i]
<1>1. /\ N \in Nat \ {0} /\ line_position \in 0..(N - 1)
      /\ line \in [0..N -> Char] /\ Holds(line, line_position)
    BY Sizes DEF LineInv
<1>2. /\ i \in 0..(H - 1) /\ i + 1 \in 1..history_count /\ (i + 1) - 1 = i
      /\ Terminated(cmd_history, history_count)
    BY Sizes DEF HistInv, Terminated
<1>3. s \in [0..(N - 1) -> Char] /\ \E n \in 0..(N - 1) : Holds(s, n)
    BY <1>2 DEF Terminated
<1> HIDE DEF s
<1>4. PICK n \in 0..(N - 1) : Holds(s, n)
    BY <1>3
<1>5. /\ Entry(s) \in Seq(Glyph) /\ Len(Entry(s)) = n
      /\ \A k \in 1..n : Entry(s)[k] = s[k - 1]
    BY <1>3, <1>4, EntryFacts
<1>6. line' = [k \in 0..N |-> IF k < N THEN s[k] ELSE line[k]]
    BY DEF Recalled, s, N
<1>7. line' \in [0..N -> Char] /\ \A k \in 0..(N - 1) : line'[k] = s[k]
    BY <1>1, <1>3, <1>6
<1>8. line'[N] = NUL
    BY <1>1, <1>6 DEF Holds
<1>9. Holds(line', n)
    <2>1. ASSUME NEW k \in 0..N
          PROVE  IF k < n THEN line'[k] \in Glyph ELSE line'[k] = NUL
        <3>1. CASE k = N
            BY <1>1, <1>8, <3>1
        <3>2. CASE k # N
            <4>1. k \in 0..(N - 1)
                BY <1>1, <3>2
            <4>2. QED BY <1>3, <1>4, <1>7, <4>1 DEF Holds
        <3>3. QED BY <3>1, <3>2
    <2>2. QED BY <1>7, <2>1 DEF Holds
<1>10. rt_strlen(line') = n
    <2>1. DOMAIN line' = 0..N /\ n \in 0..N
        BY <1>1, <1>7
    <2>2. QED BY <1>1, <1>9, <2>1, StrlenIs
<1>11. line_position' = n /\ line_curpos' = n
    BY <1>10 DEF CursorAtEnd
<1>12. LineInv'
    BY <1>7, <1>9, <1>11 DEF LineInv
<1>13. Text' = Entry(s)
    <2>1. \A k \in 1..n : Entry(s)[k] = line'[k - 1]
        <3> TAKE k \in 1..n
        <3>1. k - 1 \in 0..(N - 1)
            BY <1>1
        <3>2. QED BY <1>5, <1>7, <3>1
    <2>2. QED BY <1>5, <1>11, <1>12, <2>1, NewText
<1>14. Past[i + 1] = Entry(s)
    BY <1>2, EntriesFacts DEF Past, s
<1>15. QED BY <1>5, <1>11, <1>12, <1>13, <1>14

LEMMA ShowStep ==
    ASSUME IInv, NEW i \in 0..(history_count - 1), Read("NORMAL"),
           line' = Recalled(cmd_history[i]), CursorAtEnd,
           current_history' = i, UNCHANGED <<cmd_history, history_count>>
    PROVE  IInv' /\ Line!Show(i)
<1> USE DEF IInv
<1>1. LineInv' /\ Text' = Past[i + 1] /\ line_curpos' = Len(Text')
    BY RecalledFacts
<1>2. HistInv' /\ Past' = Past
    BY DEF HistInv, Past, Terminated
<1>3. IInv'
    BY <1>1, <1>2 DEF Read
<1>4. ran' = <<>>
    BY DEF Read
<1>5. Line!Show(i)
    BY <1>1, <1>2, <1>4 DEF Line!Show, Line!Runs, Text, Past, Entries, Entry
<1>6. QED BY <1>3, <1>5

LEMMA UpKeyStep == IInv /\ UpKey => IInv' /\ Line!LineNext
<1> SUFFICES ASSUME IInv, UpKey PROVE IInv' /\ Line!LineNext
    OBVIOUS
<1>1. CASE current_history = 0
    <2>1. LineKept /\ Read("NORMAL") /\ UNCHANGED histVars
        BY <1>1 DEF UpKey, FuncKey, histVars
    <2>2. QED BY <2>1, QuietKey
<1>2. CASE current_history # 0
    <2>1. /\ Read("NORMAL") /\ line' = Recalled(cmd_history[current_history - 1])
          /\ CursorAtEnd /\ current_history' = current_history - 1
          /\ UNCHANGED <<cmd_history, history_count>>
        BY <1>2 DEF UpKey, FuncKey
    <2>2. current_history - 1 \in 0..(history_count - 1) /\ current_history > 0
        BY <1>2 DEF IInv, HistInv, Terminated
    <2>3. IInv' /\ Line!Show(current_history - 1)
        BY <2>1, <2>2, ShowStep
    <2>4. QED BY <2>2, <2>3 DEF Line!LineNext, Line!Older
<1>3. QED BY <1>1, <1>2

LEMMA DownKeyStep == IInv /\ DownKey => IInv' /\ Line!LineNext
<1> SUFFICES ASSUME IInv, DownKey PROVE IInv' /\ Line!LineNext
    OBVIOUS
<1> DEFINE i == IF current_history + 1 < history_count THEN current_history + 1
                ELSE history_count - 1
<1>1. history_count \in 0..H /\ H \in Nat /\ current_history \in 0..history_count
    BY Sizes DEF IInv, HistInv, Terminated
<1>2. CASE history_count = 0
    <2>1. LineKept /\ Read("NORMAL") /\ UNCHANGED histVars
        BY <1>2 DEF DownKey, FuncKey, histVars
    <2>2. QED BY <2>1, QuietKey
<1>3. CASE history_count # 0
    <2>1. i = IF current_history < history_count - 1 THEN current_history + 1
              ELSE history_count - 1
        BY <1>1
    <2>2. /\ Read("NORMAL") /\ CursorAtEnd /\ current_history' = i
          /\ line' = Recalled(cmd_history[current_history'])
          /\ UNCHANGED <<cmd_history, history_count>>
        BY <1>3, <2>1 DEF DownKey, FuncKey
    <2>3. i \in 0..(history_count - 1)
        BY <1>1, <1>3
    <2>4. Past # <<>> /\ Len(Past) = history_count
        BY <1>1, <1>3, EntriesFacts DEF IInv, HistInv, Past
    <2> HIDE DEF i
    <2>5. IInv' /\ Line!Show(i)
        BY <2>2, <2>3, ShowStep
    <2>6. Line!Newer
        BY <2>4, <2>5 DEF Line!Newer, i, Past, Entries, Entry
    <2>7. QED BY <2>5, <2>6 DEF Line!LineNext
<1>4. QED BY <1>2, <1>3

(* The array of the last command is the line's if and only if the commands *)
(* are the same: there is nothing behind either.                           *)
LEMMA SameIsSame ==
    ASSUME LineInv, HistInv, NEW i \in 0..(H - 1)
    PROVE  SameAsLast(i) <=> Entry(cmd_history[i]) = Text
<1> DEFINE s == cmd_history[i]
<1>1. /\ N \in Nat \ {0} /\ line_position \in 0..(N - 1)
      /\ line \in [0..N -> Char] /\ Holds(line, line_position)
    BY Sizes DEF LineInv
<1>2. s \in [0..(N - 1) -> Char] /\ \E n \in 0..(N - 1) : Holds(s, n)
    BY DEF HistInv, Terminated
<1>3. SameAsLast(i) <=> s = [k \in 0..(N - 1) |-> line[k]]
    BY DEF SameAsLast, N
<1> HIDE DEF s
<1>4. PICK n \in 0..(N - 1) : Holds(s, n)
    BY <1>2
<1>5. /\ Entry(s) \in Seq(Glyph) /\ Len(Entry(s)) = n
      /\ \A k \in 1..n : Entry(s)[k] = s[k - 1]
    BY <1>2, <1>4, EntryFacts
<1>6. /\ Text \in Seq(Glyph) /\ Len(Text) = line_position
      /\ \A k \in 1..line_position : Text[k] = line[k - 1]
    BY LineFacts
<1>7. ASSUME s = [k \in 0..(N - 1) |-> line[k]] PROVE Entry(s) = Text
    <2>1. \A k \in 0..(N - 1) : s[k] = line[k]
        BY <1>7
    <2>2. Holds(s, line_position)
        BY <1>1, <1>2, <2>1 DEF Holds
    <2>3. /\ Len(Entry(s)) = line_position
          /\ \A k \in 1..line_position : Entry(s)[k] = s[k - 1]
        BY <1>1, <1>2, <2>2, EntryFacts
    <2>4. \A k \in 1..line_position : Entry(s)[k] = Text[k]
        <3> TAKE k \in 1..line_position
        <3>1. k - 1 \in 0..(N - 1)
            BY <1>1
        <3>2. QED BY <1>6, <2>1, <2>3, <3>1
    <2>5. QED BY <1>5, <1>6, <2>3, <2>4, SeqEqual
<1>8. ASSUME Entry(s) = Text PROVE s = [k \in 0..(N - 1) |-> line[k]]
    <2>1. n = line_position
        BY <1>5, <1>6, <1>8
    <2>2. ASSUME NEW k \in 0..(N - 1) PROVE s[k] = line[k]
        <3>1. CASE k < n
            <4>1. k + 1 \in 1..n /\ (k + 1) - 1 = k
                BY <3>1
            <4>2. Entry(s)[k + 1] = s[k] /\ Text[k + 1] = line[k]
                BY <1>5, <1>6, <2>1, <4>1
            <4>3. QED BY <1>8, <4>2
        <3>2. CASE ~(k < n)
            BY <1>1, <1>2, <1>4, <2>1, <3>2 DEF Holds
        <3>3. QED BY <3>1, <3>2
    <2>3. QED BY <1>2, <2>2
<1>9. QED BY <1>3, <1>7, <1>8 DEF s

LEMMA PaddedFacts ==
    ASSUME LineInv
    PROVE  /\ Padded(line, line_position) \in [0..(N - 1) -> Char]
           /\ Holds(Padded(line, line_position), line_position)
           /\ Entry(Padded(line, line_position)) = Text
<1> DEFINE p == Padded(line, line_position)
<1>1. /\ N \in Nat \ {0} /\ line_position \in 0..(N - 1)
      /\ line \in [0..N -> Char] /\ Holds(line, line_position)
    BY Sizes DEF LineInv
<1>2. p = [k \in 0..(N - 1) |-> IF k < line_position THEN line[k] ELSE NUL]
    BY DEF Padded, N
<1>3. p \in [0..(N - 1) -> Char]
    BY <1>1, <1>2 DEF Char
<1>4. Holds(p, line_position)
    BY <1>1, <1>2 DEF Holds
<1> HIDE DEF p
<1>5. /\ Entry(p) \in Seq(Glyph) /\ Len(Entry(p)) = line_position
      /\ \A k \in 1..line_position : Entry(p)[k] = p[k - 1]
    BY <1>1, <1>3, <1>4, EntryFacts
<1>6. /\ Text \in Seq(Glyph) /\ Len(Text) = line_position
      /\ \A k \in 1..line_position : Text[k] = line[k - 1]
    BY LineFacts
<1>7. \A k \in 1..line_position : Entry(p)[k] = Text[k]
    <2> TAKE k \in 1..line_position
    <2>1. k - 1 \in 0..(N - 1) /\ k - 1 < line_position
        BY <1>1
    <2>2. QED BY <1>2, <1>5, <1>6, <2>1
<1>8. Entry(p) = Text
    BY <1>5, <1>6, <1>7, SeqEqual
<1>9. QED BY <1>3, <1>4, <1>8 DEF p

LEMMA PushFacts ==
    ASSUME LineInv, HistInv, shell_push_history
    PROVE  /\ HistInv' /\ current_history' = history_count'
           /\ Past' = IF Text = <<>> \/ (Past # <<>> /\ Last(Past) = Text) THEN Past
                      ELSE IF Len(Past) + 1 > H THEN Tail(Append(Past, Text))
                      ELSE Append(Past, Text)
<1> DEFINE p == Padded(line, line_position)
           new == Append(Past, Text)
<1>1. /\ N \in Nat \ {0} /\ H \in Nat \ {0} /\ history_count \in 0..H
      /\ Terminated(cmd_history, history_count)
    BY Sizes DEF HistInv, Terminated
<1>2. /\ Text \in Seq(Glyph) /\ Len(Text) = line_position /\ line_position \in Nat
    BY LineFacts DEF LineInv
<1>3. /\ Past \in Seq(Seq(Glyph)) /\ Len(Past) = history_count
      /\ \A i \in 1..history_count : Past[i] = Entry(cmd_history[i - 1])
    BY <1>1, EntriesFacts DEF Past
<1>4. p \in [0..(N - 1) -> Char] /\ Holds(p, line_position) /\ Entry(p) = Text
      /\ line_position \in 0..(N - 1)
    BY PaddedFacts DEF LineInv
<1>5. Text = <<>> <=> line_position = 0
    BY <1>2
<1>6. (Past # <<>> /\ Last(Past) = Text)
        <=> (history_count > 0 /\ SameAsLast(history_count - 1))
    <2>1. CASE history_count = 0
        BY <1>3, <2>1
    <2>2. CASE history_count > 0
        <3>1. history_count - 1 \in 0..(H - 1) /\ history_count \in 1..history_count
            BY <1>1, <2>2
        <3>2. Last(Past) = Entry(cmd_history[history_count - 1])
            BY <1>3, <3>1 DEF Last
        <3>3. SameAsLast(history_count - 1) <=> Entry(cmd_history[history_count - 1]) = Text
            BY <3>1, SameIsSame
        <3>4. Past # <<>>
            BY <1>3, <2>2
        <3>5. QED BY <2>2, <3>2, <3>3, <3>4
    <2>3. QED BY <1>1, <2>1, <2>2
<1>7. /\ new \in Seq(Seq(Glyph)) /\ Len(new) = history_count + 1
      /\ \A i \in 1..history_count : new[i] = Past[i]
      /\ new[history_count + 1] = Text
    BY <1>1, <1>2, <1>3, AppendProperties
<1> HIDE DEF p, new
<1>8. current_history' = history_count'
    BY DEF shell_push_history
<1>9. CASE Text = <<>> \/ (Past # <<>> /\ Last(Past) = Text)
    <2>1. cmd_history' = cmd_history /\ history_count' = history_count
        BY <1>5, <1>6, <1>9 DEF shell_push_history
    <2>2. Past' = Past
        BY <2>1 DEF Past
    <2>3. QED BY <1>1, <1>8, <1>9, <2>1, <2>2 DEF HistInv
<1>10. CASE ~(Text = <<>> \/ (Past # <<>> /\ Last(Past) = Text)) /\ history_count >= H
    <2>1. /\ cmd_history' = [k \in 0..(H - 1) |-> IF k < H - 1 THEN cmd_history[k + 1] ELSE p]
          /\ history_count' = history_count /\ history_count = H
        BY <1>1, <1>5, <1>6, <1>10 DEF shell_push_history, Shifted, H, p
    <2>2. Terminated(cmd_history', history_count')
        <3>1. ASSUME NEW k \in 0..(H - 1)
              PROVE  /\ cmd_history'[k] \in [0..(N - 1) -> Char]
                     /\ \E n \in 0..(N - 1) : Holds(cmd_history'[k], n)
            <4>1. CASE k < H - 1
                <5>1. cmd_history'[k] = cmd_history[k + 1] /\ k + 1 \in 0..(H - 1)
                    BY <1>1, <2>1, <4>1
                <5>2. QED BY <1>1, <5>1 DEF Terminated
            <4>2. CASE ~(k < H - 1)
                BY <1>4, <2>1, <4>2
            <4>3. QED BY <4>1, <4>2
        <3>2. cmd_history' \in [0..(H - 1) -> [0..(N - 1) -> Char]]
            BY <2>1, <3>1
        <3>3. QED BY <1>1, <2>1, <3>1, <3>2 DEF Terminated
    <2>3. /\ Past' \in Seq(Seq(Glyph)) /\ Len(Past') = H
          /\ \A i \in 1..H : Past'[i] = Entry(cmd_history'[i - 1])
        BY <2>1, <2>2, EntriesFacts DEF Past
    <2>4. /\ Tail(new) \in Seq(Seq(Glyph)) /\ Len(Tail(new)) = H
          /\ \A i \in 1..H : Tail(new)[i] = new[i + 1]
        <3>1. new # <<>>
            BY <1>1, <1>7
        <3>2. /\ Tail(new) \in Seq(Seq(Glyph)) /\ Len(Tail(new)) = Len(new) - 1
              /\ \A i \in 1..Len(Tail(new)) : Tail(new)[i] = new[i + 1]
            BY <1>7, <3>1, HeadTailProperties
        <3>3. Len(new) - 1 = H
            BY <1>1, <1>7, <2>1
        <3>4. QED BY <3>2, <3>3
    <2>5. ASSUME NEW i \in 1..H PROVE Past'[i] = Tail(new)[i]
        <3>1. CASE i < H
            <4>1. i - 1 \in 0..(H - 1) /\ i - 1 < H - 1 /\ (i - 1) + 1 = i
                BY <1>1, <3>1
            <4>2. cmd_history'[i - 1] = cmd_history[i]
                BY <2>1, <4>1
            <4>3. i + 1 \in 1..history_count /\ (i + 1) - 1 = i
                BY <1>1, <2>1, <3>1
            <4>4. new[i + 1] = Entry(cmd_history[i])
                BY <1>3, <1>7, <4>3
            <4>5. QED BY <2>3, <2>4, <4>2, <4>4
        <3>2. CASE i = H
            <4>1. i - 1 \in 0..(H - 1) /\ ~(i - 1 < H - 1)
                BY <1>1, <3>2
            <4>2. cmd_history'[i - 1] = p
                BY ONLY <2>1, <4>1
            <4>3. i + 1 = history_count + 1
                BY <2>1, <3>2
            <4>4. new[i + 1] = Text
                BY ONLY <1>7, <4>3
            <4>5. Tail(new)[i] = new[i + 1] /\ Past'[i] = Entry(cmd_history'[i - 1])
                BY <2>3, <2>4
            <4>6. Past'[i] = Entry(p)
                BY ONLY <4>2, <4>5
            <4>7. QED BY ONLY <1>4, <4>4, <4>5, <4>6
        <3>3. i < H \/ i = H
            BY <1>1
        <3>4. QED BY ONLY <3>1, <3>2, <3>3
    <2>6. Past' = Tail(new)
        BY <2>3, <2>4, <2>5, SeqEqual
    <2>7. HistInv'
        BY <1>1, <1>8, <2>1, <2>2 DEF HistInv
    <2>8. Len(Past) + 1 > H
        BY <1>1, <1>3, <2>1
    <2>9. QED BY <1>8, <1>10, <2>6, <2>7, <2>8 DEF new
<1>11. CASE ~(Text = <<>> \/ (Past # <<>> /\ Last(Past) = Text)) /\ ~(history_count >= H)
    <2>1. /\ cmd_history' = [cmd_history EXCEPT ![history_count] = p]
          /\ history_count' = history_count + 1
        BY <1>5, <1>6, <1>11 DEF shell_push_history, H, p
    <2>2. history_count \in 0..(H - 1)
        BY <1>1, <1>11
    <2>3. \A k \in 0..(H - 1) :
            cmd_history'[k] = IF k = history_count THEN p ELSE cmd_history[k]
        BY <1>1, <2>1 DEF Terminated
    <2>4. Terminated(cmd_history', history_count')
        <3>1. cmd_history' \in [0..(H - 1) -> [0..(N - 1) -> Char]]
            BY <1>1, <1>4, <2>1, <2>2 DEF Terminated
        <3>2. ASSUME NEW k \in 0..(H - 1)
              PROVE  \E n \in 0..(N - 1) : Holds(cmd_history'[k], n)
            <4>1. CASE k = history_count
                <5>1. cmd_history'[k] = p
                    BY <2>3, <4>1
                <5>2. QED BY <1>4, <5>1
            <4>2. CASE k # history_count
                <5>1. cmd_history'[k] = cmd_history[k]
                    BY <2>3, <4>2
                <5>2. QED BY <1>1, <5>1 DEF Terminated
            <4>3. QED BY <4>1, <4>2
        <3>3. history_count' \in 0..H
            BY <1>1, <2>1, <2>2
        <3>4. QED BY <3>1, <3>2, <3>3 DEF Terminated
    <2>5. /\ Past' \in Seq(Seq(Glyph)) /\ Len(Past') = history_count + 1
          /\ \A i \in 1..(history_count + 1) : Past'[i] = Entry(cmd_history'[i - 1])
        BY <2>1, <2>4, EntriesFacts DEF Past
    <2>6. ASSUME NEW i \in 1..(history_count + 1) PROVE Past'[i] = new[i]
        <3>1. CASE i <= history_count
            <4>1. i - 1 \in 0..(H - 1) /\ i - 1 # history_count /\ i \in 1..history_count
                BY <1>1, <2>2, <3>1
            <4>2. cmd_history'[i - 1] = cmd_history[i - 1]
                BY <2>3, <4>1
            <4>3. Past'[i] = Entry(cmd_history[i - 1])
                BY <2>5, <4>2
            <4>4. new[i] = Past[i] /\ Past[i] = Entry(cmd_history[i - 1])
                BY <1>3, <1>7, <4>1
            <4>5. QED BY <4>3, <4>4
        <3>2. CASE i = history_count + 1
            <4>1. i - 1 = history_count
                BY <1>1, <3>2
            <4>2. cmd_history'[i - 1] = p
                BY <2>2, <2>3, <4>1
            <4>3. QED BY <1>4, <1>7, <2>5, <3>2, <4>2
        <3>3. QED BY <1>1, <3>1, <3>2
    <2>7. Past' = new
        BY <1>7, <2>5, <2>6, SeqEqual
    <2>8. HistInv'
        BY <1>1, <1>8, <2>1, <2>2, <2>4 DEF HistInv
    <2>9. ~(Len(Past) + 1 > H)
        BY <1>1, <1>3, <2>2
    <2>10. QED BY <1>8, <1>11, <2>7, <2>8, <2>9 DEF new
<1>12. QED BY <1>9, <1>10, <1>11

LEMMA EnterStep == IInv /\ EnterByte => IInv' /\ Line!LineNext
<1> SUFFICES ASSUME IInv, EnterByte PROVE IInv' /\ Line!LineNext
    OBVIOUS
<1> USE DEF IInv
<1>1. /\ stat' = "NORMAL" /\ shell_push_history
      /\ line' = [k \in 0..N |-> NUL] /\ line_position' = 0 /\ line_curpos' = 0
      /\ ran' = IF line_position = 0 THEN <<>> ELSE Chars(line, rt_strlen(line))
    <2>1. Zeroed(FINSH_CMD_SIZE + 1) = [k \in 0..N |-> NUL]
        <3>1. (FINSH_CMD_SIZE + 1) - 1 = N
            BY Sizes DEF N
        <3>2. QED BY <3>1 DEF Zeroed
    <2>2. QED BY <2>1 DEF EnterByte
<1>2. LineInv'
    BY <1>1, Sizes DEF LineInv, Holds, Char
<1>3. Text' = <<>>
    <2>1. <<>> \in Seq(Glyph) /\ Len(<<>>) = 0 /\ \A k \in 1..0 : <<>>[k] = line'[k - 1]
        OBVIOUS
    <2>2. QED BY <1>1, <1>2, <2>1, NewText
<1>4. /\ HistInv' /\ current_history' = history_count'
      /\ Past' = IF Text = <<>> \/ (Past # <<>> /\ Last(Past) = Text) THEN Past
                 ELSE IF Len(Past) + 1 > H THEN Tail(Append(Past, Text))
                 ELSE Append(Past, Text)
    BY <1>1, PushFacts
<1>5. ran' = Text /\ Text \in Seq(Glyph)
    <2>1. /\ Text \in Seq(Glyph) /\ Len(Text) = line_position
          /\ Chars(line, rt_strlen(line)) = Text
        BY LineFacts
    <2>2. CASE line_position = 0
        <3>1. Text = <<>>
            BY <2>1, <2>2
        <3>2. QED BY <1>1, <2>1, <2>2, <3>1
    <2>3. CASE line_position # 0
        BY <1>1, <2>1, <2>3
    <2>4. QED BY <2>2, <2>3
<1>6. IInv'
    BY <1>1, <1>2, <1>4, <1>5
<1>7. current_history' = Len(Past')
    <2>1. Terminated(cmd_history', history_count')
        BY <1>4 DEF HistInv
    <2>2. Len(Past') = history_count'
        BY <2>1, EntriesFacts DEF Past
    <2>3. QED BY <1>4, <2>2
<1>8. Past' = IF Text = <<>> \/ (Past # <<>> /\ Line!Last(Past) = Text) THEN Past
              ELSE Line!Latest(Append(Past, Text))
    <2>1. Past \in Seq(Seq(Glyph)) /\ Text \in Seq(Glyph)
        BY <1>5, EntriesFacts DEF HistInv, Past
    <2>2. Len(Append(Past, Text)) = Len(Past) + 1
        BY <2>1, AppendProperties
    <2>3. Line!Latest(Append(Past, Text)) =
            IF Len(Past) + 1 > H THEN Tail(Append(Past, Text)) ELSE Append(Past, Text)
        BY <2>2 DEF Line!Latest, H
    <2>4. Line!Last(Past) = Last(Past)
        BY DEF Last, Line!Last
    <2>5. QED BY <1>4, <2>3, <2>4
<1>9. Line!Submit
    <2>1. line_curpos' = 0
        BY <1>1
    <2>2. ran' = Text
        BY <1>5
    <2>3. QED BY ONLY <1>3, <1>7, <1>8, <2>1, <2>2
                 DEF Line!Submit, Line!Runs, Text, Past, Entries, Entry
<1>10. QED BY <1>6, <1>9 DEF Line!LineNext

-----------------------------------------------------------------------------

LEMMA InitIInv == Init => IInv /\ Line!LineInit
<1> SUFFICES ASSUME Init PROVE IInv /\ Line!LineInit
    OBVIOUS
<1>1. /\ line = [k \in 0..N |-> NUL] /\ line_position = 0 /\ line_curpos = 0
      /\ cmd_history = [i \in 0..(H - 1) |-> [k \in 0..(N - 1) |-> NUL]]
      /\ history_count = 0 /\ current_history = 0 /\ stat = "NORMAL" /\ ran = <<>>
    <2>1. (FINSH_CMD_SIZE + 1) - 1 = N
        BY Sizes DEF N
    <2>2. QED BY <2>1 DEF Init, Zeroed, N, H
<1>2. LineInv
    BY <1>1, Sizes DEF LineInv, Holds, Char
<1>3. HistInv
    <2>1. \A i \in 0..(H - 1) : Holds(cmd_history[i], 0)
        BY <1>1 DEF Holds
    <2>2. 0 \in 0..(N - 1) /\ 0 \in 0..H
        BY Sizes
    <2>3. cmd_history \in [0..(H - 1) -> [0..(N - 1) -> Char]]
        BY <1>1 DEF Char
    <2>4. Terminated(cmd_history, 0)
        BY ONLY <2>1, <2>2, <2>3 DEF Terminated
    <2>5. QED BY <1>1, <2>4 DEF HistInv
<1>4. Text = <<>>
    <2>1. Text \in Seq(Glyph) /\ Len(Text) = 0
        BY <1>1, <1>2, LineFacts
    <2>2. QED BY <2>1
<1>5. Past = <<>>
    <2>1. Past \in Seq(Seq(Glyph)) /\ Len(Past) = 0
        BY <1>1, <1>3, EntriesFacts DEF HistInv, Past
    <2>2. QED BY <2>1
<1>6. Line!LineInit
    BY <1>1, <1>4, <1>5 DEF Line!LineInit, Text, Past, Entries, Entry
<1>7. QED BY <1>1, <1>2, <1>3, <1>6 DEF IInv

LEMMA StepIInv == Short /\ IInv /\ [Next]_vars => IInv' /\ [Line!LineNext]_(Line!lineVars)
<1> SUFFICES ASSUME Short, IInv, [Next]_vars
             PROVE  IInv' /\ [Line!LineNext]_(Line!lineVars)
    OBVIOUS
<1>1. CASE EscapeByte
    BY <1>1, QuietKey DEF EscapeByte
<1>2. CASE BracketByte
    BY <1>2, QuietKey DEF BracketByte
<1>3. CASE NulByte
    BY <1>3, QuietKey DEF NulByte
<1>4. CASE UpKey \/ DownKey \/ LeftKey \/ RightKey
    BY <1>4, UpKeyStep, DownKeyStep, LeftKeyStep, RightKeyStep
<1>5. CASE TabByte \/ EnterByte
    BY <1>5, TabStep, EnterStep
<1>6. CASE BackspaceByte
    BY <1>6, BackspaceStep
<1>7. ASSUME NEW ch \in Glyph, Character(ch)
      PROVE  IInv' /\ [Line!LineNext]_(Line!lineVars)
    BY <1>7, CharacterStep
<1>8. CASE UNCHANGED vars
    <2>1. LineInv' /\ HistInv'
        BY <1>8 DEF vars, IInv, LineInv, HistInv, Terminated, Holds
    <2>2. IInv'
        BY <1>8, <2>1 DEF vars, IInv
    <2>3. UNCHANGED Line!lineVars
        BY <1>8 DEF vars, Line!lineVars
    <2>4. QED BY <2>2, <2>3
<1>9. QED BY <1>1, <1>2, <1>3, <1>4, <1>5, <1>6, <1>7, <1>8 DEF Next

LEMMA WithinSum ==
    ASSUME NEW c \in Nat, NEW b \in 0..c, NEW a \in 0..b
    PROVE  a \in 0..c
OBVIOUS

LEMMA Within ==
    ASSUME NEW w \in Nat, NEW n \in Nat, n <= w, NEW b \in 0..(n - 1), NEW a \in 0..b
    PROVE  b \in 0..w /\ a \in 0..w
OBVIOUS

(* No byte moves a position out of the line or an index out of the history *)
(* while no line is filled to its end, for arrays of any size up to the    *)
(* width of a position.                                                    *)
THEOREM TypeCorrect == ASSUME Short PROVE Spec => []TypeOK
<1>1. IInv => TypeOK
    <2> SUFFICES ASSUME IInv PROVE TypeOK
        OBVIOUS
    <2>1. N \in Nat /\ N <= UInt16Max /\ H \in Nat
        BY Sizes DEF Short, N
    <2>2. line_position \in 0..(N - 1) /\ line_curpos \in 0..line_position
        BY DEF IInv, LineInv
    <2>3. line_position \in 0..UInt16Max /\ line_curpos \in 0..UInt16Max
        BY ONLY <2>1, <2>2, Width, Within
    <2>4. history_count \in 0..H /\ current_history \in 0..history_count
        BY DEF IInv, HistInv, Terminated
    <2>5. current_history \in 0..H
        BY ONLY <2>1, <2>4, WithinSum
    <2>6. line \in [0..FINSH_CMD_SIZE -> Char] /\ ran \in Seq(Glyph)
        BY DEF IInv, LineInv, N
    <2>7. stat \in {"NORMAL", "SPEC_KEY", "FUNC_KEY"}
        BY DEF IInv
    <2>8. cmd_history \in [0..(FINSH_HISTORY_LINES - 1) -> [0..(FINSH_CMD_SIZE - 1) -> Char]]
        BY DEF IInv, HistInv, Terminated, N, H
    <2>9. /\ history_count \in 0..FINSH_HISTORY_LINES
          /\ current_history \in 0..FINSH_HISTORY_LINES
        BY <2>4, <2>5 DEF H
    <2>10. QED BY ONLY <2>3, <2>6, <2>7, <2>8, <2>9 DEF TypeOK
<1>2. IInv /\ [Next]_vars => IInv'
    BY StepIInv
<1>3. QED BY <1>1, <1>2, InitIInv, PTL DEF Spec

(* Every byte does to the text, the cursor and the history what the key    *)
(* means, and what runs is what stands on the line.                        *)
THEOREM EditorImplementsLine == ASSUME Short PROVE Spec => ImplementsLine
<1>1. IInv /\ [Next]_vars => IInv' /\ [Line!LineNext]_(Line!lineVars)
    BY StepIInv
<1>2. QED BY <1>1, InitIInv, PTL DEF Spec, ImplementsLine, Line!LineSpec
=============================================================================
