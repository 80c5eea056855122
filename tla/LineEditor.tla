----------------------------- MODULE LineEditor -----------------------------
(***************************************************************************)
(* finsh_thread_entry (Middlewares/finsh/shell.c): the line the operator   *)
(* is typing, kept in an array of FINSH_CMD_SIZE + 1 characters with two   *)
(* positions, the history, and the escape sequences of the cursor keys,    *)
(* which may arrive in pieces.  One action per byte read; a byte < 0 ends  *)
(* the callback and changes nothing.                                       *)
(***************************************************************************)
EXTENDS Integers, Sequences, SequencesExt

CONSTANTS FINSH_CMD_SIZE, FINSH_HISTORY_LINES,
          Glyph,      \* printable characters the operator types
          Commands,   \* names in the command table
          LongLines   \* does the operator fill a line to the end?

NUL == "NUL"

ASSUME EditorAssumption ==
    /\ FINSH_CMD_SIZE \in Nat \ {0} /\ FINSH_HISTORY_LINES \in Nat \ {0}
    /\ NUL \notin Glyph /\ LongLines \in BOOLEAN
    /\ \A name \in Commands : name \in Seq(Glyph) /\ Len(name) < FINSH_CMD_SIZE

VARIABLES line, line_position, line_curpos, stat,
          cmd_history, history_count, current_history,
          ran         \* what msh_exec was given by the last byte

vars == <<line, line_position, line_curpos, stat,
          cmd_history, history_count, current_history, ran>>

histVars == <<cmd_history, history_count, current_history>>

Char == Glyph \union {NUL}

UInt16Max == 65535

TypeOK ==
    /\ line \in [0..FINSH_CMD_SIZE -> Char]
    /\ line_position \in 0..UInt16Max /\ line_curpos \in 0..UInt16Max
    /\ stat \in {"NORMAL", "SPEC_KEY", "FUNC_KEY"}
    /\ cmd_history \in [0..(FINSH_HISTORY_LINES - 1) -> [0..(FINSH_CMD_SIZE - 1) -> Char]]
    /\ history_count \in 0..FINSH_HISTORY_LINES
    /\ current_history \in 0..FINSH_HISTORY_LINES
    /\ ran \in Seq(Glyph)

Zeroed(n) == [k \in 0..(n - 1) |-> NUL]

Init ==
    /\ line = Zeroed(FINSH_CMD_SIZE + 1) /\ line_position = 0 /\ line_curpos = 0
    /\ stat = "NORMAL" /\ ran = <<>>
    /\ cmd_history = [i \in 0..(FINSH_HISTORY_LINES - 1) |-> Zeroed(FINSH_CMD_SIZE)]
    /\ history_count = 0 /\ current_history = 0

rt_strlen(s) == CHOOSE n \in DOMAIN s : s[n] = NUL /\ \A k \in 0..(n - 1) : s[k] # NUL

Chars(s, n) == [k \in 1..n |-> s[k - 1]]

(* The first n characters of s in a zeroed array like it.                  *)
Padded(s, n) == [k \in 0..(FINSH_CMD_SIZE - 1) |-> IF k < n THEN s[k] ELSE NUL]

(* memcpy of a history line over the line.                                 *)
Recalled(entry) == [k \in 0..FINSH_CMD_SIZE |-> IF k < FINSH_CMD_SIZE THEN entry[k] ELSE line[k]]

CursorAtEnd == line_position' = rt_strlen(line') /\ line_curpos' = line_position'

Read(next) == stat' = next /\ ran' = <<>>

LineKept == UNCHANGED <<line, line_position, line_curpos>>

-----------------------------------------------------------------------------
(* Escape sequences.                                                       *)

EscapeByte == Read("SPEC_KEY") /\ LineKept /\ UNCHANGED histVars

BracketByte ==
    /\ stat = "SPEC_KEY"
    /\ Read("FUNC_KEY") /\ LineKept /\ UNCHANGED histVars

FuncKey == stat = "FUNC_KEY" /\ Read("NORMAL")

UpKey ==
    /\ FuncKey
    /\ IF current_history = 0 THEN LineKept /\ UNCHANGED current_history
       ELSE /\ current_history' = current_history - 1
            /\ line' = Recalled(cmd_history[current_history - 1])
            /\ CursorAtEnd
    /\ UNCHANGED <<cmd_history, history_count>>

DownKey ==
    /\ FuncKey
    /\ IF history_count = 0 THEN LineKept /\ UNCHANGED current_history
       ELSE /\ current_history' = IF current_history < history_count - 1
                                  THEN current_history + 1 ELSE history_count - 1
            /\ line' = Recalled(cmd_history[current_history'])
            /\ CursorAtEnd
    /\ UNCHANGED <<cmd_history, history_count>>

LeftKey ==
    /\ FuncKey
    /\ line_curpos' = IF line_curpos > 0 THEN line_curpos - 1 ELSE 0
    /\ UNCHANGED <<line, line_position>> /\ UNCHANGED histVars

RightKey ==
    /\ FuncKey
    /\ line_curpos' = IF line_curpos < line_position THEN line_curpos + 1 ELSE line_curpos
    /\ UNCHANGED <<line, line_position>> /\ UNCHANGED histVars

-----------------------------------------------------------------------------
(* Everything else, also in the middle of an escape sequence.              *)

NulByte == Read("NORMAL") /\ LineKept /\ UNCHANGED histVars

(* msh_auto_complete overwrites the line with what all names share that    *)
(* begin like it; nothing is terminated behind it.                         *)
TabByte ==
    LET prefix == Chars(line, rt_strlen(line))
        names  == {name \in Commands : IsPrefix(prefix, name)}
        common == LongestCommonPrefix(names)
    IN  /\ Read("NORMAL")
        /\ line' = IF prefix = <<>> \/ names = {} THEN line
                   ELSE [k \in 0..FINSH_CMD_SIZE |->
                            IF k < Len(common) THEN common[k + 1] ELSE line[k]]
        /\ CursorAtEnd
        /\ UNCHANGED histVars

UInt16(n) == n % (UInt16Max + 1)

(* Mutant: the character behind the last is not cleared.                   *)
BackspaceByteUncleared ==
    /\ Read("NORMAL")
    /\ IF line_curpos = 0 THEN LineKept
       ELSE /\ line_position' = UInt16(line_position - 1)
            /\ line_curpos' = line_curpos - 1
            /\ line' = [k \in 0..FINSH_CMD_SIZE |->
                            IF k >= line_curpos' /\ k < line_position'
                            THEN line[k + 1] ELSE line[k]]
    /\ UNCHANGED histVars

(* Writes beyond the array (line_position wrapped) are left out.           *)
BackspaceByte ==
    /\ Read("NORMAL")
    /\ IF line_curpos = 0 THEN LineKept
       ELSE /\ line_position' = UInt16(line_position - 1)
            /\ line_curpos' = line_curpos - 1
            /\ line' = [k \in 0..FINSH_CMD_SIZE |->
                            IF k = line_position' THEN NUL
                            ELSE IF k >= line_curpos' /\ k < line_position' /\ k < FINSH_CMD_SIZE
                            THEN line[k + 1] ELSE line[k]]
    /\ UNCHANGED histVars

Shifted == [k \in 0..(FINSH_HISTORY_LINES - 1) |->
                IF k < FINSH_HISTORY_LINES - 1 THEN cmd_history[k + 1]
                ELSE Padded(line, line_position)]

SameAsLast(i) == cmd_history[i] = [k \in 0..(FINSH_CMD_SIZE - 1) |-> line[k]]

(* Mutant: one command too many is kept.                                   *)
shell_push_historyLate ==
    /\ IF \/ line_position = 0
          \/ history_count > 0 /\ SameAsLast(history_count - 1)
       THEN UNCHANGED <<cmd_history, history_count>>
       ELSE IF history_count > FINSH_HISTORY_LINES
       THEN cmd_history' = Shifted /\ UNCHANGED history_count
       ELSE /\ cmd_history' = [cmd_history EXCEPT ![history_count] = Padded(line, line_position)]
            /\ history_count' = history_count + 1
    /\ current_history' = history_count'

shell_push_history ==
    /\ IF \/ line_position = 0
          \/ history_count > 0 /\ SameAsLast(history_count - 1)
       THEN UNCHANGED <<cmd_history, history_count>>
       ELSE IF history_count >= FINSH_HISTORY_LINES
       THEN cmd_history' = Shifted /\ UNCHANGED history_count
       ELSE /\ cmd_history' = [cmd_history EXCEPT ![history_count] = Padded(line, line_position)]
            /\ history_count' = history_count + 1
    /\ current_history' = history_count'

(* msh_exec gets the length of the line, but the last argument of the      *)
(* command is the string up to the next NUL.                               *)
EnterByte ==
    /\ stat' = "NORMAL"
    /\ shell_push_history
    /\ ran' = IF line_position = 0 THEN <<>> ELSE Chars(line, rt_strlen(line))
    /\ line' = Zeroed(FINSH_CMD_SIZE + 1) /\ line_position' = 0 /\ line_curpos' = 0

Character(ch) ==
    LET position == IF line_position >= FINSH_CMD_SIZE THEN 0 ELSE line_position
        cleared  == position + 1 >= FINSH_CMD_SIZE
        at       == IF line_curpos < position THEN line_curpos ELSE position
    IN  /\ LongLines \/ ~cleared
        /\ Read("NORMAL")
        /\ line' = [k \in 0..FINSH_CMD_SIZE |->
                        IF k = at THEN ch
                        ELSE IF k > at /\ k <= position THEN line[k - 1] ELSE line[k]]
        /\ line_position' = IF cleared THEN 0 ELSE position + 1
        /\ line_curpos' = IF cleared THEN 0 ELSE line_curpos + 1
        /\ UNCHANGED histVars

Next ==
    \/ EscapeByte \/ BracketByte \/ UpKey \/ DownKey \/ LeftKey \/ RightKey
    \/ NulByte \/ TabByte \/ BackspaceByte \/ EnterByte
    \/ \E ch \in Glyph : Character(ch)

Spec == Init /\ [][Next]_vars

-----------------------------------------------------------------------------

(* To the operator the arrays and positions are a text with a cursor and a *)
(* short memory of different commands: inserting and erasing anywhere,     *)
(* completing, recalling and submitting do what they should, and what runs *)
(* is the text on the line, whatever was on it before.                     *)
Line == INSTANCE LineDiscipline
    WITH Remembered <- FINSH_HISTORY_LINES,
         text   <- Chars(line, line_position),
         cursor <- line_curpos,
         past   <- [i \in 1..history_count |-> Chars(cmd_history[i - 1], rt_strlen(cmd_history[i - 1]))],
         recall <- current_history

ImplementsLine == Line!LineSpec
=============================================================================
