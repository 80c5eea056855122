--------------------------- MODULE LineDiscipline ---------------------------
(***************************************************************************)
(* What the shell's line editor promises to the operator: a text with a    *)
(* cursor in it, the last few different commands to recall, and a command  *)
(* that runs exactly as it stands on the line.                             *)
(***************************************************************************)
EXTENDS Integers, Sequences, SequencesExt

CONSTANTS Glyph, Remembered, Commands

VARIABLES text,    \* what stands on the line
          cursor,  \* characters left of the cursor
          past,    \* commands to recall, the oldest first
          recall,  \* how many of them are older than the one recalled
          ran      \* the command the last key has run, <<>> if none

lineVars == <<text, cursor, past, recall, ran>>

LineInit == text = <<>> /\ cursor = 0 /\ past = <<>> /\ recall = 0 /\ ran = <<>>

Runs(cmd) == ran' = cmd

(* Keys that edit run nothing and leave the history alone.                 *)
Edit == Runs(<<>>) /\ UNCHANGED <<past, recall>>

Type(c) == /\ text' = InsertAt(text, cursor + 1, c) /\ cursor' = cursor + 1
           /\ Edit

Erase == /\ cursor > 0
         /\ text' = RemoveAt(text, cursor) /\ cursor' = cursor - 1
         /\ Edit

MoveCursor == /\ cursor' \in {cursor - 1, cursor + 1} \intersect 0..Len(text)
              /\ UNCHANGED text
              /\ Edit

NoEffect == UNCHANGED <<text, cursor>> /\ Edit

Complete ==
    LET fitting == {name \in Commands : IsPrefix(text, name)}
    IN  /\ text' = IF text = <<>> \/ fitting = {} THEN text ELSE LongestCommonPrefix(fitting)
        /\ cursor' = Len(text')
        /\ Edit

Show(n) == /\ recall' = n /\ text' = past[n + 1] /\ cursor' = Len(text')
           /\ Runs(<<>>) /\ UNCHANGED past

Older == recall > 0 /\ Show(recall - 1)

Newer == past # <<>> /\ Show(IF recall + 1 < Len(past) THEN recall + 1 ELSE Len(past) - 1)

Latest(s) == IF Len(s) > Remembered THEN Tail(s) ELSE s

Submit ==
    /\ Runs(text)
    /\ text' = <<>> /\ cursor' = 0
    /\ past' = IF text = <<>> \/ (past # <<>> /\ Last(past) = text) THEN past
               ELSE Latest(Append(past, text))
    /\ recall' = Len(past')

LineNext ==
    \/ \E c \in Glyph : Type(c)
    \/ Erase \/ MoveCursor \/ NoEffect \/ Complete
    \/ Older \/ Newer \/ Submit

LineSpec == LineInit /\ [][LineNext]_lineVars
=============================================================================
