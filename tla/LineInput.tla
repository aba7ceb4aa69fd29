----------------------------- MODULE LineInput ------------------------------
(***************************************************************************)
(* What console input promises: characters are edited until the line is    *)
(* entered by a newline or ^D, or because the buffer is full, and lines    *)
(* are then read in order, character by character.                         *)
(***************************************************************************)
EXTENDS Naturals, SequencesExt

CONSTANT INPUT_BUF

VARIABLES
  line,         \* what can be read
  edit          \* what is being typed

InputInit == line = <<>> /\ edit = <<>>

Type(c) ==
  /\ Len(line) + Len(edit) < INPUT_BUF
  /\ IF c \in {"nl", "eof"} \/ Len(line) + Len(edit) = INPUT_BUF - 1
       THEN line' = line \o Append(edit, c) /\ edit' = <<>>
       ELSE edit' = Append(edit, c) /\ UNCHANGED line

Erase == edit # <<>> /\ edit' = Front(edit) /\ UNCHANGED line

KillLine == edit' = <<>> /\ UNCHANGED line

Read == line # <<>> /\ line' = Tail(line) /\ UNCHANGED edit

InputSpec ==
  /\ InputInit
  /\ [][(\E c \in {"a", "nl", "eof"} : Type(c)) \/ Erase \/ KillLine \/ Read]_
       <<line, edit>>
=============================================================================
