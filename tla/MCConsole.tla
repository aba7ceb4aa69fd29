------------------------------ MODULE MCConsole -----------------------------
(* Instances of Console for TLC.                                             *)
EXTENDS Console

Load(k, t, d, p) == [keys |-> k, threads |-> t, killable |-> d, printf |-> p]

\* A line is typed, edited and read, also by a thread that is killed.
LoadEdit ==
  Load({"a", "cr", "eof", "bs", "kill"}, {"r1"}, {"r1"}, FALSE)

\* Two threads read what is typed.
LoadReaders == Load({"a", "nl", "nul"}, {"r1", "r2"}, {}, FALSE)

\* Two threads write while a key echoes and the kernel prints.
LoadWriters == Load({"dump"}, {"w1", "w2"}, {}, TRUE)

ConsoleLoads == {LoadEdit, LoadReaders, LoadWriters}
=============================================================================
