--------------------------------- MODULE Sh ---------------------------------
(***************************************************************************)
(* The shell (user/sh.c): the recursive-descent parser of a command line,  *)
(* and runcmd(), which runs the parsed command in a tree of processes that *)
(* share pipes.                                                            *)
(*                                                                         *)
(* A line is a sequence of tokens: "w" is a word, the others are the       *)
(* symbols of gettoken().  White space, the text of words and the NULs     *)
(* that nulterminate() writes after them are left out.  fork(), wait(),    *)
(* exit(), pipe(), open(), close() and dup() are the kernel's, as far as   *)
(* the shell can tell; a program that is run reads its input to the end.   *)
(***************************************************************************)
EXTENDS Integers, FiniteSets, FiniteSetsExt, Sequences, TLC

CONSTANTS
  MAXARGS,      \* length of argv[]
  Lines,        \* the lines that may be typed
  None

NOFILE == 5     \* descriptors of a process: the shell uses no more
Fd == 0..(NOFILE - 1)
Redirection == {"<", ">", ">>"}
Token == {"w", "|", "&", ";", "(", ")"} \cup Redirection

ASSUME ShAssumption == MAXARGS \in Nat \ {0} /\ Lines \subseteq Seq(Token)

-----------------------------------------------------------------------------
(* The parsed command *)

execcmd(argc) == [type |-> "EXEC", argc |-> argc]
redircmd(c, tok) ==
  [type |-> "REDIR", cmd |-> c, fd |-> IF tok = "<" THEN 0 ELSE 1, mode |-> tok]
pipecmd(l, r) == [type |-> "PIPE", left |-> l, right |-> r]
listcmd(l, r) == [type |-> "LIST", left |-> l, right |-> r]
backcmd(c) == [type |-> "BACK", cmd |-> c]

-----------------------------------------------------------------------------
(* The parser: what a function returns, and the tokens that are left.      *)
(* panic() ends the process, so a failure is passed on by every caller.    *)

Parsed(c, s) == [ok |-> TRUE, cmd |-> c, rest |-> s]
Panic == [ok |-> FALSE, cmd |-> execcmd(0), rest |-> <<>>]

peek(s, toks) == s # <<>> /\ Head(s) \in toks

\* The token, which is 0 at the end of the line.
gettoken(s) == IF s = <<>> THEN "0" ELSE Head(s)

RECURSIVE parseredirs(_, _)
parseredirs(c, s) ==
  CASE ~peek(s, Redirection) -> Parsed(c, s)
    [] peek(s, Redirection) /\ gettoken(Tail(s)) # "w" -> Panic
    [] OTHER -> parseredirs(redircmd(c, Head(s)), Tail(Tail(s)))

\* The redirections of s around c, which gets argc arguments later: the
\* constructors nest around a node that is still being filled.
RECURSIVE WithArgs(_, _)
WithArgs(c, argc) ==
  IF c.type = "EXEC" THEN execcmd(argc)
                     ELSE [c EXCEPT !.cmd = WithArgs(@, argc)]

\* The loop of parseexec().
RECURSIVE ParseArgs(_, _, _)
ParseArgs(argc, c, s) ==
  IF s = <<>> \/ peek(s, {"|", ")", "&", ";"})
    THEN Parsed(WithArgs(c, argc), s)
  ELSE IF gettoken(s) # "w" \/ argc + 1 >= MAXARGS THEN Panic
  ELSE LET r == parseredirs(c, Tail(s))
       IN  IF r.ok THEN ParseArgs(argc + 1, r.cmd, r.rest) ELSE Panic

RECURSIVE parseline(_)
RECURSIVE parsepipe(_)

parseblock(s) ==
  LET r == parseline(Tail(s))
  IN  IF r.ok /\ peek(r.rest, {")"}) THEN parseredirs(r.cmd, Tail(r.rest))
                                     ELSE Panic

parseexec(s) ==
  IF peek(s, {"("}) THEN parseblock(s)
  ELSE LET r == parseredirs(execcmd(0), s)
       IN  IF r.ok THEN ParseArgs(0, r.cmd, r.rest) ELSE Panic

\* Mutant: pipelines associate to the left.
ParsepipeLeft(s) ==
  LET RECURSIVE More(_)
      More(r) ==
        IF r.ok /\ peek(r.rest, {"|"})
          THEN LET q == parseexec(Tail(r.rest))
               IN  More([q EXCEPT !.cmd = pipecmd(r.cmd, @)])
          ELSE r
  IN  More(parseexec(s))

parsepipe(s) ==
  LET l == parseexec(s)
  IN  IF l.ok /\ peek(l.rest, {"|"})
        THEN LET r == parsepipe(Tail(l.rest))
             IN  [r EXCEPT !.cmd = pipecmd(l.cmd, @)]
        ELSE l

\* The & after a command.
RECURSIVE ParseBack(_)
ParseBack(r) ==
  IF r.ok /\ peek(r.rest, {"&"})
    THEN ParseBack(Parsed(backcmd(r.cmd), Tail(r.rest))) ELSE r

parseline(s) ==
  LET l == ParseBack(parsepipe(s))
  IN  IF l.ok /\ peek(l.rest, {";"})
        THEN LET r == parseline(Tail(l.rest))
             IN  [r EXCEPT !.cmd = listcmd(l.cmd, @)]
        ELSE l

\* Nothing may be left over.
parsecmd(s) ==
  LET r == parseline(s) IN IF r.ok /\ r.rest = <<>> THEN r ELSE Panic

-----------------------------------------------------------------------------
(* Running a command *)

VARIABLES
  line,     \* the line that was typed
  parsed,   \* what parsecmd() makes of it
  proc      \* the shell and the processes under it, by pid

vars == <<line, parsed, proc>>

Main == <<0>>
Init1 == <<>>   \* init, which adopts orphans
Pids == DOMAIN proc

\* A descriptor table: the console, files, and the ends of pipes.
Console == [f \in Fd |-> IF f < 3 THEN <<"console">> ELSE None]
Close(fd, n) == [fd EXCEPT ![n] = None]
Free(fd) == {f \in Fd : fd[f] = None}
Install(fd, x) == [fd EXCEPT ![Min(Free(fd))] = x]    \* open(), dup()
Read(p) == <<"read", p>>
Write(p) == <<"write", p>>
Has(p, x) == \E f \in Fd : proc[p].fd[f] = x

\* A process that runs c.  io is what the syntax says its input and output
\* are; the code does not have it.  ends are p[0] and p[1] of runcmd().
Process(c, parent, fd, io) ==
  [cmd |-> c, pc |-> "run", parent |-> parent, fd |-> fd, io |-> io,
   ends |-> <<0, 0>>, kids |-> 0]

\* exit() closes everything; the children go to init, which waits for them.
ExitOf(pr, p) ==
  LET orphaned == [q \in DOMAIN pr |->
        IF pr[q].parent = p THEN [pr[q] EXCEPT !.parent = Init1] ELSE pr[q]]
      dead == [orphaned EXCEPT ![p].pc = "zombie",
                               ![p].fd = [f \in Fd |-> None]]
  IN  [q \in {x \in DOMAIN pr : dead[x].pc # "zombie" \/ dead[x].parent # Init1}
         |-> dead[q]]

exit(p) == proc' = ExitOf(proc, p) /\ UNCHANGED <<line, parsed>>

\* p goes on with the fields of r changed.
Goto(p, r) == proc' = [proc EXCEPT ![p] = r @@ @] /\ UNCHANGED <<line, parsed>>

\* fork1(): p goes on with r, the child is the process c; or fork() fails and
\* p exits.
Fork1(p, r, c) ==
  LET pid == Append(p, proc[p].kids + 1)
  IN  \/ /\ proc' = (pid :> c) @@ [proc EXCEPT ![p] =
                       r @@ [@ EXCEPT !.kids = @ + 1]]
         /\ UNCHANGED <<line, parsed>>
      \/ exit(p)

\* wait(): one child that has exited is gone; without children it returns.
Wait(p, r) ==
  LET children == {q \in Pids : proc[q].parent = p}
      next == [proc EXCEPT ![p] = r @@ @]
  IN  /\ UNCHANGED <<line, parsed>>
      /\ \/ children = {} /\ proc' = next
         \/ \E z \in children :
              /\ proc[z].pc = "zombie"
              /\ proc' = [q \in Pids \ {z} |-> next[q]]

At(p, pc, type) == proc[p].pc = pc /\ proc[p].cmd.type = type

\* case EXEC: the program is run, or exec() fails.
RunExec(p) ==
  /\ At(p, "run", "EXEC")
  /\ \/ proc[p].cmd.argc > 0 /\ Goto(p, [pc |-> "prog"])
     \/ exit(p)

\* A program reads its input to the end: a pipe ends when nobody can write.
Prog(p) ==
  /\ proc[p].pc = "prog"
  /\ LET in == proc[p].fd[0]
     IN  in # None /\ in[1] = "read" => \A q \in Pids : ~Has(q, Write(in[2]))
  /\ exit(p)

\* case REDIR
RunRedir(p) ==
  LET c == proc[p].cmd
      file == <<c.mode>>
  IN  /\ At(p, "run", "REDIR")
      /\ \/ Goto(p, [cmd |-> c.cmd, fd |-> Install(Close(proc[p].fd, c.fd), file),
                     io |-> [proc[p].io EXCEPT ![c.fd + 1] = file]])
         \/ exit(p)     \* open failed

\* case LIST
RunList(p) ==
  LET c == proc[p].cmd
  IN  /\ At(p, "run", "LIST")
      /\ Fork1(p, [pc |-> "wait"], Process(c.left, p, proc[p].fd, proc[p].io))

ListWait(p) ==
  /\ At(p, "wait", "LIST")
  /\ Wait(p, [pc |-> "run", cmd |-> proc[p].cmd.right])

\* case BACK
RunBack(p) ==
  /\ At(p, "run", "BACK")
  /\ Fork1(p, [pc |-> "exit"],
           Process(proc[p].cmd.cmd, p, proc[p].fd, proc[p].io))

\* case PIPE: pipe(p)
RunPipe(p) ==
  LET fd == proc[p].fd
      r  == Min(Free(fd))
      w  == Min(Free(fd) \ {r})
  IN  /\ At(p, "run", "PIPE")
      /\ Goto(p, [pc |-> "left", ends |-> <<r, w>>,
                  fd |-> [fd EXCEPT ![r] = Read(p), ![w] = Write(p)]])

\* A child of the pipeline, with what it does first still to do.
PipeChild(p, c, io, pc) ==
  [Process(c, p, proc[p].fd, io) EXCEPT !.pc = pc, !.ends = proc[p].ends]

PipeLeft(p) ==
  LET q == proc[p]
  IN  /\ At(p, "left", "PIPE")
      /\ Fork1(p, [pc |-> "right"],
               PipeChild(p, q.cmd.left, [q.io EXCEPT ![2] = Write(p)], "stdout"))

PipeRight(p) ==
  LET q == proc[p]
  IN  /\ At(p, "right", "PIPE")
      /\ Fork1(p, [pc |-> "close"],
               PipeChild(p, q.cmd.right, [q.io EXCEPT ![1] = Read(p)], "stdin"))

\* Mutant: a child keeps the end it does not use.
ChildFdsKept(fd, ends, n) ==
  Close(Install(Close(fd, n), fd[ends[n + 1]]), ends[n + 1])

\* close(n); dup(p[n]); close(p[0]); close(p[1])
ChildFds(fd, ends, n) ==
  Close(Close(Install(Close(fd, n), fd[ends[n + 1]]), ends[1]), ends[2])

PipeSetup(p) ==
  \E n \in {0, 1} :
    /\ proc[p].pc = <<"stdin", "stdout">>[n + 1]
    /\ Goto(p, [pc |-> "run", fd |-> ChildFds(proc[p].fd, proc[p].ends, n)])

\* Mutant: the parent keeps the end that is written to.
PipeCloseRead(p) ==
  /\ At(p, "close", "PIPE")
  /\ Goto(p, [pc |-> "wait", fd |-> Close(proc[p].fd, proc[p].ends[1])])

PipeClose(p) ==
  /\ At(p, "close", "PIPE")
  /\ Goto(p, [pc |-> "wait", fd |-> Close(Close(proc[p].fd, proc[p].ends[1]),
                                          proc[p].ends[2])])

PipeWait(p) == At(p, "wait", "PIPE") /\ Wait(p, [pc |-> "wait2"])
PipeWait2(p) == At(p, "wait2", "PIPE") /\ Wait(p, [pc |-> "exit"])

\* break; exit(0)
RunExit(p) == proc[p].pc = "exit" /\ exit(p)

-----------------------------------------------------------------------------
(* main() *)

Prompt == Main \in Pids /\ proc[Main].pc = "prompt"

\* The shell reads a line, forks a child that parses and runs it, and waits.
\* What the child's parsecmd() returns is recorded as soon as the line is
\* known: nobody changes buf between.
getcmd ==
  /\ Prompt /\ line = None
  /\ line' \in Lines
  /\ parsed' = parsecmd(line')
  /\ proc' = [proc EXCEPT ![Main].pc = "typed"]

MainFork ==
  /\ Main \in Pids /\ proc[Main].pc = "typed"
  /\ Fork1(Main, [pc |-> "mainwait"],
           [Process(execcmd(0), Main, proc[Main].fd, proc[Main].io)
              EXCEPT !.pc = "parse"])

MainWait ==
  /\ Main \in Pids /\ proc[Main].pc = "mainwait"
  /\ Wait(Main, [pc |-> "prompt"])

\* runcmd(parsecmd(buf)) in the child
Parse(p) ==
  /\ proc[p].pc = "parse"
  /\ IF parsed.ok THEN Goto(p, [pc |-> "run", cmd |-> parsed.cmd]) ELSE exit(p)

\* End of input.  One line is typed in a behaviour.
MainExit == Prompt /\ line # None /\ exit(Main)

Init ==
  /\ line = None /\ parsed = Panic
  /\ proc = (Main :> [Process(execcmd(0), Init1, Console,
                             <<Console[0], Console[1]>>) EXCEPT !.pc = "prompt"])

runcmd(p) ==
  \/ RunExec(p) \/ RunRedir(p) \/ RunList(p) \/ ListWait(p) \/ RunBack(p)
  \/ RunPipe(p) \/ PipeLeft(p) \/ PipeRight(p) \/ PipeSetup(p)
  \/ PipeClose(p) \/ PipeWait(p) \/ PipeWait2(p) \/ RunExit(p)

Step == MainFork \/ MainWait \/ \E p \in Pids : Parse(p) \/ runcmd(p) \/ Prog(p)

Next == getcmd \/ MainExit \/ Step

\* The kernel's scheduler runs every process that can run; nobody has to
\* type.  Every step takes some process further, so one fairness condition
\* on all of them is enough.
Spec == Init /\ [][Next]_vars /\ WF_vars(Step)

-----------------------------------------------------------------------------
(* The language, by its structure and not by a parser: where the operators *)
(* of lowest precedence stand outside parentheses.                         *)

Bad == [type |-> "BAD"]
Count(s, i, t) == Cardinality({j \in 1..i : s[j] = t})
Depth(s, i) == Count(s, i, "(") - Count(s, i, ")")
Balanced(s) == (\A i \in 1..Len(s) : Depth(s, i) >= 0) /\ Depth(s, Len(s)) = 0
Top(s, t) == {i \in 1..Len(s) : s[i] = t /\ Depth(s, i) = 0}
Before(s, i) == SubSeq(s, 1, i - 1)
After(s, i) == SubSeq(s, i + 1, Len(s))

\* A command is as bad as its worst part.
IsBad(c) == c.type = "BAD"
Both(op(_, _), l, r) == IF IsBad(l) \/ IsBad(r) THEN Bad ELSE op(l, r)

\* c with the redirections of s around it, the last one outermost.
Redirected(c, s) ==
  LET ops == {i \in 1..Len(s) : s[i] \in Redirection}
      RECURSIVE Around(_, _)
      Around(d, todo) == IF todo = {} THEN d
                         ELSE Around(redircmd(d, s[Min(todo)]), todo \ {Min(todo)})
  IN  Around(c, ops)

\* Words, and operators that are each followed by the word they redirect to.
Simple(s) ==
  LET ops == {i \in 1..Len(s) : s[i] \in Redirection}
      words == {i \in 1..Len(s) : s[i] = "w"}
      args == {i \in words : i - 1 \notin ops}
  IN  IF /\ ops \cup words = 1..Len(s)
         /\ \A i \in ops : i + 1 \in words
         /\ Cardinality(args) < MAXARGS
        THEN Redirected(execcmd(Cardinality(args)), s) ELSE Bad

RECURSIVE Meaning(_)
Block(s) ==
  LET close == Min({i \in 1..Len(s) : Depth(s, i) = 0})
      c == Meaning(SubSeq(s, 2, close - 1))
      suffix == After(s, close)
  IN  IF IsBad(c) \/ Simple(suffix) # Redirected(execcmd(0), suffix)
        THEN Bad ELSE Redirected(c, suffix)

RECURSIVE Pipeline(_)
Pipeline(s) ==
  IF Top(s, "|") # {}
    THEN LET i == Min(Top(s, "|"))
         IN  Both(pipecmd, Pipeline(Before(s, i)), Pipeline(After(s, i)))
  ELSE IF s # <<>> /\ s[1] = "(" THEN Block(s) ELSE Simple(s)

RECURSIVE Backed(_)
Backed(s) ==
  IF s # <<>> /\ s[Len(s)] = "&"
    THEN LET c == Backed(Before(s, Len(s))) IN IF IsBad(c) THEN Bad ELSE backcmd(c)
  ELSE IF Top(s, "&") # {} THEN Bad ELSE Pipeline(s)

Meaning(s) ==
  IF ~Balanced(s) THEN Bad
  ELSE IF Top(s, ";") # {}
    THEN LET i == Min(Top(s, ";"))
         IN  Both(listcmd, Backed(Before(s, i)), Meaning(After(s, i)))
  ELSE Backed(s)

-----------------------------------------------------------------------------
(* Properties *)

\* The parser accepts exactly the lines of the language and gives them their
\* structure: ; binds least, then a trailing &, then |, all to the right;
\* redirections nest in the order written; argv[] never overflows
\* (parsecmd() and everything under it).
ParsesTheLanguage ==
  line # None =>
    Meaning(line) = IF parsed.ok THEN parsed.cmd ELSE Bad

\* A program starts with the input and the output the line gives it, and
\* with no other descriptor than the console's third: what runcmd() does
\* with close(), dup(), pipe() and open() relies on the lowest free
\* descriptor being the right one, in every process of a nested pipeline.
ProgramsGetTheirEnds ==
  \A p \in Pids : proc[p].pc = "prog" =>
    proc[p].fd = [f \in Fd |-> CASE f < 2 -> proc[p].io[f + 1]
                                 [] f = 2 -> <<"console">>
                                 [] OTHER -> None]

\* However the processes interleave and whichever fork(), open() or exec()
\* fails, a line is done with: every reader of a pipe sees its end, every
\* wait() of runcmd() returns, no process is left, and the shell is back at
\* its prompt unless its own fork1() failed.
LineEnds ==
  line # None ~> Pids \subseteq {Main} /\ (Main \in Pids => Prompt)
=============================================================================
